-------------------------- MODULE ComponentProofs ---------------------------
(***************************************************************************)
(* Proofs about the components that share no state with the others, for    *)
(* every value of their constants: the FdCtx objects of FdManager and the  *)
(* contexts of IOManager, for every number of threads and descriptors and  *)
(* every size of the tables; ByteArray, for every size of a node, of a     *)
(* byte and of an integer; HttpConnection, for every set of well-formed    *)
(* responses and every size of the buffer; LogFormatter, for every set of  *)
(* characters and every length of a pattern; Address, for every width and  *)
(* every number of bytes and groups.                                       *)
(***************************************************************************)
EXTENDS ByteArray, FdManager, FdContexts, HttpConnection, LogFormatter, Address,
        SequenceTheorems, FiniteSetTheorems, WellFoundedInduction, TLAPS

-----------------------------------------------------------------------------
(* Numbers.  Induction goes by a least counterexample, since the induction *)
(* theorems of the library take an operator.                               *)

\* The lowest of some numbers is one of them.
LEMMA LowestFree ==
    ASSUME NEW S \in SUBSET Nat, S # {}
    PROVE  Min(S) \in S /\ \A y \in S : Min(S) <= y
<1> DEFINE less == OpToRel(<, Nat)
<1>1. \A x, y \in Nat : <<x, y>> \in less <=> x < y
  BY DEF OpToRel
<1>2. IsWellFoundedOn(less, Nat)
  BY NatLessThanWellFounded
<1> HIDE DEF less
<1>3. PICK x \in S : \A y \in S : <<y, x>> \notin less
  BY <1>2, WFMin
<1>4. ASSUME NEW y \in S PROVE x <= y
  <2>1. x \in Nat /\ y \in Nat /\ <<y, x>> \notin less
    BY <1>3
  <2>2. ~ (y < x)
    BY <1>1, <2>1
  <2> QED BY <2>1, <2>2
<1> QED BY <1>3, <1>4 DEF Min

\* What holds for 0 and goes on from each number to the next holds for all.
LEMMA Counting ==
    ASSUME NEW S \in SUBSET Nat, 0 \in S, \A n \in S : n + 1 \in S
    PROVE  S = Nat
<1> SUFFICES ASSUME Nat \ S # {} PROVE FALSE
  OBVIOUS
<1>1. PICK x \in Nat \ S : \A y \in Nat \ S : x <= y
  <2> DEFINE R == Nat \ S
  <2>1. R \in SUBSET Nat /\ R # {}
    OBVIOUS
  <2> HIDE DEF R
  <2>2. Min(R) \in R /\ \A y \in R : Min(R) <= y
    BY <2>1, LowestFree
  <2> QED BY <2>2 DEF R
<1>2. x # 0 /\ x - 1 \in Nat
  BY <1>1
<1>3. x - 1 \in S
  BY <1>1, <1>2
<1>4. (x - 1) + 1 \in S
  BY <1>3
<1> QED BY <1>1, <1>4

\* A product with a sum.
LEMMA Distributive ==
    ASSUME NEW a \in Nat, NEW b \in Nat, NEW c \in Nat
    PROVE  a * (b + c) = a * b + a * c
OBVIOUS

\* A number is made of the quotient and the rest.
LEMMA Division ==
    ASSUME NEW x \in Nat, NEW m \in Nat \ {0}
    PROVE  \E q \in Nat, r \in 0 .. m - 1 : q = x \div m /\ r = x % m /\ x = q * m + r
<1>1. PICK q \in Nat : q = x \div m
  OBVIOUS
<1>2. PICK r \in 0 .. m - 1 : r = x % m
  OBVIOUS
<1>3. x = q * m + r
  BY <1>1, <1>2
<1> QED BY <1>1, <1>2, <1>3

\* The powers of two, as the numbers of subsets.
LEMMA PowerNat ==
    ASSUME NEW n \in Nat
    PROVE  2 ^ n \in Nat \ {0} /\ IsFiniteSet(SUBSET (1 .. n)) /\ Cardinality(SUBSET (1 .. n)) = 2 ^ n
<1>1. IsFiniteSet(1 .. n) /\ Cardinality(1 .. n) = n
  BY FS_Interval
<1>2. IsFiniteSet(SUBSET (1 .. n)) /\ Cardinality(SUBSET (1 .. n)) = 2 ^ n
  BY <1>1, FS_SUBSET
<1>3. Cardinality(SUBSET (1 .. n)) \in Nat
  BY <1>2, FS_CardinalityType
<1>4. Cardinality(SUBSET (1 .. n)) # 0
  <2>1. {} \in SUBSET (1 .. n)
    OBVIOUS
  <2> QED BY <1>2, <2>1, FS_EmptySet
<1> QED BY <1>2, <1>3, <1>4

\* Powers of two, from the subsets of an interval.
LEMMA PowerNext ==
    ASSUME NEW n \in Nat
    PROVE  2 ^ (n + 1) = 2 * 2 ^ n
<1> DEFINE A == SUBSET (1 .. n)
           B == {T \in SUBSET (1 .. n + 1) : n + 1 \in T}
           f == [T \in A |-> T \cup {n + 1}]
<1>1. 2 ^ n \in Nat /\ IsFiniteSet(A) /\ Cardinality(A) = 2 ^ n
  BY PowerNat
<1>p. Cardinality(SUBSET (1 .. n + 1)) = 2 ^ (n + 1)
  <2>1. n + 1 \in Nat
    OBVIOUS
  <2> QED BY <2>1, PowerNat, Zenon
<1>2. f \in Bijection(A, B)
  <2>1. f \in [A -> B]
    OBVIOUS
  <2>2. \A S, T \in A : f[S] = f[T] => S = T
    OBVIOUS
  <2>3. ASSUME NEW T \in B PROVE \E S \in A : f[S] = T
    <3>1. T \ {n + 1} \in A /\ f[T \ {n + 1}] = T
      OBVIOUS
    <3> QED BY <3>1
  <2> QED BY <2>1, <2>2, <2>3 DEF Bijection, Injection, IsInjective, Surjection
<1>3. IsFiniteSet(B) /\ Cardinality(B) = 2 ^ n
  <2>1. ExistsBijection(A, B)
    BY <1>2 DEF ExistsBijection
  <2> QED BY <1>1, <2>1, FS_Bijection
<1>4. SUBSET (1 .. n + 1) = A \cup B /\ A \cap B = {}
  OBVIOUS
<1>5. Cardinality(A \cup B) = Cardinality(A) + Cardinality(B) - Cardinality(A \cap B)
  BY <1>1, <1>3, FS_Union
<1>6. Cardinality(A \cap B) = 0
  BY <1>4, FS_EmptySet
<1>7. Cardinality(A \cup B) = 2 ^ n + 2 ^ n
  BY <1>1, <1>3, <1>5, <1>6
<1>8. 2 ^ (n + 1) = Cardinality(A \cup B)
  BY <1>p, <1>4, Zenon
<1> HIDE DEF A, B
<1> QED BY <1>1, <1>7, <1>8

\* They are in the order of their exponents.
LEMMA PowerGrows ==
    ASSUME NEW m \in Nat, NEW n \in Nat, m <= n
    PROVE  2 ^ m <= 2 ^ n
<1>1. SUBSET (1 .. m) \subseteq SUBSET (1 .. n)
  OBVIOUS
<1>2. Cardinality(SUBSET (1 .. m)) <= Cardinality(SUBSET (1 .. n))
  BY <1>1, PowerNat, FS_Subset
<1> QED BY <1>2, PowerNat

\* Powers add up.
LEMMA PowerSum ==
    ASSUME NEW m \in Nat, NEW n \in Nat
    PROVE  2 ^ (m + n) = 2 ^ m * 2 ^ n
<1> DEFINE S == {k \in Nat : 2 ^ (m + k) = 2 ^ m * 2 ^ k}
<1>1. 0 \in S
  <2>1. 2 ^ 0 = 1 /\ m + 0 = m
    OBVIOUS
  <2>2. PICK p \in Nat : p = 2 ^ m
    BY PowerNat
  <2>3. 2 ^ (m + 0) = p
    BY <2>1, <2>2, Zenon
  <2> QED BY <2>1, <2>2, <2>3
<1>2. ASSUME NEW k \in S PROVE k + 1 \in S
  <2>1. k \in Nat /\ 2 ^ (m + k) = 2 ^ m * 2 ^ k
    BY <1>2
  <2>a. m + k \in Nat
    BY <2>1
  <2>p. PICK p \in Nat : p = 2 ^ m
    BY PowerNat
  <2>q. PICK q \in Nat : q = 2 ^ k
    BY <2>1, PowerNat
  <2>r. PICK r \in Nat : r = 2 ^ (m + k)
    BY <2>a, PowerNat
  <2>2. p = 2 ^ m /\ q = 2 ^ k /\ r = 2 ^ (m + k)
    BY <2>p, <2>q, <2>r
  <2>3. 2 ^ (k + 1) = 2 * q
    BY <2>1, <2>2, PowerNext
  <2>4. 2 ^ (m + k + 1) = 2 * r
    BY <2>2, <2>a, PowerNext
  <2>5. m + (k + 1) = m + k + 1
    BY <2>1
  <2>6. r = p * q
    BY <2>1, <2>2, Zenon
  <2>7. 2 * r = p * (2 * q)
    BY <2>6
  <2>8. 2 ^ (m + (k + 1)) = 2 ^ m * 2 ^ (k + 1)
    BY <2>2, <2>3, <2>4, <2>5, <2>7, Zenon
  <2> QED BY <2>1, <2>8
<1>3. n \in S
  <2>1. S \in SUBSET Nat /\ \A k \in S : k + 1 \in S
    BY <1>2
  <2> HIDE DEF S
  <2> QED BY <1>1, <2>1, Counting
<1> QED BY <1>3

-----------------------------------------------------------------------------
(* FdManager.                                                              *)

FdSteps == {"idle", "get", "create", "del", "close_f"}

FdTypes ==
    /\ socketOf \in [Fds -> Nat] /\ nonblock \in [Fds -> BOOLEAN] /\ opened \in Nat
    /\ fdStep \in [FdThreads -> [at : FdSteps, fd : Nat]]
    /\ \E n \in Nat : DOMAIN fdDatas = 0 .. n - 1
    /\ \A f \in DOMAIN fdDatas : fdDatas[f] \in Nat

\* One thread at a time opens or closes a number, which has a socket meanwhile.
FdCalls ==
    /\ \A t \in FdThreads :
         IF fdStep[t].at = "idle" THEN fdStep[t].fd = 0
         ELSE fdStep[t].fd \in Fds /\ socketOf[fdStep[t].fd] # Free
    /\ \A t, u \in FdThreads : t # u /\ fdStep[t].at # "idle" => fdStep[t].fd # fdStep[u].fd
    /\ \A t \in FdThreads :
         fdStep[t].at = "create" => CtxOf(fdStep[t].fd) = Free

\* An FdCtx that is not of the socket that has its number outlived its own.
FdMatches ==
    \A fd \in Fds :
        /\ socketOf[fd] <= opened /\ CtxOf(fd) <= opened
        /\ CtxOf(fd) = Free => fd \notin keptCtx
        /\ CtxOf(fd) # Free => (CtxOf(fd) = socketOf[fd] <=> fd \notin keptCtx)
        /\ CtxOf(fd) # Free /\ fd \notin keptCtx \cup madeBlocking => nonblock[fd]

FdInv == FdTypes /\ FdCalls /\ FdMatches

\* An empty table.
LEMMA InitFdInv == FdInit => FdInv
<1> SUFFICES ASSUME FdInit PROVE FdInv
  OBVIOUS
<1>1. FdTypes
  <2>1. DOMAIN fdDatas = 0 .. DatasSize - 1 /\ DatasSize \in Nat
    BY FdManagerConstants DEF FdInit
  <2> QED BY <2>1 DEF FdInit, FdTypes, FdSteps, IdleStep, Free
<1>2. FdCalls
  BY DEF FdInit, FdCalls, IdleStep
<1>3. \A fd \in Fds : CtxOf(fd) = Free
  BY DEF FdInit, CtxOf
<1>4. FdMatches
  BY <1>3 DEF FdInit, FdMatches, Free
<1> QED BY <1>1, <1>2, <1>4 DEF FdInv

\* Every step keeps the invariant.
LEMMA NextFdInv ==
    ASSUME FdInv, [FdNext]_fdVars
    PROVE  FdInv'
<1> USE DEF Free
<1>c. Fds \in SUBSET Nat /\ \A fd \in Fds : fd > 2
  BY FdManagerConstants
\* Who is in which call, and the numbers that are in use, after a step of one thread.
<1>g. ASSUME NEW t \in FdThreads, NEW at \in FdSteps, NEW fd \in Nat, Goes(t, at, fd)
      PROVE  /\ fdStep' \in [FdThreads -> [at : FdSteps, fd : Nat]]
             /\ fdStep'[t].at = at /\ fdStep'[t].fd = fd
             /\ \A u \in FdThreads : u # t => fdStep'[u] = fdStep[u]
  BY <1>g DEF Goes, FdInv, FdTypes
<1>l. ASSUME NEW t \in FdThreads, Leaves(t)
      PROVE  /\ fdStep' \in [FdThreads -> [at : FdSteps, fd : Nat]]
             /\ fdStep'[t].at = "idle" /\ fdStep'[t].fd = 0
             /\ \A u \in FdThreads : u # t => fdStep'[u] = fdStep[u]
  BY <1>l DEF Leaves, IdleStep, FdSteps, FdInv, FdTypes
<1>1. ASSUME NEW t \in FdThreads, Socket(t) \/ Accept(t) PROVE FdInv'
  <2>0. PICK fd \in Fds : NewSocket(t, fd) /\ (Goes(t, "get", fd) \/ UNCHANGED fdStep)
    BY <1>1 DEF Socket, Accept
  <2>1. /\ fdStep[t].at = "idle" /\ socketOf[fd] = Free
        /\ socketOf' = [socketOf EXCEPT ![fd] = opened + 1]
        /\ nonblock' = [nonblock EXCEPT ![fd] = FALSE]
        /\ madeBlocking' = madeBlocking \ {fd}
        /\ opened' = opened + 1
        /\ Goes(t, "get", fd) \/ UNCHANGED fdStep
        /\ UNCHANGED <<fdDatas, keptCtx>>
    BY <2>0 DEF NewSocket
  <2>2. fd \in Fds /\ socketOf[fd] = Free
    BY <2>1
  <2>3. fd \in Nat
    BY <1>c, <2>2
  <2>4. PICK n : n = fd
    OBVIOUS
  <2>5. \A f : CtxOf(f)' = CtxOf(f)
    BY <2>1 DEF CtxOf
  <2>6. opened \in Nat /\ opened + 1 > opened /\ opened + 1 \in Nat
    BY DEF FdInv, FdTypes
  <2>7. /\ fdStep' \in [FdThreads -> [at : FdSteps, fd : Nat]]
        /\ \A u \in FdThreads : u # t => fdStep'[u] = fdStep[u]
        /\ fdStep'[t] = fdStep[t] \/ (fdStep'[t].at = "get" /\ fdStep'[t].fd = n)
    <3>1. CASE Goes(t, "get", fd)
      BY <1>g, <2>3, <2>4, <3>1 DEF FdSteps
    <3>2. CASE UNCHANGED fdStep
      BY <3>2 DEF FdInv, FdTypes
    <3> QED BY <2>1, <3>1, <3>2
  <2>8. /\ n \in Fds /\ socketOf[n] = Free /\ socketOf'[n] = opened + 1
        /\ \A f \in Fds : f # n => socketOf'[f] = socketOf[f]
        /\ socketOf' \in [Fds -> Nat]
    BY <2>1, <2>2, <2>4, <2>6 DEF FdInv, FdTypes
  <2>9. FdTypes'
    BY <2>1, <2>6, <2>7, <2>8 DEF FdInv, FdTypes
  <2>10. FdCalls'
    BY <1>c, <2>1, <2>5, <2>6, <2>7, <2>8 DEF FdInv, FdCalls
  <2>11. FdMatches'
    <3>1. \A f \in Fds : f # n => nonblock'[f] = nonblock[f] /\ (f \in madeBlocking' <=> f \in madeBlocking)
      BY <2>1, <2>4 DEF FdInv, FdTypes
    <3>2. \A f \in Fds : CtxOf(f) \in Nat /\ socketOf[f] \in Nat
      BY DEF FdInv, FdTypes, CtxOf
    <3>3. CtxOf(n) # Free => n \in keptCtx /\ CtxOf(n) # opened + 1
      BY <2>6, <2>8, <3>2 DEF FdInv, FdMatches
    <3> QED BY <2>1, <2>5, <2>6, <2>8, <3>1, <3>2, <3>3 DEF FdInv, FdMatches
  <2> QED BY <2>9, <2>10, <2>11 DEF FdInv
\* The steps that leave the sockets and the table alone.
<1>2. ASSUME NEW t \in FdThreads, UNCHANGED <<socketOf, nonblock, fdDatas, opened, keptCtx, madeBlocking>>,
             \/ Leaves(t)
             \/ \E at \in FdSteps, fd \in Fds :
                  /\ Goes(t, at, fd) /\ at # "idle"
                  /\ socketOf[fd] # Free
                  /\ \A u \in FdThreads : u # t => fdStep[u].fd # fd
                  /\ at = "create" => CtxOf(fd) = Free
      PROVE  FdInv'
  <2>1. \A f : CtxOf(f)' = CtxOf(f)
    BY <1>2 DEF CtxOf
  <2>2. FdMatches'
    BY <1>2, <2>1 DEF FdInv, FdMatches
  <2>3. CASE Leaves(t)
    <3>1. /\ fdStep' \in [FdThreads -> [at : FdSteps, fd : Nat]]
          /\ fdStep'[t].at = "idle" /\ fdStep'[t].fd = 0
          /\ \A u \in FdThreads : u # t => fdStep'[u] = fdStep[u]
      BY <1>l, <2>3
    <3>2. FdTypes'
      BY <1>2, <3>1 DEF FdInv, FdTypes
    <3>3. FdCalls'
      BY <1>c, <1>2, <2>1, <3>1 DEF FdInv, FdCalls
    <3> QED BY <2>2, <3>2, <3>3 DEF FdInv
  <2>4. CASE ~ Leaves(t)
    <3>1. PICK at \in FdSteps, fd \in Fds :
             /\ Goes(t, at, fd) /\ at # "idle" /\ socketOf[fd] # Free
             /\ \A u \in FdThreads : u # t => fdStep[u].fd # fd
             /\ at = "create" => CtxOf(fd) = Free
      BY <1>2, <2>4
    <3>2. /\ fdStep' \in [FdThreads -> [at : FdSteps, fd : Nat]]
          /\ fdStep'[t].at = at /\ fdStep'[t].fd = fd
          /\ \A u \in FdThreads : u # t => fdStep'[u] = fdStep[u]
      BY <1>c, <1>g, <3>1
    <3>3. FdTypes'
      BY <1>2, <3>2 DEF FdInv, FdTypes
    <3>4. FdCalls'
      BY <1>2, <2>1, <3>1, <3>2 DEF FdInv, FdCalls
    <3> QED BY <2>2, <3>3, <3>4 DEF FdInv
  <2> QED BY <2>3, <2>4
<1>3. ASSUME NEW t \in FdThreads, GetLooks(t) PROVE FdInv'
  <2>1. /\ fdStep[t].at = "get" /\ fdStep[t].fd \in Fds /\ socketOf[fdStep[t].fd] # Free
        /\ UNCHANGED <<socketOf, nonblock, fdDatas, opened, keptCtx, madeBlocking>>
        /\ \A u \in FdThreads : u # t => fdStep[u].fd # fdStep[t].fd
    BY <1>3 DEF GetLooks, FdInv, FdCalls
  <2>2. Leaves(t) \/ (Goes(t, "create", fdStep[t].fd) /\ CtxOf(fdStep[t].fd) = Free)
    BY <1>3 DEF GetLooks, CtxOf
  <2>3. "create" \in FdSteps
    BY DEF FdSteps
  <2> QED BY <1>2, <2>1, <2>2, <2>3
<1>4. ASSUME NEW t \in FdThreads, GetCreates(t) PROVE FdInv'
  <2> DEFINE fd == fdStep[t].fd
             size == IF fd \in DOMAIN fdDatas THEN DOMAIN fdDatas ELSE 0 .. (fd * 3) \div 2 - 1
  <2>1. /\ fdStep[t].at = "create"
        /\ fdDatas' = [f \in size |-> IF f = fd THEN socketOf[fd]
                                      ELSE IF f \in DOMAIN fdDatas THEN fdDatas[f] ELSE Free]
        /\ nonblock' = [nonblock EXCEPT ![fd] = TRUE]
        /\ Leaves(t)
        /\ UNCHANGED <<socketOf, opened, keptCtx, madeBlocking>>
    BY <1>4 DEF GetCreates
  <2>2. PICK n : n = fd
    OBVIOUS
  <2>3. n \in Fds /\ n \in Nat /\ n > 2 /\ socketOf[n] # Free /\ CtxOf(n) = Free
    BY <1>c, <2>1, <2>2 DEF FdInv, FdCalls
  <2>4. PICK k \in Nat : DOMAIN fdDatas = 0 .. k - 1
    BY DEF FdInv, FdTypes
  <2>5. /\ n \in size /\ DOMAIN fdDatas \subseteq size
        /\ \E m \in Nat : size = 0 .. m - 1
    <3>1. CASE n \in DOMAIN fdDatas
      BY <2>2, <2>4, <3>1
    <3>2. CASE n \notin DOMAIN fdDatas
      <4>1. size = 0 .. (n * 3) \div 2 - 1 /\ k <= n
        BY <2>2, <2>3, <2>4, <3>2
      <4>2. (n * 3) \div 2 \in Nat /\ (n * 3) \div 2 - 1 >= n
        BY <2>3
      <4> HIDE DEF size
      <4>3. PICK m \in Nat : m = (n * 3) \div 2
        BY <4>2
      <4> QED BY <2>3, <2>4, <4>1, <4>2, <4>3
    <3> QED BY <3>1, <3>2
  <2> HIDE DEF size, fd
  <2>6. /\ CtxOf(n)' = socketOf[n]
        /\ \A f \in Fds : f # n => CtxOf(f)' = CtxOf(f)
    BY <2>1, <2>2, <2>5 DEF CtxOf
  <2>7. /\ fdStep' \in [FdThreads -> [at : FdSteps, fd : Nat]]
        /\ fdStep'[t].at = "idle" /\ fdStep'[t].fd = 0
        /\ \A u \in FdThreads : u # t => fdStep'[u] = fdStep[u]
    BY <1>l, <2>1
  <2>8. FdTypes'
    <3>1. DOMAIN fdDatas' = size /\ \A f \in DOMAIN fdDatas' : fdDatas'[f] \in Nat
      BY <2>1, <2>2, <2>3 DEF FdInv, FdTypes
    <3> QED BY <2>1, <2>5, <2>7, <3>1 DEF FdInv, FdTypes
  <2>9. FdCalls'
    <3>1. \A u \in FdThreads : u # t /\ fdStep[u].at # "idle" => fdStep[u].fd # n
      BY <2>1, <2>2 DEF FdInv, FdCalls, fd
    <3> QED BY <1>c, <2>1, <2>6, <2>7, <3>1 DEF FdInv, FdCalls
  <2>10. FdMatches'
    <3>1. nonblock'[n] /\ \A f \in Fds : f # n => nonblock'[f] = nonblock[f]
      BY <2>1, <2>2, <2>3 DEF FdInv, FdTypes
    <3>2. n \notin keptCtx
      BY <2>3 DEF FdInv, FdMatches
    <3> QED BY <2>1, <2>3, <2>6, <3>1, <3>2 DEF FdInv, FdMatches
  <2> QED BY <2>8, <2>9, <2>10 DEF FdInv
<1>5. ASSUME NEW t \in FdThreads, NEW fd \in Fds, Close(t, fd) PROVE FdInv'
  <2>1. /\ fdStep[t].at = "idle" /\ HasFd(fd)
        /\ Goes(t, "del", fd) \/ Goes(t, "close_f", fd)
        /\ UNCHANGED <<socketOf, nonblock, fdDatas, opened, keptCtx, madeBlocking>>
    BY <1>5 DEF Close
  <2>2. "del" \in FdSteps /\ "close_f" \in FdSteps
    BY DEF FdSteps
  <2> QED BY <1>2, <2>1, <2>2 DEF HasFd
<1>6. ASSUME NEW t \in FdThreads, Del(t) PROVE FdInv'
  <2> DEFINE fd == fdStep[t].fd
  <2>1. /\ fdStep[t].at = "del" /\ fdDatas' = [fdDatas EXCEPT ![fd] = Free]
        /\ keptCtx' = keptCtx \ {fd} /\ Goes(t, "close_f", fd)
        /\ UNCHANGED <<socketOf, nonblock, opened, madeBlocking>>
    BY <1>6 DEF Del
  <2>2. PICK n : n = fd
    OBVIOUS
  <2>3. n \in Fds /\ n \in Nat /\ socketOf[n] # Free /\ fdStep[t].fd = n
    BY <1>c, <2>1, <2>2 DEF FdInv, FdCalls
  <2> HIDE DEF fd
  <2>4. CtxOf(n)' = Free /\ \A f : f # n => CtxOf(f)' = CtxOf(f)
    BY <2>1, <2>2 DEF CtxOf
  <2>5. /\ fdStep' \in [FdThreads -> [at : FdSteps, fd : Nat]]
        /\ fdStep'[t].at = "close_f" /\ fdStep'[t].fd = n
        /\ \A u \in FdThreads : u # t => fdStep'[u] = fdStep[u]
    BY <1>g, <2>1, <2>2, <2>3 DEF FdSteps
  <2>6. FdTypes'
    BY <2>1, <2>5 DEF FdInv, FdTypes
  <2>7. FdCalls'
    <3>1. \A u \in FdThreads : u # t /\ fdStep[u].at # "idle" => fdStep[u].fd # n
      BY <2>1, <2>3 DEF FdInv, FdCalls
    <3>2. \A u \in FdThreads : u # t => fdStep[u].fd # n
      BY <1>c, <2>3, <3>1 DEF FdInv, FdCalls
    <3> QED BY <2>1, <2>3, <2>4, <2>5, <3>2 DEF FdInv, FdCalls
  <2>8. FdMatches'
    BY <2>1, <2>2, <2>4 DEF FdInv, FdMatches, FdTypes
  <2> QED BY <2>6, <2>7, <2>8 DEF FdInv
<1>7. ASSUME NEW t \in FdThreads, CloseF(t) PROVE FdInv'
  <2> DEFINE fd == fdStep[t].fd
  <2>1. /\ fdStep[t].at = "close_f" /\ socketOf' = [socketOf EXCEPT ![fd] = Free]
        /\ keptCtx' = IF CtxOf(fd) # Free THEN keptCtx \cup {fd} ELSE keptCtx
        /\ Leaves(t)
        /\ UNCHANGED <<nonblock, fdDatas, opened, madeBlocking>>
    BY <1>7 DEF CloseF
  <2>2. PICK n : n = fd
    OBVIOUS
  <2>3. n \in Fds /\ fdStep[t].fd = n
    BY <2>1, <2>2 DEF FdInv, FdCalls
  <2> HIDE DEF fd
  <2>4. \A f : CtxOf(f)' = CtxOf(f)
    BY <2>1 DEF CtxOf
  <2>5. /\ fdStep' \in [FdThreads -> [at : FdSteps, fd : Nat]]
        /\ fdStep'[t].at = "idle" /\ fdStep'[t].fd = 0
        /\ \A u \in FdThreads : u # t => fdStep'[u] = fdStep[u]
    BY <1>l, <2>1
  <2>6. /\ socketOf' \in [Fds -> Nat] /\ socketOf'[n] = Free
        /\ \A f \in Fds : f # n => socketOf'[f] = socketOf[f]
    BY <2>1, <2>2, <2>3 DEF FdInv, FdTypes
  <2>7. FdTypes'
    BY <2>1, <2>5, <2>6 DEF FdInv, FdTypes
  <2>8. FdCalls'
    <3>1. \A u \in FdThreads : u # t /\ fdStep[u].at # "idle" => fdStep[u].fd # n
      BY <2>1, <2>3 DEF FdInv, FdCalls
    <3> QED BY <1>c, <2>4, <2>5, <2>6, <3>1 DEF FdInv, FdCalls
  <2>9. FdMatches'
    BY <2>1, <2>2, <2>3, <2>4, <2>6 DEF FdInv, FdMatches, FdTypes
  <2> QED BY <2>7, <2>8, <2>9 DEF FdInv
<1>8. ASSUME NEW fd \in Fds, NEW flag \in BOOLEAN, FcntlSetFl(fd, flag) \/ IoctlFionbio(fd, flag)
      PROVE  FdInv'
  <2>1. /\ UNCHANGED <<socketOf, fdDatas, fdStep, opened, keptCtx>>
        /\ nonblock' \in [Fds -> BOOLEAN]
        /\ \A f \in Fds : f # fd => nonblock'[f] = nonblock[f]
                                    /\ (f \in madeBlocking' <=> f \in madeBlocking)
        /\ fd \in madeBlocking' \/ CtxOf(fd) = Free \/ nonblock'[fd]
    BY <1>8 DEF FcntlSetFl, IoctlFionbio, FdInv, FdTypes
  <2>2. \A f : CtxOf(f)' = CtxOf(f)
    BY <2>1 DEF CtxOf
  <2>3. FdTypes' /\ FdCalls'
    BY <2>1, <2>2 DEF FdInv, FdTypes, FdCalls
  <2>4. FdMatches'
    BY <2>1, <2>2 DEF FdInv, FdMatches
  <2> QED BY <2>3, <2>4 DEF FdInv
<1>9. ASSUME UNCHANGED fdVars PROVE FdInv'
  <2>1. \A f : CtxOf(f)' = CtxOf(f)
    BY <1>9 DEF CtxOf, fdVars
  <2> QED BY <1>9, <2>1 DEF FdInv, FdTypes, FdCalls, FdMatches, fdVars
<1> QED BY <1>1, <1>3, <1>4, <1>5, <1>6, <1>7, <1>8, <1>9 DEF FdNext

\* The FdCtx that get() returns (fd_manager.cc:124-142) is that of the socket that has the
\* number, however threads open and close numbers that are given out again, but for the
\* numbers that a thread without hooks has closed; and its socket does not block.
THEOREM CtxFitsHolds == FdSpec => []CtxFits
<1>1. FdInv => CtxFits
  BY DEF FdInv, FdMatches, CtxFits
<1>2. FdInv /\ [FdNext]_fdVars => FdInv'
  BY NextFdInv
<1> QED BY <1>1, <1>2, InitFdInv, PTL DEF FdSpec

-----------------------------------------------------------------------------
(* m_fdContexts.                                                           *)

\* A thread in addEvent() has the context of the table, unless that was lost, and it is
\* alone with its descriptor; so is an event that waits.
TableInv ==
    /\ DOMAIN inEpoll = TableFds
    /\ tableStep \in [TableThreads -> [at : {"idle", "resize", "add"}, fd : Nat, ctx : Int]]
    /\ \A t \in TableThreads :
         /\ tableStep[t].at = "idle" => tableStep[t].fd = 0
         /\ tableStep[t].at # "idle" => tableStep[t].fd \in TableFds \ waiting
         /\ tableStep[t].at = "add" /\ tableStep[t].fd \notin droppedFds =>
              Exists(tableStep[t].fd) /\ m_fdContexts[tableStep[t].fd] = tableStep[t].ctx
    /\ \A t, u \in TableThreads :
         t # u /\ tableStep[t].at # "idle" => tableStep[t].fd # tableStep[u].fd
    /\ waiting \subseteq TableFds
    /\ \A fd \in DOMAIN m_fdContexts : m_fdContexts[fd] \in Int
    /\ lastContext \in [TableFds -> Int]
    /\ ContextKept

\* No thread is in a call.
LEMMA InitTableInv == TableInit => TableInv
BY DEF TableInit, TableInv, OutOfCall, ContextKept

\* Every step keeps the invariant.
LEMMA NextTableInv ==
    ASSUME TableInv, [TableNext]_tableVars
    PROVE  TableInv'
<1>c. TableFds \in SUBSET Nat /\ \A fd \in TableFds : fd > 2
  BY FdContextsConstants
<1>1. ASSUME NEW t \in TableThreads, NEW fd \in TableFds, AddEventLooks(t, fd) PROVE TableInv'
  <2> DEFINE step == IF Exists(fd) THEN [at |-> "add", fd |-> fd, ctx |-> m_fdContexts[fd]]
                                   ELSE [at |-> "resize", fd |-> fd, ctx |-> 0]
  <2>1. /\ fd \notin waiting /\ \A u \in TableThreads : tableStep[u].fd # fd
        /\ tableStep' = [tableStep EXCEPT ![t] = step]
        /\ UNCHANGED <<m_fdContexts, lastContext, inEpoll, waiting, droppedFds>>
    BY <1>1 DEF AddEventLooks
  <2>2. /\ step \in [at : {"idle", "resize", "add"}, fd : Nat, ctx : Int]
        /\ step.fd = fd /\ step.at # "idle"
        /\ step.at = "add" => Exists(fd) /\ m_fdContexts[fd] = step.ctx
    BY <1>c DEF TableInv, Exists
  <2> HIDE DEF step
  <2>3. \A u \in TableThreads : tableStep'[u] = IF u = t THEN step ELSE tableStep[u]
    BY <2>1 DEF TableInv
  <2>4. tableStep' \in [TableThreads -> [at : {"idle", "resize", "add"}, fd : Nat, ctx : Int]]
    BY <2>1, <2>2 DEF TableInv
  <2>5. \A f : Exists(f)' <=> Exists(f)
    BY <2>1 DEF Exists
  <2>6. ContextKept'
    BY <2>1, <2>5 DEF TableInv, ContextKept
  <2> QED BY <2>1, <2>2, <2>3, <2>4, <2>5, <2>6 DEF TableInv
<1>2. ASSUME NEW t \in TableThreads, AddEventResizes(t) PROVE TableInv'
  <2> DEFINE fd == tableStep[t].fd
             size == (fd * 3) \div 2
  <2>1. /\ tableStep[t].at = "resize" /\ ContextResize(size)
        /\ tableStep' = [tableStep EXCEPT ![t] = [at |-> "add", fd |-> fd, ctx |-> m_fdContexts'[fd]]]
        /\ UNCHANGED <<inEpoll, waiting>>
    BY <1>2 DEF AddEventResizes
  <2>2. fd \in TableFds \ waiting /\ fd \in Nat /\ fd > 2
    BY <1>c, <2>1 DEF TableInv
  <2>3. fd \in 0 .. size - 1
    BY <2>2
  <2>4. PICK n, k : n = fd /\ k = size
    OBVIOUS
  <2>5. /\ n \in TableFds \ waiting /\ n \in Nat /\ n \in 0 .. k - 1 /\ tableStep[t].fd = n
        /\ ContextResize(k)
        /\ tableStep' = [tableStep EXCEPT ![t] = [at |-> "add", fd |-> n, ctx |-> m_fdContexts'[n]]]
    BY <2>1, <2>2, <2>3, <2>4
  <2> HIDE DEF fd, size
  <2>6. /\ DOMAIN m_fdContexts' = 0 .. k - 1
        /\ \A f \in 0 .. k - 1 : /\ Exists(f) => m_fdContexts'[f] = m_fdContexts[f]
                                 /\ m_fdContexts'[f] \in Int
    BY <2>5 DEF ContextResize, TableInv, Exists
  <2>7. lastContext' \in [TableFds -> Int] /\ \A f \in TableFds : lastContext'[f] \in Int
    BY <2>5 DEF ContextResize, TableInv
  <2>8. droppedFds' = droppedFds \cup (DOMAIN m_fdContexts \ (0 .. k - 1))
    BY <2>5 DEF ContextResize
  <2>9. \A f : f \notin droppedFds' /\ Exists(f) => /\ f \notin droppedFds /\ Exists(f)'
                                                    /\ m_fdContexts'[f] = m_fdContexts[f]
    BY <2>6, <2>8 DEF Exists
  <2>10. /\ tableStep' \in [TableThreads -> [at : {"idle", "resize", "add"}, fd : Nat, ctx : Int]]
         /\ tableStep'[t].at = "add" /\ tableStep'[t].fd = n /\ tableStep'[t].ctx = m_fdContexts'[n]
         /\ \A u \in TableThreads : u # t => tableStep'[u] = tableStep[u]
    BY <2>5, <2>6 DEF TableInv
  <2>11. Exists(n)'
    BY <2>5, <2>6 DEF Exists
  <2>12. \A f : f \in droppedFds => f \in droppedFds'
    BY <2>8
  <2>13. ContextKept'
    BY <2>1, <2>9, <2>12 DEF TableInv, ContextKept
  <2>14. ASSUME NEW u \in TableThreads
         PROVE  /\ tableStep'[u].at = "idle" => tableStep'[u].fd = 0
                /\ tableStep'[u].at # "idle" => tableStep'[u].fd \in TableFds \ waiting'
                /\ tableStep'[u].at = "add" /\ tableStep'[u].fd \notin droppedFds' =>
                     Exists(tableStep[u].fd)' /\ m_fdContexts'[tableStep'[u].fd] = tableStep'[u].ctx
    <3>1. CASE u = t
      BY <2>1, <2>5, <2>6, <2>10, <3>1 DEF Exists
    <3>2. CASE u # t
      BY <2>1, <2>9, <2>10, <2>12, <3>2 DEF TableInv, Exists
    <3> QED BY <3>1, <3>2
  <2>15. \A u, v \in TableThreads :
            u # v /\ tableStep'[u].at # "idle" => tableStep'[u].fd # tableStep'[v].fd
    BY <2>1, <2>5, <2>10 DEF TableInv
  <2> QED BY <2>1, <2>6, <2>7, <2>10, <2>13, <2>14, <2>15 DEF TableInv
<1>3. ASSUME NEW t \in TableThreads, AddEventAdds(t) PROVE TableInv'
  <2> DEFINE fd == tableStep[t].fd
  <2>1. /\ tableStep[t].at = "add"
        /\ inEpoll' = [inEpoll EXCEPT ![fd] = tableStep[t].ctx]
        /\ waiting' = waiting \cup {fd}
        /\ tableStep' = [tableStep EXCEPT ![t] = OutOfCall]
        /\ UNCHANGED <<m_fdContexts, lastContext, droppedFds>>
    BY <1>3 DEF AddEventAdds
  <2>2. PICK n : n = fd
    OBVIOUS
  <2>3. n \in TableFds /\ tableStep[t].fd = n
    BY <2>1, <2>2 DEF TableInv
  <2> HIDE DEF fd
  <2>4. \A u \in TableThreads : tableStep'[u] = IF u = t THEN OutOfCall ELSE tableStep[u]
    BY <2>1 DEF TableInv
  <2>5. tableStep' \in [TableThreads -> [at : {"idle", "resize", "add"}, fd : Nat, ctx : Int]]
    BY <2>1 DEF TableInv, OutOfCall
  <2>6. OutOfCall.at = "idle" /\ OutOfCall.fd = 0
    BY DEF OutOfCall
  <2>7. \A f : Exists(f)' <=> Exists(f)
    BY <2>1 DEF Exists
  <2>8. ContextKept'
    BY <2>1, <2>2, <2>3, <2>7 DEF TableInv, ContextKept
  <2>9. \A u \in TableThreads : u # t /\ tableStep[u].at # "idle" => tableStep[u].fd # n
    BY <2>1, <2>3 DEF TableInv
  <2>10. DOMAIN inEpoll' = TableFds /\ waiting' \subseteq TableFds
    BY <2>1, <2>2, <2>3 DEF TableInv
  <2> QED BY <1>c, <2>1, <2>2, <2>4, <2>5, <2>6, <2>7, <2>8, <2>9, <2>10 DEF TableInv
<1>4. ASSUME NEW fd \in TableFds, CancelEvent(fd) \/ EventFires(fd) PROVE TableInv'
  <2>1. /\ inEpoll' = [inEpoll EXCEPT ![fd] = 0] /\ waiting' = waiting \ {fd}
        /\ UNCHANGED <<m_fdContexts, lastContext, tableStep, droppedFds>>
    BY <1>4 DEF CancelEvent, EventFires, Taken
  <2>2. \A f : Exists(f)' <=> Exists(f)
    BY <2>1 DEF Exists
  <2>3. ContextKept'
    BY <2>1, <2>2 DEF TableInv, ContextKept
  <2> QED BY <2>1, <2>2, <2>3 DEF TableInv
<1>5. ASSUME UNCHANGED tableVars PROVE TableInv'
  <2>1. \A f : Exists(f)' <=> Exists(f)
    BY <1>5 DEF Exists, tableVars
  <2> QED BY <1>5, <2>1 DEF TableInv, ContextKept, tableVars
<1> QED BY <1>1, <1>2, <1>3, <1>4, <1>5 DEF TableNext

\* The context in which an event waits stays the one in the table while addEvent() makes
\* the table larger (iomanager.cc:118-132), unless the table was made smaller.
THEOREM ContextKeptHolds == TableSpec => []ContextKept
<1>1. TableInv => ContextKept
  BY DEF TableInv
<1>2. TableInv /\ [TableNext]_tableVars => TableInv'
  BY NextTableInv
<1> QED BY <1>1, <1>2, InitTableInv, PTL DEF TableSpec

-----------------------------------------------------------------------------
(* The encodings of ByteArray make bytes, and a number of them.            *)

Cell == Byte \cup {Garbage}

\* The sizes of a byte and of an integer.
LEMMA ByteIsInt ==
    /\ 2 ^ Bits \in Nat \ {0} /\ 2 ^ (Bits + 1) = 2 * 2 ^ Bits
    /\ 2 ^ Width \in Nat \ {0}
    /\ \A b \in Byte : b \in Nat
<1>1. Bits \in Nat /\ Width \in Nat
  BY ByteArrayConstants
<1>2. 2 ^ Bits \in Nat \ {0} /\ 2 ^ Width \in Nat \ {0} /\ 2 ^ (Bits + 1) = 2 * 2 ^ Bits
  BY <1>1, PowerNat, PowerNext
<1>3. \A b \in Byte : b \in Nat
  BY <1>1 DEF Byte
<1> QED BY <1>2, <1>3

\* Enough groups of Bits bits hold every integer.
LEMMA VarintType ==
    ASSUME NEW u \in UInt
    PROVE  Varint(u) \in Seq(Byte)
<1> DEFINE K == {k \in 1 .. Width : u < 2 ^ (Bits * k)}
           groups == Min(K)
           Group(k) == (u \div 2 ^ (Bits * (k - 1))) % 2 ^ Bits
<1>c. Bits \in Nat \ {0} /\ Width \in Nat \ {0}
  BY ByteArrayConstants
<1>1. u \in Nat /\ u < 2 ^ Width
  BY ByteIsInt DEF UInt
<1>2. Width \in K
  <2>1. Bits * Width \in Nat /\ Width <= Bits * Width
    BY <1>c
  <2>2. 2 ^ Width <= 2 ^ (Bits * Width)
    BY <1>c, <2>1, PowerGrows
  <2>3. 2 ^ Width \in Nat /\ 2 ^ (Bits * Width) \in Nat
    BY <1>c, <2>1, PowerNat
  <2> QED BY <1>1, <1>c, <2>2, <2>3
<1>3. groups \in 1 .. Width
  <2>1. K \in SUBSET Nat /\ K # {} /\ K \subseteq 1 .. Width
    BY <1>2
  <2> HIDE DEF K
  <2> QED BY <2>1, LowestFree
<1>4. ASSUME NEW k \in 1 .. groups PROVE Group(k) + (IF k < groups THEN 2 ^ Bits ELSE 0) \in Byte
  <2>1. Bits * (k - 1) \in Nat
    BY <1>c, <1>3
  <2>2. PICK p \in Nat \ {0} : p = 2 ^ (Bits * (k - 1))
    BY <2>1, PowerNat
  <2>3. PICK q \in Nat \ {0} : q = 2 ^ Bits
    BY ByteIsInt
  <2>4. u \div p \in Nat
    BY <1>1
  <2>5. (u \div p) % q \in 0 .. q - 1
    BY <2>4
  <2>6. Group(k) \in 0 .. q - 1
    BY <2>2, <2>3, <2>5
  <2>7. Byte = 0 .. (2 * q - 1)
    BY <2>3, ByteIsInt DEF Byte
  <2> HIDE DEF Group, groups
  <2> QED BY <2>3, <2>6, <2>7
<1>5. Varint(u) = [k \in 1 .. groups |-> Group(k) + IF k < groups THEN 2 ^ Bits ELSE 0]
  BY DEF Varint
<1> HIDE DEF groups, Group
<1>6. Varint(u) \in [1 .. groups -> Byte] /\ groups \in Nat
  BY <1>3, <1>4, <1>5
<1> QED BY <1>6, SeqDef

\* The two bytes of an integer of fixed width, in either order.
LEMMA FixedType ==
    ASSUME NEW u \in Word, NEW little \in BOOLEAN
    PROVE  Fixed(u, little) \in Seq(Byte)
<1> DEFINE low == u % 2 ^ (Bits + 1)
           high == u \div 2 ^ (Bits + 1)
<1>c. Bits \in Nat \ {0}
  BY ByteArrayConstants
<1>1. PICK q \in Nat \ {0} : q = 2 ^ (Bits + 1)
  <2>1. Bits + 1 \in Nat
    BY <1>c
  <2> QED BY <2>1, PowerNat
<1>2. u \in Nat /\ u < q * q
  <2>1. 2 ^ (2 * (Bits + 1)) = q * q
    <3>1. 2 * (Bits + 1) = (Bits + 1) + (Bits + 1) /\ Bits + 1 \in Nat
      BY <1>c
    <3>2. 2 ^ ((Bits + 1) + (Bits + 1)) = 2 ^ (Bits + 1) * 2 ^ (Bits + 1)
      BY <3>1, PowerSum
    <3> QED BY <1>1, <3>1, <3>2, Zenon
  <2> QED BY <1>1, <2>1 DEF Word
<1>3. u % q \in 0 .. q - 1 /\ u \div q \in 0 .. q - 1
  BY <1>2
<1>4. low \in Byte /\ high \in Byte
  BY <1>1, <1>3 DEF Byte
<1>5. \A s \in Seq(Byte) : Reverse(s) \in Seq(Byte)
  <2>1. ASSUME NEW s \in Seq(Byte) PROVE Reverse(s) \in Seq(Byte)
    <3>1. Len(s) \in Nat /\ \A i \in 1 .. Len(s) : s[i] \in Byte
      BY LenProperties
    <3>2. Reverse(s) \in [1 .. Len(s) -> Byte]
      BY <3>1 DEF Reverse
    <3> QED BY <3>1, <3>2, SeqDef
  <2> QED BY <2>1
<1>6. <<low, high>> \in Seq(Byte) /\ <<high, low>> \in Seq(Byte)
  BY <1>4
<1> HIDE DEF low, high
<1>7. Fixed(u, little) = LET inHostOrder == IF LittleHost THEN <<low, high>> ELSE <<high, low>>
                         IN  IF little = LittleHost THEN inHostOrder ELSE Reverse(inHostOrder)
  BY DEF Fixed, low, high
<1> QED BY <1>5, <1>6, <1>7

\* Zigzag maps the signed integers into the unsigned ones.
LEMMA EncodeZigzagType ==
    ASSUME NEW v \in SInt
    PROVE  EncodeZigzag(v) \in UInt
<1>1. PICK p \in Nat \ {0} : p = 2 ^ Width
  BY ByteIsInt
<1>2. v \in Int
  <2>1. Width - 1 \in Nat
    BY ByteArrayConstants
  <2>2. 2 ^ (Width - 1) \in Nat
    BY <2>1, PowerNat
  <2> QED BY <2>2 DEF SInt
<1>3. PICK e \in Nat : e = IF v < 0 THEN -v * 2 - 1 ELSE v * 2
  BY <1>2
<1>4. e % p \in 0 .. p - 1
  BY <1>1, <1>3
<1> QED BY <1>1, <1>3, <1>4 DEF EncodeZigzag, UInt

\* A varint has a byte at least.
LEMMA VarintLengthType ==
    ASSUME NEW bytes
    PROVE  VarintLength(bytes) \in Nat \ {0}
<1> DEFINE most == (Width + Bits - 1) \div Bits
           Ends(k) == k = most \/ k > Len(bytes) \/ bytes[k] < 2 ^ Bits
           E == {k \in 1 .. most : Ends(k)}
<1>1. most \in Nat \ {0}
  BY ByteArrayConstants
<1>2. most \in E
  BY <1>1
<1>3. E \in SUBSET Nat /\ E # {}
  BY <1>1, <1>2
<1>4. \E k \in 1 .. most : Ends(k) /\ \A j \in 1 .. k - 1 : ~ Ends(j)
  <2>1. PICK k \in E : \A y \in E : k <= y
    <3> HIDE DEF E
    <3> QED BY <1>3, LowestFree
  <2>2. k \in 1 .. most /\ Ends(k)
    BY <2>1
  <2>3. ASSUME NEW j \in 1 .. k - 1, Ends(j) PROVE FALSE
    <3>1. j \in E
      BY <1>1, <2>2, <2>3
    <3>2. k <= j
      BY <2>1, <3>1
    <3> QED BY <1>1, <2>2, <3>2
  <2> QED BY <2>2, <2>3
<1>5. VarintLength(bytes) = CHOOSE k \in 1 .. most : Ends(k) /\ \A j \in 1 .. k - 1 : ~ Ends(j)
  BY DEF VarintLength
<1> HIDE DEF Ends
<1>6. VarintLength(bytes) \in 1 .. most
  BY <1>4, <1>5
<1> QED BY <1>1, <1>6

\* Sums of the first so many of n numbers.
LEMMA PrefixSums ==
    ASSUME NEW n \in Nat, NEW c \in [1 .. n -> Nat]
    PROVE  \E f \in [0 .. n -> Nat] :
              f = [k \in 0 .. n |-> IF k = 0 THEN 0 ELSE f[k - 1] + c[k]]
<1> DEFINE Sums(m, f) == \A k \in 0 .. m : f[k] = IF k = 0 THEN 0 ELSE f[k - 1] + c[k]
           S == {m \in Nat : m <= n => \E f \in [0 .. m -> Nat] : Sums(m, f)}
<1>1. 0 \in S
  <2>1. [k \in 0 .. 0 |-> 0] \in [0 .. 0 -> Nat] /\ Sums(0, [k \in 0 .. 0 |-> 0])
    OBVIOUS
  <2> QED BY <2>1
<1>2. ASSUME NEW m \in S PROVE m + 1 \in S
  <2>1. m \in Nat
    BY <1>2
  <2>2. CASE m + 1 <= n
    <3>1. \E f \in [0 .. m -> Nat] : Sums(m, f)
      <4> HIDE DEF Sums
      <4> QED BY <1>2, <2>1, <2>2
    <3>2. PICK f \in [0 .. m -> Nat] : Sums(m, f)
      BY <3>1
    <3> DEFINE g == [k \in 0 .. m + 1 |-> IF k = m + 1 THEN f[m] + c[m + 1] ELSE f[k]]
    <3>3. f[m] \in Nat /\ c[m + 1] \in Nat
      BY <2>1, <2>2
    <3>4. g \in [0 .. m + 1 -> Nat]
      BY <2>1, <3>3
    <3>5. Sums(m + 1, g)
      <4> SUFFICES ASSUME NEW k \in 0 .. m + 1
                   PROVE  g[k] = IF k = 0 THEN 0 ELSE g[k - 1] + c[k]
        OBVIOUS
      <4>1. CASE k = m + 1
        <5>1. k # 0 /\ k - 1 \in 0 .. m + 1 /\ k - 1 = m /\ m # m + 1
          BY <2>1, <4>1
        <5>2. g[k] = f[m] + c[m + 1] /\ g[k - 1] = f[m]
          BY <4>1, <5>1
        <5> QED BY <4>1, <5>1, <5>2
      <4>2. CASE k # m + 1
        <5>1. k \in 0 .. m /\ g[k] = f[k]
          BY <2>1, <4>2
        <5>2. k # 0 => g[k - 1] = f[k - 1]
          BY <2>1, <4>2
        <5>3. f[k] = IF k = 0 THEN 0 ELSE f[k - 1] + c[k]
          BY <3>2, <5>1
        <5> HIDE DEF g
        <5> QED BY <5>1, <5>2, <5>3
      <4> QED BY <4>1, <4>2
    <3>6. \E h \in [0 .. m + 1 -> Nat] : Sums(m + 1, h)
      <4> HIDE DEF Sums, g
      <4> QED BY <3>4, <3>5
    <3>7. m + 1 \in Nat
      BY <2>1
    <3> HIDE DEF Sums
    <3> QED BY <3>6, <3>7, Zenon
  <2>3. CASE ~ (m + 1 <= n)
    BY <2>1, <2>3
  <2> QED BY <2>2, <2>3
<1>3. n \in S
  <2>1. S \in SUBSET Nat /\ \A m \in S : m + 1 \in S
    <3>1. S \in SUBSET Nat
      <4> HIDE DEF Sums
      <4> QED OBVIOUS
    <3> HIDE DEF S
    <3> QED BY <1>2, <3>1
  <2> HIDE DEF S
  <2> QED BY <1>1, <2>1, Counting
<1>4. \E f \in [0 .. n -> Nat] : Sums(n, f)
  <2> HIDE DEF Sums
  <2> QED BY <1>3
<1>5. PICK f \in [0 .. n -> Nat] : Sums(n, f)
  <2> HIDE DEF Sums
  <2> QED BY <1>4
<1>6. f = [k \in 0 .. n |-> IF k = 0 THEN 0 ELSE f[k - 1] + c[k]]
  <2>1. f = [k \in 0 .. n |-> f[k]]
    OBVIOUS
  <2> QED BY <1>5, <2>1
<1> QED BY <1>6

\* What the k-th byte of a varint adds to the value.
VarintTerm(bytes, k) == (bytes[k] % 2 ^ Bits) * 2 ^ (Bits * (k - 1))

\* f[k] is the value of the first k bytes.
VarintSum(bytes, f) ==
    /\ f[0] = 0
    /\ \A k \in 1 .. Len(bytes) : f[k] = f[k - 1] + VarintTerm(bytes, k)

\* A group counts for a number.
LEMMA VarintTermType ==
    ASSUME NEW bytes \in Seq(Byte), NEW k \in 1 .. Len(bytes)
    PROVE  VarintTerm(bytes, k) \in Nat
<1>c. Bits \in Nat \ {0}
  BY ByteArrayConstants
<1>1. bytes[k] \in Byte /\ k \in Nat \ {0}
  BY LenProperties
<1>2. Bits * (k - 1) \in Nat
  BY <1>1, <1>c
<1>3. PICK p \in Nat : p = 2 ^ (Bits * (k - 1))
  BY <1>2, PowerNat
<1>4. PICK q \in Nat \ {0} : q = 2 ^ Bits
  BY ByteIsInt
<1>5. bytes[k] \in Nat
  BY <1>1, ByteIsInt
<1>6. bytes[k] % q \in Nat
  BY <1>5
<1>7. (bytes[k] % q) * p \in Nat
  BY <1>6
<1> QED BY <1>3, <1>4, <1>7 DEF VarintTerm

\* The value of a varint is a sum.
LEMMA VarintSums ==
    ASSUME NEW bytes \in Seq(Byte)
    PROVE  \E f : VarintSum(bytes, f) /\ VarintValue(bytes) = f[Len(bytes)] % 2 ^ Width
<1> DEFINE n == Len(bytes)
           Term(k) == (bytes[k] % 2 ^ Bits) * 2 ^ (Bits * (k - 1))
           c == [k \in 1 .. n |-> Term(k)]
           Sum == CHOOSE f : f = [k \in 0 .. n |-> IF k = 0 THEN 0 ELSE f[k - 1] + Term(k)]
<1>1. n \in Nat
  BY LenProperties
<1>2. \A k \in 1 .. n : Term(k) \in Nat
  BY VarintTermType DEF VarintTerm
<1>v. VarintValue(bytes) = Sum[n] % 2 ^ Width
  BY Zenon DEF VarintValue
<1>t. \A k : Term(k) = VarintTerm(bytes, k)
  BY Zenon DEF VarintTerm
<1> HIDE DEF n, Term
<1>3. c \in [1 .. n -> Nat]
  BY <1>1, <1>2
<1>4. \E f \in [0 .. n -> Nat] : f = [k \in 0 .. n |-> IF k = 0 THEN 0 ELSE f[k - 1] + Term(k)]
  <2>1. PICK f \in [0 .. n -> Nat] : f = [k \in 0 .. n |-> IF k = 0 THEN 0 ELSE f[k - 1] + c[k]]
    <3> HIDE DEF c
    <3> QED BY <1>1, <1>3, PrefixSums
  <2>2. \A k \in 0 .. n : k # 0 => c[k] = Term(k)
    BY <1>1
  <2> HIDE DEF c
  <2>3. f = [k \in 0 .. n |-> IF k = 0 THEN 0 ELSE f[k - 1] + Term(k)]
    BY <2>1, <2>2, Zenon
  <2> QED BY <2>3
<1>5. Sum = [k \in 0 .. n |-> IF k = 0 THEN 0 ELSE Sum[k - 1] + Term(k)]
  BY <1>4, Zenon
<1>6. \A k \in 0 .. n : Sum[k] = IF k = 0 THEN 0 ELSE Sum[k - 1] + Term(k)
  BY <1>5, Zenon
<1> HIDE DEF Sum
<1>7. Sum[0] = 0 /\ \A k \in 1 .. n : Sum[k] = Sum[k - 1] + Term(k)
  BY <1>1, <1>6
<1>8. VarintSum(bytes, Sum)
  BY <1>7, <1>t DEF VarintSum, n
<1> QED BY <1>8, <1>v DEF n

\* The value of a varint is a number.
LEMMA VarintValueType ==
    ASSUME NEW bytes \in Seq(Byte)
    PROVE  VarintValue(bytes) \in Nat
<1>1. PICK n \in Nat : n = Len(bytes)
  BY LenProperties
<1>2. PICK f : VarintSum(bytes, f) /\ VarintValue(bytes) = f[Len(bytes)] % 2 ^ Width
  BY VarintSums
<1>3. f[n] \in Nat
  <2> DEFINE S == {k \in Nat : k <= n => f[k] \in Nat}
  <2>1. 0 \in S
    BY <1>2 DEF VarintSum
  <2>2. ASSUME NEW k \in S PROVE k + 1 \in S
    <3>1. CASE k + 1 <= n
      <4>1. f[k] \in Nat /\ VarintTerm(bytes, k + 1) \in Nat
        BY <1>1, <3>1, VarintTermType
      <4>2. f[k + 1] = f[k] + VarintTerm(bytes, k + 1)
        BY <1>1, <1>2, <3>1 DEF VarintSum
      <4> QED BY <4>1, <4>2
    <3>2. CASE ~ (k + 1 <= n)
      BY <3>2
    <3> QED BY <3>1, <3>2
  <2>3. S \in SUBSET Nat
    OBVIOUS
  <2> HIDE DEF S
  <2>4. S = Nat
    BY <2>1, <2>2, <2>3, Counting
  <2> QED BY <2>4 DEF S
<1>4. PICK w \in Nat \ {0} : w = 2 ^ Width
  BY ByteIsInt
<1>5. f[n] % w \in Nat
  BY <1>3
<1> QED BY <1>1, <1>2, <1>4, <1>5

-----------------------------------------------------------------------------
(* Parts of sequences.                                                     *)

\* The elements of s behind the a-th up to the b-th.
LEMMA PartOfSeq ==
    ASSUME NEW D, NEW s \in Seq(D), NEW a \in Nat, NEW b \in Nat, a <= b, b <= Len(s)
    PROVE  /\ SubSeq(s, a + 1, b) \in Seq(D)
           /\ Len(SubSeq(s, a + 1, b)) = b - a
           /\ \A i \in 1 .. b - a : SubSeq(s, a + 1, b)[i] = s[a + i]
<1>1. \A i \in a + 1 .. b : s[i] \in D
  BY LenProperties
<1>2. a + 1 \in Int /\ b \in Int
  OBVIOUS
<1>3. /\ SubSeq(s, a + 1, b) \in Seq(D)
      /\ Len(SubSeq(s, a + 1, b)) = IF a + 1 <= b THEN b - (a + 1) + 1 ELSE 0
      /\ \A i \in 1 .. b - (a + 1) + 1 : SubSeq(s, a + 1, b)[i] = s[a + 1 + i - 1]
  BY <1>1, <1>2, SubSeqProperties
<1>4. \A i \in 1 .. b - a : SubSeq(s, a + 1, b)[i] = s[a + i]
  <2> SUFFICES ASSUME NEW i \in 1 .. b - a PROVE SubSeq(s, a + 1, b)[i] = s[a + i]
    OBVIOUS
  <2>1. i \in 1 .. b - (a + 1) + 1 /\ a + 1 + i - 1 = a + i
    OBVIOUS
  <2> QED BY <1>3, <2>1
<1> QED BY <1>3, <1>4

\* The first b elements of s.
LEMMA StartOfSeq ==
    ASSUME NEW D, NEW s \in Seq(D), NEW b \in Nat, b <= Len(s)
    PROVE  /\ SubSeq(s, 1, b) \in Seq(D)
           /\ Len(SubSeq(s, 1, b)) = b
           /\ \A i \in 1 .. b : SubSeq(s, 1, b)[i] = s[i]
<1>1. 0 + 1 = 1 /\ b - 0 = b /\ \A i \in 1 .. b : 0 + i = i
  OBVIOUS
<1>2. /\ SubSeq(s, 0 + 1, b) \in Seq(D)
      /\ Len(SubSeq(s, 0 + 1, b)) = b - 0
      /\ \A i \in 1 .. b - 0 : SubSeq(s, 0 + 1, b)[i] = s[0 + i]
  BY PartOfSeq
<1> QED BY <1>1, <1>2, Zenon

\* A part of the start of a sequence is a part of the sequence.
LEMMA PartOfStart ==
    ASSUME NEW D, NEW s \in Seq(D), NEW a \in Nat, NEW b \in Nat, NEW m \in Nat,
           a <= b, b <= m, m <= Len(s)
    PROVE  SubSeq(SubSeq(s, 1, m), a + 1, b) = SubSeq(s, a + 1, b)
<1> DEFINE t == SubSeq(s, 1, m)
           p == SubSeq(t, a + 1, b)
           q == SubSeq(s, a + 1, b)
<1>1. t \in Seq(D) /\ Len(t) = m /\ \A i \in 1 .. m : t[i] = s[i]
  BY StartOfSeq
<1> HIDE DEF t
<1>2. p \in Seq(D) /\ Len(p) = b - a /\ \A i \in 1 .. b - a : p[i] = t[a + i]
  BY <1>1, PartOfSeq
<1>3. q \in Seq(D) /\ Len(q) = b - a /\ \A i \in 1 .. b - a : q[i] = s[a + i]
  <2>1. b <= Len(s)
    BY LenProperties
  <2> QED BY <2>1, PartOfSeq
<1> HIDE DEF p, q
<1>4. \A i \in 1 .. b - a : p[i] = q[i]
  BY <1>1, <1>2, <1>3
<1>5. p = q
  BY <1>2, <1>3, <1>4, SeqEqual
<1> QED BY <1>5 DEF p, q, t

\* The start of a part.
LEMMA StartOfPart ==
    ASSUME NEW D, NEW s \in Seq(D), NEW a \in Nat, NEW b \in Nat, NEW n \in Nat,
           a + n <= b, b <= Len(s)
    PROVE  SubSeq(SubSeq(s, a + 1, b), 1, n) = SubSeq(s, a + 1, a + n)
<1> DEFINE t == SubSeq(s, a + 1, b)
           p == SubSeq(t, 1, n)
           q == SubSeq(s, a + 1, a + n)
<1>1. t \in Seq(D) /\ Len(t) = b - a /\ \A i \in 1 .. b - a : t[i] = s[a + i]
  BY PartOfSeq
<1> HIDE DEF t
<1>2. p \in Seq(D) /\ Len(p) = n /\ \A i \in 1 .. n : p[i] = t[i]
  <2>1. n <= Len(t)
    BY <1>1
  <2> QED BY <1>1, <2>1, StartOfSeq
<1>3. q \in Seq(D) /\ Len(q) = n /\ \A i \in 1 .. n : q[i] = s[a + i]
  <2>1. a + n \in Nat /\ a <= a + n /\ a + n <= Len(s) /\ (a + n) - a = n
    BY LenProperties
  <2>2. q \in Seq(D) /\ Len(q) = (a + n) - a /\ \A i \in 1 .. (a + n) - a : q[i] = s[a + i]
    BY <2>1, PartOfSeq
  <2> QED BY <2>1, <2>2, Zenon
<1> HIDE DEF p, q
<1>4. ASSUME NEW i \in 1 .. n PROVE p[i] = q[i]
  <2>1. i \in 1 .. b - a
    BY <1>1
  <2>2. p[i] = t[i] /\ t[i] = s[a + i] /\ q[i] = s[a + i]
    BY <1>1, <1>2, <1>3, <2>1, Zenon
  <2> QED BY <2>2
<1>5. p = q
  BY <1>2, <1>3, <1>4, SeqEqual
<1> QED BY <1>5 DEF p, q, t

\* Bytes put into the memory leave its length.
LEMMA OverwriteType ==
    ASSUME NEW D, NEW mem \in Seq(D), NEW bytes \in Seq(D), NEW start \in Nat
    PROVE  /\ Overwrite(mem, start, bytes) \in Seq(D)
           /\ Len(Overwrite(mem, start, bytes)) = Len(mem)
<1> DEFINE E(i) == IF i - start \in 1 .. Len(bytes) THEN bytes[i - start] ELSE mem[i]
           r == [i \in 1 .. Len(mem) |-> E(i)]
<1>1. Len(mem) \in Nat /\ \A i \in 1 .. Len(mem) : E(i) \in D
  BY LenProperties
<1>2. r \in Seq(D)
  <2> HIDE DEF E
  <2> QED BY <1>1, IsASeq
<1>3. DOMAIN r = 1 .. Len(mem)
  <2> HIDE DEF E
  <2> QED OBVIOUS
<1>4. Overwrite(mem, start, bytes) = r
  BY DEF Overwrite
<1> HIDE DEF r
<1>5. Len(r) = Len(mem)
  BY <1>1, <1>2, <1>3, LenProperties
<1> QED BY <1>2, <1>4, <1>5

\* The cells of the memory once bytes are put into it.
LEMMA OverwriteAt ==
    ASSUME NEW D, NEW mem \in Seq(D), NEW bytes, NEW start, NEW i \in 1 .. Len(mem)
    PROVE  Overwrite(mem, start, bytes)[i]
             = IF i - start \in 1 .. Len(bytes) THEN bytes[i - start] ELSE mem[i]
BY Zenon DEF Overwrite

\* Bytes written at a position of the memory replace or prolong the content.
Replaces(mem, old, size, pos, bytes) ==
    LET content == SubSeq(old, 1, size)
        end == pos + Len(bytes)
        larger == IF size < end THEN end ELSE size
    IN  SubSeq(Overwrite(mem, pos, bytes), 1, larger)
          = SubSeq(content, 1, pos) \o bytes \o SubSeq(content, end + 1, Len(content))

LEMMA PutBytes ==
    ASSUME NEW D, NEW old \in Seq(D), NEW mem \in Seq(D), NEW bytes \in Seq(D),
           NEW pos \in Nat, NEW size \in Nat,
           pos <= size, size <= Len(old), Len(old) <= Len(mem),
           pos + Len(bytes) <= Len(mem),
           \A i \in 1 .. Len(old) : mem[i] = old[i]
    PROVE  Replaces(mem, old, size, pos, bytes)
<1> DEFINE end == pos + Len(bytes)
           content == SubSeq(old, 1, size)
           larger == IF size < end THEN end ELSE size
           new == Overwrite(mem, pos, bytes)
           a == SubSeq(content, 1, pos)
           c == SubSeq(content, end + 1, size)
           l == SubSeq(new, 1, larger)
<1>1. content \in Seq(D) /\ Len(content) = size /\ \A i \in 1 .. size : content[i] = old[i]
  BY StartOfSeq
<1>2. new \in Seq(D) /\ Len(new) = Len(mem) /\ \A i \in 1 .. Len(mem) :
          new[i] = IF i - pos \in 1 .. Len(bytes) THEN bytes[i - pos] ELSE mem[i]
  <2>1. new \in Seq(D) /\ Len(new) = Len(mem)
    BY OverwriteType
  <2>2. \A i \in 1 .. Len(mem) :
          new[i] = IF i - pos \in 1 .. Len(bytes) THEN bytes[i - pos] ELSE mem[i]
    BY OverwriteAt, ZenonT(30)
  <2> QED BY <2>1, <2>2
<1>3. /\ Len(bytes) \in Nat /\ Len(mem) \in Nat /\ Len(old) \in Nat
      /\ end \in Nat /\ end = pos + Len(bytes) /\ end <= Len(mem)
  BY LenProperties
<1> HIDE DEF end
<1>4. larger \in Nat /\ larger <= Len(mem) /\ size <= larger /\ end <= larger
  BY <1>3
<1> HIDE DEF content, new
<1>5. a \in Seq(D) /\ Len(a) = pos /\ \A i \in 1 .. pos : a[i] = content[i]
  BY <1>1, StartOfSeq
<1>6. l \in Seq(D) /\ Len(l) = larger /\ \A i \in 1 .. larger : l[i] = new[i]
  <2> QED BY <1>2, <1>4, StartOfSeq
<1>7. /\ c \in Seq(D)
      /\ Len(c) = IF end < size THEN size - end ELSE 0
      /\ \A i \in 1 .. size - end : c[i] = content[end + i]
  <2>1. CASE end <= size
    <3>1. size <= Len(content)
      BY <1>1
    <3>2. c \in Seq(D) /\ Len(c) = size - end /\ \A i \in 1 .. size - end : c[i] = content[end + i]
      BY <1>1, <1>3, <2>1, <3>1, PartOfSeq
    <3> QED BY <1>3, <2>1, <3>2
  <2>2. CASE ~ (end <= size)
    <3>1. c = <<>>
      BY <1>3, <2>2, SubSeqEmpty
    <3> QED BY <1>3, <2>2, <3>1
  <2> QED BY <2>1, <2>2
<1> HIDE DEF a, c, l
<1>8. /\ a \o bytes \in Seq(D)
      /\ Len(a \o bytes) = end
      /\ \A i \in 1 .. end : (a \o bytes)[i] = IF i <= pos THEN a[i] ELSE bytes[i - pos]
  <2>1. /\ a \o bytes \in Seq(D)
        /\ Len(a \o bytes) = Len(a) + Len(bytes)
        /\ \A i \in 1 .. Len(a) + Len(bytes) :
              (a \o bytes)[i] = IF i <= Len(a) THEN a[i] ELSE bytes[i - Len(a)]
    BY <1>5, ConcatProperties
  <2> QED BY <1>3, <1>5, <2>1
<1> DEFINE ab == a \o bytes
           r == ab \o c
<1> HIDE DEF ab
<1>9. r \in Seq(D) /\ Len(r) = Len(ab) + Len(c)
        /\ \A i \in 1 .. Len(ab) + Len(c) : r[i] = IF i <= Len(ab) THEN ab[i] ELSE c[i - Len(ab)]
  <2>1. ab \in Seq(D) /\ c \in Seq(D)
    BY <1>7, <1>8 DEF ab
  <2> QED BY <2>1, ConcatProperties
<1> HIDE DEF r
<1>10. Len(ab) = end /\ \A i \in 1 .. end : ab[i] = IF i <= pos THEN a[i] ELSE bytes[i - pos]
  BY <1>8 DEF ab
<1>a. Len(ab) + Len(c) = larger
  <2>1. CASE end < size
    BY <1>3, <1>7, <1>10, <2>1
  <2>2. CASE ~ (end < size)
    <3>1. larger = end
      BY <1>3, <2>2
    <3> QED BY <1>3, <1>7, <1>10, <2>2, <3>1
  <2> QED BY <2>1, <2>2
<1>11. Len(r) = larger /\ Len(l) = Len(r)
  BY <1>6, <1>9, <1>a
<1>b. \A i \in 1 .. larger : r[i] = IF i <= end THEN ab[i] ELSE c[i - end]
  BY <1>9, <1>10, <1>a
<1>12. ASSUME NEW i \in 1 .. larger PROVE l[i] = r[i]
  <2>0. i \in Int /\ 1 <= i /\ i <= larger /\ i \in 1 .. Len(mem)
    BY <1>4, <1>3
  <2>1. l[i] = IF i - pos \in 1 .. Len(bytes) THEN bytes[i - pos] ELSE mem[i]
    BY <1>2, <1>6, <2>0
  <2>2. CASE i <= pos
    <3>0. i <= size /\ i <= end /\ i \in 1 .. Len(old) /\ ~ (i - pos \in 1 .. Len(bytes))
      BY <1>3, <2>0, <2>2
    <3>1. l[i] = mem[i] /\ mem[i] = old[i]
      BY <2>1, <3>0
    <3>2. content[i] = old[i] /\ a[i] = content[i]
      BY <1>1, <1>5, <2>0, <2>2, <3>0
    <3>3. r[i] = ab[i] /\ ab[i] = a[i]
      BY <1>10, <1>b, <2>0, <2>2, <3>0
    <3> QED BY <3>1, <3>2, <3>3
  <2>3. CASE i > pos /\ i <= end
    <3>0. i - pos \in 1 .. Len(bytes) /\ ~ (i <= pos)
      BY <1>3, <2>0, <2>3
    <3>1. r[i] = ab[i] /\ ab[i] = bytes[i - pos]
      BY <1>10, <1>b, <2>0, <2>3, <3>0
    <3> QED BY <2>1, <3>0, <3>1
  <2>4. CASE i > end
    <3>0. end < size /\ i <= size
      BY <1>3, <2>0, <2>4
    <3>1. i \in 1 .. Len(old) /\ i - end \in 1 .. size - end /\ ~ (i <= end) /\ end + (i - end) = i
      BY <1>3, <2>0, <2>4, <3>0
    <3>2. ~ (i - pos \in 1 .. Len(bytes))
      BY <1>3, <2>0, <2>4
    <3>3. l[i] = mem[i] /\ mem[i] = old[i]
      BY <2>1, <3>1, <3>2
    <3>4. content[i] = old[i]
      BY <1>1, <2>0, <3>0
    <3>5. r[i] = c[i - end]
      BY <1>b, <2>0, <3>1
    <3>6. c[i - end] = content[end + (i - end)]
      BY <1>7, <3>1
    <3> QED BY <3>1, <3>3, <3>4, <3>5, <3>6, Zenon
  <2> QED BY <1>3, <2>0, <2>2, <2>3, <2>4
<1>13. l = r
  BY <1>6, <1>9, <1>7, <1>8, <1>11, <1>12, SeqEqual DEF ab
<1>14. l = SubSeq(Overwrite(mem, pos, bytes), 1, larger)
  BY DEF l, new
<1>15. r = SubSeq(content, 1, pos) \o bytes \o SubSeq(content, end + 1, Len(content))
  BY <1>1 DEF r, ab, a, c
<1>16. SubSeq(Overwrite(mem, pos, bytes), 1, larger)
          = SubSeq(content, 1, pos) \o bytes \o SubSeq(content, end + 1, Len(content))
  BY <1>13, <1>14, <1>15
<1> QED BY <1>16, Zenon DEF Replaces, content, end

-----------------------------------------------------------------------------
(* The nodes of ByteArray.                                                 *)

\* Whole nodes, at least one of them, and the cursor where it is to be.
ByteInv == TypeOK /\ m_capacity # 0 /\ CursorExact

\* What the steps of a call find while the null pointer has not been followed.
LEMMA Layout ==
    ASSUME ByteInv
    PROVE  /\ m_baseSize \in Nat \ {0}
           /\ memory \in Seq(Cell) /\ m_capacity \in Nat \ {0} /\ m_capacity % m_baseSize = 0
           /\ m_size \in Nat /\ m_position \in Nat
           /\ m_position <= m_size /\ m_size <= m_capacity
<1>1. memory \in Seq(Cell)
  BY DEF ByteInv, TypeOK, Cell
<1>2. Len(memory) \in Nat
  BY <1>1, LenProperties
<1> QED BY <1>1, <1>2, ByteArrayConstants DEF ByteInv, TypeOK, m_capacity

\* An offset inside the memory is in one of its nodes.
LEMMA NodeOf ==
    ASSUME NEW offset \in Nat, NEW capacity \in Nat, capacity % m_baseSize = 0
    PROVE  /\ NodeAt(offset, capacity) \in 1 .. capacity \div m_baseSize \cup {Null}
           /\ NodeAt(offset, capacity) = Null <=> offset >= capacity
           /\ offset < capacity => NodeAt(offset, capacity) = offset \div m_baseSize + 1
<1>c. m_baseSize \in Nat \ {0} /\ Null \notin Nat
  BY ByteArrayConstants
<1>1. CASE offset >= capacity
  <2>1. NodeAt(offset, capacity) = Null
    BY <1>1 DEF NodeAt
  <2> QED BY <1>1, <2>1
<1>2. CASE offset < capacity
  <2>1. NodeAt(offset, capacity) = offset \div m_baseSize + 1
    BY <1>2 DEF NodeAt
  <2>2. PICK q \in Nat : q = offset \div m_baseSize
    BY <1>c
  <2>3. PICK k \in Nat : k = capacity \div m_baseSize
    BY <1>c
  <2>4. q < k
    <3>1. q * m_baseSize <= offset /\ capacity = k * m_baseSize
      BY <1>c, <2>2, <2>3
    <3>2. q * m_baseSize < k * m_baseSize
      BY <1>2, <1>c, <3>1
    <3> QED BY <1>c, <3>2
  <2>5. q + 1 \in 1 .. k /\ q + 1 \in Nat
    BY <2>4
  <2> QED BY <1>2, <1>c, <2>1, <2>2, <2>3, <2>5
<1> QED BY <1>1, <1>2

\* The loops that start at the node of the position start at the position.
LEMMA StartOf ==
    ASSUME m_position \in Nat, NEW capacity \in Nat, m_position < capacity
    PROVE  Start(NodeAt(m_position, capacity)) = m_position
<1>1. m_baseSize \in Nat \ {0}
  BY ByteArrayConstants
<1>2. NodeAt(m_position, capacity) = m_position \div m_baseSize + 1
  BY DEF NodeAt
<1>3. PICK q \in Nat : q = m_position \div m_baseSize
  BY <1>1
<1>4. m_position = q * m_baseSize + (m_position % m_baseSize)
  BY <1>1, <1>3
<1>5. (q + 1) - 1 = q
  OBVIOUS
<1>6. Start(q + 1) = q * m_baseSize + (m_position % m_baseSize)
  BY <1>5, Zenon DEF Start
<1> QED BY <1>2, <1>3, <1>4, <1>6, Zenon

\* m_cur is the node at the position, which ends the capacity if there is none.
LEMMA Cursor ==
    ASSUME ByteInv, ~ crashed
    PROVE  /\ m_cur = Null => m_position = m_capacity
           /\ m_cur # Null => m_position < m_capacity /\ Start(m_cur) = m_position
<1>1. m_cur = NodeAt(m_position, m_capacity)
  BY DEF ByteInv, CursorExact
<1>2. /\ m_capacity \in Nat /\ m_capacity % m_baseSize = 0
      /\ m_position \in Nat /\ m_position <= m_capacity
  BY Layout
<1>3. NodeAt(m_position, m_capacity) = Null <=> m_position >= m_capacity
  BY <1>2, NodeOf
<1>4. m_position < m_capacity => Start(NodeAt(m_position, m_capacity)) = m_position
  BY <1>2, StartOf
<1> QED BY <1>1, <1>2, <1>3, <1>4

\* addCapacity(n) makes room for n bytes from the position on, in whole nodes, keeps
\* what there is, and leaves the cursor at the position.
LEMMA GrownFacts ==
    ASSUME ByteInv, ~ crashed, NEW n \in Nat
    PROVE  /\ Grown(n) \in Seq(Cell)
           /\ Len(Grown(n)) \in Nat /\ Len(Grown(n)) % m_baseSize = 0
           /\ m_capacity <= Len(Grown(n))
           /\ m_position + n <= Len(Grown(n))
           /\ \A i \in 1 .. m_capacity : Grown(n)[i] = memory[i]
           /\ n = 0 => Grown(n) = memory /\ CurGrown(n) = m_cur
           /\ n > 0 => CurGrown(n) = NodeAt(m_position, Len(Grown(n)))
<1>1. /\ m_baseSize \in Nat \ {0}
      /\ memory \in Seq(Cell) /\ m_capacity \in Nat /\ m_capacity % m_baseSize = 0
      /\ m_position \in Nat /\ m_position <= m_capacity
  BY Layout
<1>2. m_cur = NodeAt(m_position, m_capacity)
  BY DEF ByteInv, CursorExact
<1>3. Spare \in Nat /\ Spare = m_capacity - m_position
  BY <1>1 DEF Spare
<1>4. CASE n <= Spare
  <2>1. Grown(n) = memory /\ CurGrown(n) = m_cur
    BY <1>3, <1>4 DEF Grown, CurGrown
  <2>2. m_capacity = Len(memory)
    BY DEF m_capacity
  <2>3. m_position + n <= m_capacity
    BY <1>1, <1>3, <1>4
  <2> QED BY <1>1, <1>2, <2>1, <2>2, <2>3
<1>5. CASE ~ (n <= Spare)
  <2>1. PICK k \in Nat : k = (n - Spare + m_baseSize - 1) \div m_baseSize
    <3>1. n - Spare + m_baseSize - 1 \in Nat
      BY <1>1, <1>3, <1>5
    <3> QED BY <1>1, <3>1
  <2>2. n - Spare <= m_baseSize * k
    <3>1. PICK x \in Nat : x = n - Spare + m_baseSize - 1
      BY <1>1, <1>3, <1>5
    <3>2. PICK q \in Nat, r \in 0 .. m_baseSize - 1 :
            q = x \div m_baseSize /\ r = x % m_baseSize /\ x = q * m_baseSize + r
      BY <1>1, Division
    <3>3. PICK d \in Nat : d = k * m_baseSize
      BY <1>1, <2>1
    <3>4. x = d + r
      BY <2>1, <3>1, <3>2, <3>3
    <3>5. d = m_baseSize * k
      BY <1>1, <2>1, <3>3
    <3>6. n - Spare <= d
      BY <1>1, <1>3, <3>1, <3>2, <3>4
    <3> QED BY <3>5, <3>6
  <2>3. PICK more \in Nat : more = m_baseSize * k
    BY <1>1, <2>1
  <2>4. Node(more) \in Seq(Cell) /\ Len(Node(more)) = more
    <3>1. Garbage \in Cell
      BY DEF Cell
    <3>2. [i \in 1 .. more |-> Garbage] \in Seq(Cell)
      BY <3>1, IsASeq
    <3> QED BY <3>2, LenProperties DEF Node
  <2>5. Grown(n) = memory \o Node(more)
    BY <1>5, <2>1, <2>3 DEF Grown
  <2>6. Len(memory) = m_capacity
    BY DEF m_capacity
  <2>7. /\ Grown(n) \in Seq(Cell)
        /\ Len(Grown(n)) = m_capacity + more
        /\ \A i \in 1 .. m_capacity + more :
              Grown(n)[i] = IF i <= m_capacity THEN memory[i] ELSE Node(more)[i - m_capacity]
    <3>1. /\ memory \o Node(more) \in Seq(Cell)
          /\ Len(memory \o Node(more)) = Len(memory) + Len(Node(more))
          /\ \A i \in 1 .. Len(memory) + Len(Node(more)) :
                (memory \o Node(more))[i]
                  = IF i <= Len(memory) THEN memory[i] ELSE Node(more)[i - Len(memory)]
      BY <1>1, <2>4, ConcatProperties
    <3> QED BY <2>4, <2>5, <2>6, <3>1, Zenon
  <2>8. \A i \in 1 .. m_capacity : Grown(n)[i] = memory[i]
    BY <1>1, <2>7
  <2>9. (m_capacity + more) % m_baseSize = 0
    <3>1. PICK q \in Nat : m_capacity = m_baseSize * q
      <4>1. m_capacity \div m_baseSize \in Nat
            /\ m_capacity = m_baseSize * (m_capacity \div m_baseSize)
        BY <1>1
      <4> QED BY <4>1
    <3>2. m_capacity + more = m_baseSize * (q + k)
      <4>1. m_baseSize * (q + k) = m_baseSize * q + m_baseSize * k
        BY <1>1, Distributive
      <4> QED BY <2>3, <3>1, <4>1
    <3>3. (m_baseSize * (q + k)) % m_baseSize = 0
      <4>1. PICK z \in Nat : z = q + k
        BY <2>1, <3>1
      <4>2. (m_baseSize * z) % m_baseSize = 0
        BY <1>1
      <4> QED BY <4>1, <4>2
    <3> QED BY <3>2, <3>3
  <2>10. m_position + n <= m_capacity + more
    BY <1>1, <1>3, <2>2, <2>3
  <2>11. more > 0 /\ m_position < m_capacity + more
    BY <1>1, <1>3, <1>5, <2>2, <2>3
  <2>12. CurGrown(n) = NodeAt(m_position, m_capacity + more)
    <3>1. NodeAt(m_position, m_capacity + more) = m_position \div m_baseSize + 1
      BY <1>1, <2>11 DEF NodeAt
    <3>2. CASE Spare = 0
      <4>1. m_position = m_capacity
        BY <1>1, <1>3, <3>2
      <4>2. CurGrown(n) = m_capacity \div m_baseSize + 1
        BY <1>5, <3>2 DEF CurGrown
      <4> QED BY <3>1, <4>1, <4>2
    <3>3. CASE Spare # 0
      <4>1. m_position < m_capacity
        BY <1>1, <1>3, <3>3
      <4>2. CurGrown(n) = m_cur
        BY <3>3 DEF CurGrown
      <4> QED BY <1>1, <1>2, <3>1, <4>1, <4>2 DEF NodeAt
    <3> QED BY <3>2, <3>3
  <2>13. Len(Grown(n)) = m_capacity + more
    BY <2>7, Zenon
  <2>14. n # 0 /\ m_capacity + more \in Nat /\ m_capacity <= m_capacity + more
    BY <1>1, <1>3, <1>5
  <2>15. Grown(n) \in Seq(Cell)
    BY <2>7, Zenon
  <2> QED BY <2>8, <2>9, <2>10, <2>12, <2>13, <2>14, <2>15, Zenon
<1> QED BY <1>4, <1>5

-----------------------------------------------------------------------------
(* What the steps come down to.                                            *)

\* The greater of two.
LEMMA MaxOfTwo ==
    ASSUME NEW a \in Nat, NEW b \in Nat
    PROVE  Max({a, b}) = IF a < b THEN b ELSE a
<1> DEFINE m == IF a < b THEN b ELSE a
<1>1. m \in {a, b} /\ \A y \in {a, b} : m >= y
  OBVIOUS
<1>2. \A x \in {a, b} : (\A y \in {a, b} : x >= y) => x = m
  OBVIOUS
<1> QED BY <1>1, <1>2 DEF Max

\* The parts of the invariant, for the state after a step.
LEMMA InvAfter ==
    ASSUME memory' \in Seq(Cell), m_capacity' % m_baseSize = 0, m_capacity' # 0,
           m_size' \in Nat, m_position' \in Nat,
           m_position' <= m_size', m_size' <= m_capacity',
           m_little' \in BOOLEAN, crashed' \in BOOLEAN,
           crashed' => /\ m_position' = m_capacity'
                       /\ m_cur' \in 1 .. m_capacity' \div m_baseSize \cup {Null},
           ~ crashed' => m_cur' = NodeAt(m_position', m_capacity')
    PROVE  ByteInv'
<1>1. Len(memory') \in Nat /\ m_capacity' = Len(memory')
  BY LenProperties DEF m_capacity
<1>2. ~ crashed' => m_cur' \in 1 .. m_capacity' \div m_baseSize \cup {Null}
  BY <1>1, NodeOf
<1>3. CursorExact'
  BY DEF CursorExact
<1>4. m_size' \in 0 .. m_capacity' /\ m_position' \in 0 .. m_size'
  BY <1>1
<1>5. TypeOK'
  BY <1>2, <1>4 DEF TypeOK, Cell
<1> QED BY <1>3, <1>5 DEF ByteInv

\* The bytes are at the position, and the other cells of the content are as they were.
PutCells(bytes) ==
    /\ crashed' = crashed /\ m_size <= m_size' /\ m_position + Len(bytes) <= m_size'
    /\ \A i \in 1 .. m_size : i - m_position \notin 1 .. Len(bytes) => memory'[i] = memory[i]
    /\ \A j \in 1 .. Len(bytes) : memory'[m_position + j] = bytes[j]

\* Bytes are put at the position, after the memory has grown for them.
LEMMA PutStep ==
    ASSUME ByteInv, ~ crashed, NEW bytes \in Seq(Byte),
           NEW mem \in Seq(Cell), Len(mem) % m_baseSize = 0, m_capacity <= Len(mem),
           \A i \in 1 .. m_capacity : mem[i] = memory[i],
           m_position + Len(bytes) <= Len(mem),
           memory' = Overwrite(mem, m_position, bytes),
           m_position' = m_position + Len(bytes),
           m_size' = Max({m_size, m_position + Len(bytes)}),
           m_cur' = NodeAt(m_position + Len(bytes), Len(mem)),
           moved' = bytes, m_little' = m_little, crashed' = crashed
    PROVE  ByteInv' /\ Buffer!Put /\ PutCells(bytes)
<1> DEFINE end == m_position + Len(bytes)
<1>1. /\ m_baseSize \in Nat \ {0} /\ memory \in Seq(Cell) /\ m_capacity \in Nat \ {0}
      /\ m_size \in Nat /\ m_position \in Nat /\ m_position <= m_size /\ m_size <= m_capacity
  BY Layout
<1>2. bytes \in Seq(Cell) /\ Len(bytes) \in Nat /\ Len(mem) \in Nat /\ end \in Nat
  <2>1. Byte \subseteq Cell
    BY DEF Cell
  <2>2. bytes \in Seq(Cell)
    BY <2>1, SeqMonotonic
  <2> QED BY <1>1, <2>2, LenProperties
<1>3. m_size' = IF m_size < end THEN end ELSE m_size
  BY <1>1, <1>2, MaxOfTwo
<1>4. memory' \in Seq(Cell) /\ Len(memory') = Len(mem)
  <2>1. /\ Overwrite(mem, m_position, bytes) \in Seq(Cell)
        /\ Len(Overwrite(mem, m_position, bytes)) = Len(mem)
    BY <1>1, <1>2, OverwriteType
  <2> QED BY <2>1
<1>5. m_capacity' = Len(mem) /\ Len(memory) = m_capacity
  BY <1>4 DEF m_capacity
<1>6. ByteInv'
  <2>1. m_position' \in Nat /\ m_size' \in Nat /\ m_position' <= m_size' /\ m_size' <= m_capacity'
    BY <1>1, <1>2, <1>3, <1>5
  <2>2. m_capacity' # 0 /\ m_capacity' % m_baseSize = 0
    BY <1>1, <1>2, <1>5
  <2>3. m_little' \in BOOLEAN /\ crashed' \in BOOLEAN /\ ~ crashed'
    BY DEF ByteInv, TypeOK
  <2>4. m_cur' = NodeAt(m_position', m_capacity')
    BY <1>5
  <2> QED BY <1>4, <2>1, <2>2, <2>3, <2>4, InvAfter
<1>7. SubSeq(memory', 1, m_size')
        = SubSeq(SubSeq(memory, 1, m_size), 1, m_position) \o bytes
            \o SubSeq(SubSeq(memory, 1, m_size), end + 1, Len(SubSeq(memory, 1, m_size)))
  <2>1. /\ m_size <= Len(memory) /\ Len(memory) <= Len(mem) /\ end <= Len(mem)
        /\ \A i \in 1 .. Len(memory) : mem[i] = memory[i]
    BY <1>1, <1>5
  <2>2. /\ memory \in Seq(Cell) /\ mem \in Seq(Cell) /\ bytes \in Seq(Cell)
        /\ m_position \in Nat /\ m_size \in Nat /\ m_position <= m_size
    BY <1>1, <1>2
  <2>3. Replaces(mem, memory, m_size, m_position, bytes)
    BY <2>1, <2>2, PutBytes
  <2> QED BY <1>3, <2>3, Zenon DEF Replaces
<1>8. \A i \in 1 .. Len(mem) :
         memory'[i] = IF i - m_position \in 1 .. Len(bytes) THEN bytes[i - m_position] ELSE mem[i]
  <2> SUFFICES ASSUME NEW i \in 1 .. Len(mem)
               PROVE  memory'[i] = IF i - m_position \in 1 .. Len(bytes)
                                     THEN bytes[i - m_position] ELSE mem[i]
    OBVIOUS
  <2>1. Overwrite(mem, m_position, bytes)[i]
          = IF i - m_position \in 1 .. Len(bytes) THEN bytes[i - m_position] ELSE mem[i]
    BY OverwriteAt
  <2> QED BY <2>1, Zenon
<1>9. PutCells(bytes)
  <2>1. m_size <= m_size' /\ end <= m_size'
    BY <1>1, <1>2, <1>3
  <2>2. ASSUME NEW i \in 1 .. m_size, i - m_position \notin 1 .. Len(bytes)
        PROVE  memory'[i] = memory[i]
    <3>1. i \in 1 .. Len(mem) /\ i \in 1 .. m_capacity
      BY <1>1, <1>2
    <3> QED BY <1>8, <2>2, <3>1
  <2>3. ASSUME NEW j \in 1 .. Len(bytes) PROVE memory'[m_position + j] = bytes[j]
    <3>1. m_position + j \in 1 .. Len(mem) /\ (m_position + j) - m_position = j
      BY <1>1, <1>2
    <3> QED BY <1>8, <3>1
  <2> QED BY <2>1, <2>2, <2>3 DEF PutCells
<1> QED BY <1>6, <1>7, <1>9 DEF Buffer!Put

\* The first bytes ahead are those of the content.
LEMMA GetStep ==
    ASSUME ByteInv, ~ crashed, NEW n \in Nat, n <= ReadSize,
           moved' = SubSeq(memory, m_position + 1, m_position + n),
           m_position' = m_position + n, m_cur' = NodeAt(m_position + n, m_capacity),
           memory' = memory, m_size' = m_size, m_little' = m_little, crashed' = crashed
    PROVE  ByteInv' /\ Buffer!Get
<1>1. /\ memory \in Seq(Cell) /\ m_capacity \in Nat \ {0} /\ m_capacity % m_baseSize = 0
      /\ m_size \in Nat /\ m_position \in Nat /\ m_position <= m_size /\ m_size <= m_capacity
  BY Layout
<1>2. m_position + n \in Nat /\ m_position <= m_position + n /\ m_position + n <= m_size
  BY <1>1 DEF ReadSize
<1>3. m_capacity' = m_capacity /\ m_capacity = Len(memory)
  BY DEF m_capacity
<1>4. ByteInv'
  <2>1. m_little' \in BOOLEAN /\ crashed' \in BOOLEAN /\ ~ crashed'
    BY DEF ByteInv, TypeOK
  <2>2. m_position' \in Nat /\ m_size' \in Nat /\ m_position' <= m_size' /\ m_size' <= m_capacity'
    BY <1>1, <1>2, <1>3
  <2>3. memory' \in Seq(Cell) /\ m_capacity' % m_baseSize = 0 /\ m_capacity' # 0
    BY <1>1, <1>3
  <2>4. m_cur' = NodeAt(m_position', m_capacity')
    BY <1>3
  <2> QED BY <2>1, <2>2, <2>3, <2>4, InvAfter
<1> DEFINE content == SubSeq(memory, 1, m_size)
<1>5. Len(content) = m_size
  BY <1>1, <1>3, StartOfSeq
<1>6. SubSeq(content, m_position + 1, m_position + n) = SubSeq(memory, m_position + 1, m_position + n)
  BY <1>1, <1>2, <1>3, PartOfStart
<1>7. SubSeq(memory', 1, m_size') = content
  OBVIOUS
<1> HIDE DEF content
<1>8. m_position' \in m_position .. Len(content)
  BY <1>1, <1>2, <1>5
<1>9. moved' = SubSeq(content, m_position + 1, m_position')
  BY <1>6
<1> QED BY <1>4, <1>7, <1>8, <1>9 DEF Buffer!Get, content

\* A read throws after it has consumed n bytes.
LEMMA FailStep ==
    ASSUME ByteInv, ~ crashed, NEW n \in Nat, n <= ReadSize,
           moved' = Thrown, m_position' = m_position + n, crashed' \in BOOLEAN,
           crashed' => m_position + n = m_capacity /\ m_cur' = m_cur,
           ~ crashed' => m_cur' = NodeAt(m_position + n, m_capacity),
           memory' = memory, m_size' = m_size, m_little' = m_little
    PROVE  ByteInv' /\ Buffer!Fail
<1>1. /\ memory \in Seq(Cell) /\ m_capacity \in Nat \ {0} /\ m_capacity % m_baseSize = 0
      /\ m_size \in Nat /\ m_position \in Nat /\ m_position <= m_size /\ m_size <= m_capacity
  BY Layout
<1>2. m_position + n \in Nat /\ m_position <= m_position + n /\ m_position + n <= m_size
  BY <1>1 DEF ReadSize
<1>3. m_capacity' = m_capacity /\ m_capacity = Len(memory)
  BY DEF m_capacity
<1>4. ByteInv'
  <2>1. m_little' \in BOOLEAN /\ m_cur \in 1 .. m_capacity \div m_baseSize \cup {Null}
    BY DEF ByteInv, TypeOK
  <2>2. m_position' \in Nat /\ m_size' \in Nat /\ m_position' <= m_size' /\ m_size' <= m_capacity'
    BY <1>1, <1>2, <1>3
  <2>3. memory' \in Seq(Cell) /\ m_capacity' % m_baseSize = 0 /\ m_capacity' # 0
    BY <1>1, <1>3
  <2>4. /\ crashed' => m_position' = m_capacity'
                       /\ m_cur' \in 1 .. m_capacity' \div m_baseSize \cup {Null}
        /\ ~ crashed' => m_cur' = NodeAt(m_position', m_capacity')
    BY <1>3, <2>1
  <2> QED BY <2>1, <2>2, <2>3, <2>4, InvAfter
<1>5. Len(SubSeq(memory, 1, m_size)) = m_size
  BY <1>1, <1>3, StartOfSeq
<1>6. m_position' \in m_position .. Len(SubSeq(memory, 1, m_size))
  BY <1>1, <1>2, <1>5
<1> QED BY <1>4, <1>6 DEF Buffer!Fail

-----------------------------------------------------------------------------
(* The operations.                                                         *)

\* write() and the calls made of it.
LEMMA WriteStep ==
    ASSUME ByteInv, NEW bytes \in Seq(Byte), WriteBytes(bytes)
    PROVE  ByteInv' /\ Buffer!Put /\ PutCells(bytes)
<1> DEFINE n == Len(bytes)
           mem == Grown(n)
           cur == CurGrown(n)
<1>1. n \in Nat /\ ~ crashed
  BY LenProperties DEF WriteBytes
<1>2. /\ mem \in Seq(Cell)
      /\ Len(mem) \in Nat /\ Len(mem) % m_baseSize = 0
      /\ m_capacity <= Len(mem)
      /\ m_position + n <= Len(mem)
      /\ \A i \in 1 .. m_capacity : mem[i] = memory[i]
      /\ n = 0 => mem = memory /\ cur = m_cur
      /\ n > 0 => cur = NodeAt(m_position, Len(mem))
  BY <1>1, GrownFacts
<1>3. /\ m_baseSize \in Nat \ {0} /\ memory \in Seq(Cell) /\ m_position \in Nat
      /\ m_cur = NodeAt(m_position, m_capacity) /\ m_capacity = Len(memory)
  BY <1>1, Layout DEF ByteInv, CursorExact, m_capacity
<1>4. n > 0 => cur # Null /\ Start(cur) = m_position
  <2> SUFFICES ASSUME n > 0 PROVE cur # Null /\ Start(cur) = m_position
    OBVIOUS
  <2>1. m_position < Len(mem) /\ cur = NodeAt(m_position, Len(mem))
    <3> HIDE DEF n, mem, cur
    <3> QED BY <1>1, <1>2, <1>3
  <2> HIDE DEF n, mem, cur
  <2>2. NodeAt(m_position, Len(mem)) # Null
    BY <1>2, <1>3, <2>1, NodeOf
  <2>3. Start(NodeAt(m_position, Len(mem))) = m_position
    BY <1>2, <1>3, <2>1, StartOf
  <2> QED BY <2>1, <2>2, <2>3
<1>5. /\ memory' = IF n = 0 THEN memory ELSE Overwrite(mem, Start(cur), bytes)
      /\ m_cur' = IF n = 0 THEN m_cur ELSE NodeAt(Start(cur) + n, Len(mem))
      /\ m_position' = m_position + n
      /\ m_size' = Max({m_size, m_position + n})
      /\ moved' = bytes /\ m_little' = m_little /\ crashed' = crashed
  <2>1. ~ (n > 0 /\ (cur = Null \/ Start(cur) + n > Len(mem)))
    <3> HIDE DEF n, mem, cur
    <3> QED BY <1>1, <1>2, <1>3, <1>4
  <2> QED BY <2>1 DEF WriteBytes
<1>6. memory' = Overwrite(mem, m_position, bytes)
  <2>1. CASE n = 0
    <3>1. mem = memory /\ memory' = memory
      BY <1>2, <1>5, <2>1
    <3>2. bytes \in Seq(Cell)
      <4>1. Byte \subseteq Cell
        BY DEF Cell
      <4> QED BY <4>1, SeqMonotonic
    <3>3. /\ Overwrite(memory, m_position, bytes) \in Seq(Cell)
          /\ Len(Overwrite(memory, m_position, bytes)) = Len(memory)
      BY <1>3, <3>2, OverwriteType
    <3>4. ASSUME NEW i \in 1 .. Len(memory)
          PROVE  Overwrite(memory, m_position, bytes)[i] = memory[i]
      <4>1. Overwrite(memory, m_position, bytes)[i]
              = IF i - m_position \in 1 .. Len(bytes) THEN bytes[i - m_position] ELSE memory[i]
        BY <1>3, OverwriteAt, Zenon
      <4>2. ~ (i - m_position \in 1 .. Len(bytes))
        BY <2>1
      <4> QED BY <4>1, <4>2, Zenon
    <3>5. Overwrite(memory, m_position, bytes) = memory
      BY <1>3, <3>3, <3>4, SeqEqual
    <3> HIDE DEF mem, n
    <3> QED BY <3>1, <3>5
  <2>2. CASE n # 0
    <3> HIDE DEF mem, n, cur
    <3> QED BY <1>1, <1>4, <1>5, <2>2
  <2> QED BY <2>1, <2>2
<1>7. m_cur' = NodeAt(m_position + n, Len(mem))
  <2> HIDE DEF mem, n, cur
  <2>1. CASE n = 0
    <3>1. mem = memory /\ m_position + n = m_position
      BY <1>2, <1>3, <2>1
    <3> QED BY <1>3, <1>5, <2>1, <3>1
  <2>2. CASE n # 0
    BY <1>1, <1>4, <1>5, <2>2
  <2> QED BY <2>1, <2>2
<1> HIDE DEF mem
<1> QED BY <1>1, <1>2, <1>5, <1>6, <1>7, PutStep

\* Bytes are received into the buffers of getWriteBuffers().
LEMMA RecvStep ==
    ASSUME ByteInv, NEW len \in Nat, NEW bytes \in Seq(Byte), Recv(len, bytes)
    PROVE  ByteInv' /\ Buffer!Put /\ PutCells(bytes)
<1> DEFINE n == Len(bytes)
           mem == Grown(len)
           cur == CurGrown(len)
<1>1. n \in Nat /\ ~ crashed /\ len > 0 /\ n <= len
  BY LenProperties DEF Recv
<1>2. /\ mem \in Seq(Cell)
      /\ Len(mem) \in Nat /\ Len(mem) % m_baseSize = 0
      /\ m_capacity <= Len(mem)
      /\ m_position + len <= Len(mem)
      /\ \A i \in 1 .. m_capacity : mem[i] = memory[i]
      /\ cur = NodeAt(m_position, Len(mem))
  BY <1>1, GrownFacts
<1>3. m_baseSize \in Nat \ {0} /\ m_position \in Nat
  BY Layout
<1>4. cur # Null /\ Start(cur) = m_position
  <2> HIDE DEF n, mem, cur
  <2>1. m_position < Len(mem)
    BY <1>1, <1>2, <1>3
  <2>2. NodeAt(m_position, Len(mem)) # Null
    BY <1>2, <1>3, <2>1, NodeOf
  <2>3. Start(NodeAt(m_position, Len(mem))) = m_position
    BY <1>2, <1>3, <2>1, StartOf
  <2> QED BY <1>2, <2>2, <2>3
<1>5. /\ memory' = Overwrite(mem, Start(cur), bytes)
      /\ m_cur' = IF bytes = <<>> THEN cur ELSE NodeAt(m_position', Len(mem))
      /\ m_position' = m_position + n
      /\ m_size' = Max({m_size, m_position'})
      /\ moved' = bytes /\ m_little' = m_little /\ crashed' = crashed
  <2>1. ~ (cur = Null \/ Start(cur) + len > Len(mem))
    <3> HIDE DEF n, mem, cur
    <3> QED BY <1>1, <1>2, <1>3, <1>4
  <2> QED BY <2>1 DEF Recv
<1>6. m_cur' = NodeAt(m_position + n, Len(mem))
  <2>1. CASE bytes = <<>>
    <3>1. n = 0
      BY <2>1
    <3> HIDE DEF mem, cur, n
    <3>2. m_position + n = m_position
      BY <1>3, <3>1
    <3> QED BY <1>2, <1>5, <2>1, <3>2
  <2>2. CASE bytes # <<>>
    BY <1>5, <2>2
  <2> QED BY <2>1, <2>2
<1>7. m_position + n <= Len(mem)
  <2> HIDE DEF mem, n
  <2> QED BY <1>1, <1>2, <1>3
<1>8. memory' = Overwrite(mem, m_position, bytes) /\ m_size' = Max({m_size, m_position + n})
  <2> HIDE DEF mem, cur, n
  <2> QED BY <1>4, <1>5
<1> HIDE DEF mem
<1> QED BY <1>1, <1>2, <1>5, <1>6, <1>7, <1>8, PutStep

\* What lies ahead is the rest of the content.
LEMMA AheadFacts ==
    ASSUME ByteInv, ~ crashed
    PROVE  /\ ReadSize \in Nat
           /\ Ahead \in Seq(Cell) /\ Len(Ahead) = ReadSize
           /\ \A n \in Nat : n <= ReadSize =>
                 SubSeq(Ahead, 1, n) = SubSeq(memory, m_position + 1, m_position + n)
           /\ Ahead = SubSeq(memory, m_position + 1, m_size)
           /\ m_cur = Null => ReadSize = 0 /\ m_position = m_capacity
           /\ m_cur # Null => Start(m_cur) = m_position
<1>1. /\ memory \in Seq(Cell) /\ m_capacity \in Nat \ {0} /\ m_capacity = Len(memory)
      /\ m_size \in Nat /\ m_position \in Nat /\ m_position <= m_size /\ m_size <= m_capacity
  BY Layout DEF m_capacity
<1>2. ReadSize \in Nat /\ ReadSize = m_size - m_position /\ m_position + ReadSize = m_size
  BY <1>1 DEF ReadSize
<1>3. /\ m_cur = Null => ReadSize = 0 /\ m_position = m_capacity
      /\ m_cur # Null => Start(m_cur) = m_position
  BY <1>1, <1>2, Cursor
<1>4. Ahead = SubSeq(memory, m_position + 1, m_size)
  <2>1. CASE m_cur = Null
    <3>1. m_size < m_position + 1
      BY <1>1, <1>2, <1>3, <2>1
    <3>2. SubSeq(memory, m_position + 1, m_size) = <<>>
      BY <1>1, <3>1, SubSeqEmpty
    <3> QED BY <2>1, <3>2 DEF Ahead
  <2>2. CASE m_cur # Null
    BY <1>2, <1>3, <2>2 DEF Ahead
  <2> QED BY <2>1, <2>2
<1>5. Ahead \in Seq(Cell) /\ Len(Ahead) = ReadSize
  <2>1. m_position <= m_size /\ m_size <= Len(memory)
    BY <1>1
  <2>2. /\ SubSeq(memory, m_position + 1, m_size) \in Seq(Cell)
        /\ Len(SubSeq(memory, m_position + 1, m_size)) = m_size - m_position
    BY <1>1, <2>1, PartOfSeq
  <2> QED BY <1>2, <1>4, <2>2
<1>6. ASSUME NEW n \in Nat, n <= ReadSize
      PROVE  SubSeq(Ahead, 1, n) = SubSeq(memory, m_position + 1, m_position + n)
  <2>1. m_position + n <= m_size /\ m_size <= Len(memory)
    BY <1>1, <1>2, <1>6
  <2>2. SubSeq(SubSeq(memory, m_position + 1, m_size), 1, n)
          = SubSeq(memory, m_position + 1, m_position + n)
    BY <1>1, <2>1, StartOfPart
  <2> QED BY <1>4, <2>2
<1> QED BY <1>2, <1>3, <1>4, <1>5, <1>6

\* n bytes are read.
LEMMA ConsumeStep ==
    ASSUME ByteInv, ~ crashed, NEW n \in Nat, NEW last, n <= ReadSize, Consume(n, last)
    PROVE  ByteInv' /\ (Buffer!Get \/ Buffer!Fail)
<1>1. /\ m_capacity \in Nat \ {0} /\ m_capacity % m_baseSize = 0
      /\ m_size \in Nat /\ m_position \in Nat /\ m_position <= m_size /\ m_size <= m_capacity
  BY Layout
<1>2. /\ SubSeq(Ahead, 1, n) = SubSeq(memory, m_position + 1, m_position + n)
      /\ m_cur = Null => ReadSize = 0 /\ m_position = m_capacity
      /\ m_cur # Null => Start(m_cur) = m_position
  BY AheadFacts
<1>3. m_position + n \in Nat /\ m_position + n <= m_size
  BY <1>1 DEF ReadSize
<1>4. CASE \/ m_cur = Null
           \/ Start(m_cur) + n > m_capacity
           \/ last = 0 /\ NodeAt(Start(m_cur) + n, m_capacity) = Null
  <2>1. Crash(n)
    BY <1>4 DEF Consume
  <2>2. m_position + n = m_capacity
    <3>1. CASE m_cur = Null
      BY <1>1, <1>2, <1>3, <3>1
    <3>2. CASE m_cur # Null
      <4>1. NodeAt(m_position + n, m_capacity) = Null
        BY <1>1, <1>2, <1>3, <1>4, <3>2
      <4>2. m_position + n >= m_capacity
        BY <1>1, <1>3, <4>1, NodeOf
      <4> QED BY <1>1, <1>3, <4>2
    <3> QED BY <3>1, <3>2
  <2> QED BY <2>1, <2>2, FailStep DEF Crash
<1>5. CASE ~ (\/ m_cur = Null
              \/ Start(m_cur) + n > m_capacity
              \/ last = 0 /\ NodeAt(Start(m_cur) + n, m_capacity) = Null)
  <2>1. /\ moved' = SubSeq(Ahead, 1, n)
        /\ m_position' = m_position + n
        /\ m_cur' = IF n = 0 THEN m_cur ELSE NodeAt(Start(m_cur) + n, m_capacity)
        /\ UNCHANGED <<memory, m_size, m_little, record, crashed>>
    BY <1>5 DEF Consume
  <2>2. m_cur' = NodeAt(m_position + n, m_capacity)
    <3>1. m_cur = NodeAt(m_position, m_capacity)
      BY DEF ByteInv, CursorExact
    <3>2. n = 0 => m_position + n = m_position
      BY <1>1
    <3> QED BY <1>2, <1>5, <2>1, <3>1, <3>2
  <2> QED BY <1>2, <2>1, <2>2, GetStep
<1> QED BY <1>4, <1>5

\* n bytes are read before the call throws.
LEMMA ThrowStep ==
    ASSUME ByteInv, ~ crashed, NEW n \in Nat, n <= ReadSize, ConsumeAndThrow(n)
    PROVE  ByteInv' /\ Buffer!Fail
<1>1. m_position \in Nat
  BY Layout
<1>2. m_cur # Null \/ n = 0
  BY AheadFacts
<1>3. m_cur # Null => Start(m_cur) = m_position
  BY AheadFacts
<1>4. m_cur = NodeAt(m_position, m_capacity) /\ crashed \in BOOLEAN
  BY DEF ByteInv, CursorExact, TypeOK
<1>5. m_cur' = NodeAt(m_position + n, m_capacity)
  <2>1. n = 0 => m_position + n = m_position
    BY <1>1
  <2> QED BY <1>2, <1>3, <1>4, <2>1 DEF ConsumeAndThrow
<1> QED BY <1>4, <1>5, FailStep DEF ConsumeAndThrow

\* A new ByteArray.
LEMMA InitByteInv == Init => ByteInv /\ Buffer!Init
<1> SUFFICES ASSUME Init PROVE ByteInv /\ Buffer!Init
  OBVIOUS
<1>c. m_baseSize \in Nat \ {0}
  BY ByteArrayConstants
<1>1. memory \in Seq(Cell) /\ Len(memory) = m_baseSize
  <2>1. Garbage \in Cell
    BY DEF Cell
  <2>2. [i \in 1 .. m_baseSize |-> Garbage] \in Seq(Cell)
    BY <1>c, <2>1, IsASeq
  <2> QED BY <1>c, <2>2, LenProperties DEF Init, Node
<1>2. m_capacity = m_baseSize /\ m_baseSize % m_baseSize = 0 /\ m_baseSize \div m_baseSize = 1
  BY <1>c, <1>1 DEF m_capacity
<1>3. m_position = 0 /\ m_size = 0 /\ m_cur = 1 /\ m_little = FALSE /\ crashed = FALSE
  BY DEF Init
<1>4. TypeOK
  <2>1. m_size \in 0 .. m_capacity /\ m_position \in 0 .. m_size
    BY <1>c, <1>2, <1>3
  <2>2. m_cur \in 1 .. m_capacity \div m_baseSize /\ m_capacity % m_baseSize = 0
    <3>1. m_baseSize % m_baseSize = 0
      BY <1>c
    <3>2. m_baseSize \div m_baseSize = 1
      BY <1>c
    <3> QED BY <1>2, <1>3, <3>1, <3>2
  <2> QED BY <1>1, <1>3, <2>1, <2>2 DEF TypeOK, Cell
<1>5. CursorExact
  <2>1. 0 \div m_baseSize = 0 /\ ~ (0 >= m_baseSize)
    BY <1>c
  <2>2. NodeAt(0, m_baseSize) = 1
    BY <2>1 DEF NodeAt
  <2> QED BY <1>2, <1>3, <2>2 DEF CursorExact
<1>6. Buffer!Init
  <2>1. SubSeq(memory, 1, 0) = <<>>
    BY SubSeqEmpty
  <2> QED BY <1>3, <2>1 DEF Init, Buffer!Init
<1> QED BY <1>c, <1>2, <1>4, <1>5, <1>6 DEF ByteInv

\* The strings and the encoded integers are bytes.
LEMMA WritesAreBytes ==
    /\ \A s \in Strings : s \in Seq(Byte) /\ Varint(Len(s)) \o s \in Seq(Byte)
    /\ \A v \in Values : Varint(EncodeZigzag(v)) \in Seq(Byte)
    /\ \A u \in Values \cap UInt : Varint(u) \in Seq(Byte)
    /\ \A u \in Values \cap Word, little \in BOOLEAN : Fixed(u, little) \in Seq(Byte)
<1>1. ASSUME NEW s \in Strings
      PROVE  s \in Seq(Byte) /\ Varint(Len(s)) \o s \in Seq(Byte)
  <2>1. s \in Seq(Byte) /\ Len(s) \in UInt
    BY ByteArrayConstants
  <2>2. Varint(Len(s)) \in Seq(Byte)
    BY <2>1, VarintType
  <2> QED BY <2>1, <2>2, ConcatProperties
<1>2. ASSUME NEW v \in Values PROVE Varint(EncodeZigzag(v)) \in Seq(Byte)
  <2>1. v \in SInt
    BY ByteArrayConstants
  <2> QED BY <2>1, EncodeZigzagType, VarintType
<1>3. \A u \in Values \cap UInt : Varint(u) \in Seq(Byte)
  BY VarintType
<1>4. \A u \in Values \cap Word, little \in BOOLEAN : Fixed(u, little) \in Seq(Byte)
  BY FixedType
<1> QED BY <1>1, <1>2, <1>3, <1>4

\* The calls that read.
LEMMA ReadSteps ==
    ASSUME ByteInv, (\E n \in Nat : Read(n)) \/ ReadVarint \/ ReadString
    PROVE  ByteInv' /\ (Buffer!Get \/ Buffer!Fail)
<1>1. ~ crashed
  BY DEF Read, ReadVarint, ReadString
<1>2. ReadSize \in Nat /\ Ahead \in Seq(Cell) /\ Len(Ahead) = ReadSize
  BY <1>1, AheadFacts
<1>3. VarintLength(Ahead) \in Nat \ {0}
  BY VarintLengthType
<1>4. ASSUME NEW n \in Nat, Read(n) PROVE ByteInv' /\ (Buffer!Get \/ Buffer!Fail)
  <2>1. CASE n > ReadSize
    <3>1. ConsumeAndThrow(0) /\ 0 \in Nat /\ 0 <= ReadSize
      BY <1>2, <1>4, <2>1 DEF Read
    <3> QED BY <1>1, <3>1, ThrowStep
  <2>2. CASE ~ (n > ReadSize)
    <3>1. Consume(n, n) /\ n <= ReadSize
      BY <1>2, <1>4, <2>2 DEF Read
    <3> QED BY <1>1, <3>1, ConsumeStep
  <2> QED BY <2>1, <2>2
<1>5. ASSUME ReadVarint PROVE ByteInv' /\ (Buffer!Get \/ Buffer!Fail)
  <2>1. CASE VarintLength(Ahead) > ReadSize
    <3>1. ConsumeAndThrow(ReadSize) /\ ReadSize <= ReadSize
      BY <1>2, <1>5, <2>1 DEF ReadVarint
    <3> QED BY <1>1, <1>2, <3>1, ThrowStep
  <2>2. CASE ~ (VarintLength(Ahead) > ReadSize)
    <3>1. Consume(VarintLength(Ahead), 1) /\ VarintLength(Ahead) <= ReadSize
      BY <1>2, <1>3, <1>5, <2>2 DEF ReadVarint
    <3> QED BY <1>1, <1>3, <3>1, ConsumeStep
  <2> QED BY <2>1, <2>2
<1>6. ASSUME ReadString PROVE ByteInv' /\ (Buffer!Get \/ Buffer!Fail)
  <2> DEFINE prefix == VarintLength(Ahead)
             len == VarintValue(SubSeq(Ahead, 1, prefix))
  <2>1. IF prefix > ReadSize THEN ConsumeAndThrow(ReadSize)
        ELSE IF prefix + len > ReadSize THEN ConsumeAndThrow(prefix)
        ELSE Consume(prefix + len, len)
    BY <1>6 DEF ReadString
  <2>2. prefix \in Nat
    BY <1>3
  <2>3. CASE prefix > ReadSize
    <3>1. ConsumeAndThrow(ReadSize) /\ ReadSize <= ReadSize
      BY <1>2, <2>1, <2>3
    <3> QED BY <1>1, <1>2, <3>1, ThrowStep
  <2>4. CASE ~ (prefix > ReadSize)
    <3>1. prefix <= ReadSize
      <4> HIDE DEF prefix
      <4> QED BY <1>2, <2>2, <2>4
    <3>2. len \in Nat
      <4> HIDE DEF prefix
      <4>1. Ahead \in Seq(Byte)
        <5>1. \A i \in 1 .. Len(Ahead) : Ahead[i] \in Cell /\ Ahead[i] # Garbage
          BY <1>2, <1>6, LenProperties DEF ReadString, Initialised
        <5>2. \A i \in 1 .. Len(Ahead) : Ahead[i] \in Byte
          BY <5>1 DEF Cell
        <5>3. Len(Ahead) \in Nat /\ DOMAIN Ahead = 1 .. Len(Ahead)
              /\ Ahead = [i \in 1 .. Len(Ahead) |-> Ahead[i]]
          BY <1>2, LenProperties
        <5>4. Ahead \in [1 .. Len(Ahead) -> Byte]
          BY <5>2, <5>3
        <5> QED BY <5>3, <5>4, SeqDef
      <4>2. SubSeq(Ahead, 1, prefix) \in Seq(Byte)
        BY <1>2, <2>2, <3>1, <4>1, StartOfSeq
      <4> QED BY <4>2, VarintValueType
    <3> HIDE DEF prefix, len
    <3>3. CASE prefix + len > ReadSize
      <4>1. ConsumeAndThrow(prefix)
        BY <2>1, <2>4, <3>3
      <4> QED BY <1>1, <2>2, <3>1, <4>1, ThrowStep
    <3>4. CASE ~ (prefix + len > ReadSize)
      <4>1. Consume(prefix + len, len)
        BY <2>1, <2>4, <3>4
      <4>2. prefix + len \in Nat /\ prefix + len <= ReadSize
        BY <1>2, <2>2, <3>2, <3>4
      <4> QED BY <1>1, <4>1, <4>2, ConsumeStep
    <3> QED BY <3>3, <3>4
  <2> QED BY <2>3, <2>4
<1> QED BY <1>4, <1>5, <1>6

\* The buffers of getReadBuffers() are sent.
LEMMA SendStep ==
    ASSUME ByteInv, NEW len, NEW n \in Nat, Send(len, n)
    PROVE  ByteInv' /\ Buffer!Get
<1>1. ~ crashed /\ n > 0 /\ n <= ReadSize
  BY DEF Send
<1>2. ReadSize \in Nat /\ (m_cur = Null => ReadSize = 0)
      /\ SubSeq(Ahead, 1, n) = SubSeq(memory, m_position + 1, m_position + n)
  BY <1>1, AheadFacts
<1>3. m_cur # Null
  BY <1>1, <1>2
<1>4. /\ moved' = SubSeq(Ahead, 1, n) /\ m_position' = m_position + n
      /\ m_cur' = NodeAt(m_position', m_capacity)
      /\ UNCHANGED <<memory, m_size, m_little, record, crashed>>
  BY <1>3 DEF Send
<1> QED BY <1>1, <1>2, <1>4, GetStep

\* toString() moves nothing.
LEMMA AsStringStep ==
    ASSUME ByteInv, AsString
    PROVE  ByteInv' /\ Buffer!Peek
<1>1. ~ crashed /\ moved' = Ahead
      /\ UNCHANGED <<memory, m_position, m_size, m_cur, m_little, record, crashed>>
  BY DEF AsString
<1>2. ByteInv'
  BY <1>1 DEF ByteInv, TypeOK, CursorExact, m_capacity
<1>3. /\ memory \in Seq(Cell) /\ m_capacity = Len(memory)
      /\ m_size \in Nat /\ m_position \in Nat /\ m_position <= m_size /\ m_size <= m_capacity
  BY Layout DEF m_capacity
<1>4. Ahead = SubSeq(memory, m_position + 1, m_size)
  BY <1>1, AheadFacts
<1>5. Len(SubSeq(memory, 1, m_size)) = m_size
  BY <1>3, StartOfSeq
<1>6. SubSeq(SubSeq(memory, 1, m_size), m_position + 1, m_size)
        = SubSeq(memory, m_position + 1, m_size)
  BY <1>3, PartOfStart
<1> QED BY <1>1, <1>2, <1>4, <1>5, <1>6, Zenon DEF Buffer!Peek

\* setPosition() moves, or throws behind the capacity.
LEMMA SetPositionStep ==
    ASSUME ByteInv, NEW v \in Nat, SetPosition(v)
    PROVE  ByteInv' /\ (Buffer!Seek \/ Buffer!Fail)
<1>1. /\ ~ crashed /\ memory' = memory /\ m_little' = m_little /\ crashed' = crashed
  BY DEF SetPosition
<1>2. /\ memory \in Seq(Cell) /\ m_capacity \in Nat \ {0} /\ m_capacity = Len(memory)
      /\ m_capacity % m_baseSize = 0
      /\ m_size \in Nat /\ m_position \in Nat /\ m_position <= m_size /\ m_size <= m_capacity
  BY Layout DEF m_capacity
<1>3. m_cur = NodeAt(m_position, m_capacity) /\ m_little \in BOOLEAN /\ crashed \in BOOLEAN
  BY <1>1 DEF ByteInv, CursorExact, TypeOK
<1>4. CASE v > m_capacity
  <2>1. moved' = Thrown /\ UNCHANGED <<m_position, m_size, m_cur>>
    BY <1>4 DEF SetPosition
  <2>2. 0 \in Nat /\ 0 <= ReadSize /\ m_position + 0 = m_position
    BY <1>2 DEF ReadSize
  <2>3. m_position' = m_position + 0 /\ m_cur' = NodeAt(m_position + 0, m_capacity)
    BY <1>3, <2>1, <2>2
  <2>4. ByteInv' /\ Buffer!Fail
    BY <1>1, <1>3, <2>1, <2>2, <2>3, FailStep
  <2> QED BY <2>4
<1>5. CASE ~ (v > m_capacity)
  <2>1. /\ m_position' = v /\ m_size' = Max({m_size, v})
        /\ m_cur' = NodeAt(v, m_capacity) /\ moved' = <<>>
    BY <1>5 DEF SetPosition
  <2>2. m_size' = IF m_size < v THEN v ELSE m_size
    BY <1>2, <2>1, MaxOfTwo
  <2>3. m_capacity' = m_capacity
    BY <1>1 DEF m_capacity
  <2>4. m_size' \in Nat /\ m_position' <= m_size' /\ m_size <= m_size' /\ m_size' <= m_capacity'
    BY <1>2, <1>5, <2>1, <2>2, <2>3
  <2>5. ByteInv'
    <3>1. memory' \in Seq(Cell) /\ m_capacity' % m_baseSize = 0 /\ m_capacity' # 0
      BY <1>1, <1>2, <2>3
    <3>2. m_position' \in Nat /\ m_little' \in BOOLEAN /\ crashed' \in BOOLEAN /\ ~ crashed'
      BY <1>1, <1>3, <2>1
    <3>3. m_cur' = NodeAt(m_position', m_capacity')
      BY <2>1, <2>3
    <3> QED BY <2>4, <3>1, <3>2, <3>3, InvAfter
  <2>6. Len(SubSeq(memory, 1, m_size)) = m_size
    BY <1>2, StartOfSeq
  <2>7. CASE v <= m_size
    <3>1. m_size' = m_size
      BY <1>2, <2>2, <2>7
    <3>2. SubSeq(memory', 1, m_size') = SubSeq(memory, 1, m_size)
      BY <1>1, <3>1
    <3> QED BY <2>1, <2>5, <2>6, <2>7, <3>2 DEF Buffer!Seek
  <2>8. CASE ~ (v <= m_size)
    <3>1. m_size' = v
      BY <1>2, <2>2, <2>8
    <3>2. v <= Len(memory) /\ m_size <= v
      BY <1>2, <1>5, <2>8
    <3>3. Len(SubSeq(memory, 1, v)) = v
      BY <1>2, <3>2, StartOfSeq
    <3>4. SubSeq(SubSeq(memory, 1, v), 1, m_size) = SubSeq(memory, 1, m_size)
      <4>1. SubSeq(SubSeq(memory, 1, v), 0 + 1, m_size) = SubSeq(memory, 0 + 1, m_size)
        BY <1>2, <3>2, PartOfStart
      <4>2. 0 + 1 = 1
        OBVIOUS
      <4> QED BY <4>1, <4>2, Zenon
    <3>5. SubSeq(memory', 1, m_size') = SubSeq(memory, 1, v)
      BY <1>1, <3>1
    <3> QED BY <2>1, <2>5, <2>6, <2>8, <3>3, <3>4, <3>5, Zenon DEF Buffer!Seek
  <2> QED BY <2>7, <2>8
<1> QED BY <1>4, <1>5

\* clear() keeps the first node.
LEMMA ClearStep ==
    ASSUME ByteInv, Clear
    PROVE  ByteInv' /\ Buffer!Clear
<1>1. /\ memory' = SubSeq(memory, 1, m_baseSize)
      /\ m_position' = 0 /\ m_size' = 0 /\ m_cur' = 1 /\ moved' = <<>>
      /\ m_little' = m_little /\ crashed' = crashed /\ ~ crashed
  BY DEF Clear
<1>2. /\ m_baseSize \in Nat \ {0}
      /\ memory \in Seq(Cell) /\ m_capacity \in Nat \ {0} /\ m_capacity = Len(memory)
      /\ m_capacity % m_baseSize = 0
  BY Layout DEF m_capacity
<1>3. m_baseSize <= m_capacity
  <2>1. CASE m_capacity < m_baseSize
    <3>1. m_capacity % m_baseSize = m_capacity
      BY <1>2, <2>1
    <3> QED BY <1>2, <3>1
  <2>2. CASE ~ (m_capacity < m_baseSize)
    BY <1>2, <2>2
  <2> QED BY <2>1, <2>2
<1>4. memory' \in Seq(Cell) /\ m_capacity' = m_baseSize
  <2>1. SubSeq(memory, 1, m_baseSize) \in Seq(Cell) /\ Len(SubSeq(memory, 1, m_baseSize)) = m_baseSize
    BY <1>2, <1>3, StartOfSeq
  <2> QED BY <1>1, <2>1 DEF m_capacity
<1>5. ByteInv'
  <2>1. 0 \div m_baseSize = 0 /\ ~ (0 >= m_baseSize)
    BY <1>2
  <2>2. NodeAt(0, m_baseSize) = 1
    BY <2>1 DEF NodeAt
  <2>3. m_baseSize % m_baseSize = 0
    BY <1>2
  <2>4. m_little' \in BOOLEAN /\ crashed' \in BOOLEAN /\ ~ crashed'
    BY <1>1 DEF ByteInv, TypeOK
  <2>5. m_cur' = NodeAt(m_position', m_capacity')
    BY <1>1, <1>4, <2>2
  <2>6. m_size' \in Nat /\ m_position' \in Nat /\ m_position' <= m_size' /\ m_size' <= m_capacity'
    BY <1>1, <1>2, <1>4
  <2>7. m_capacity' % m_baseSize = 0 /\ m_capacity' # 0
    BY <1>2, <1>4, <2>3
  <2> QED BY <1>4, <2>4, <2>5, <2>6, <2>7, InvAfter
<1>6. SubSeq(memory', 1, m_size') = <<>>
  <2>1. SubSeq(memory', 1, 0) = <<>>
    BY SubSeqEmpty
  <2> QED BY <1>1, <2>1
<1> QED BY <1>1, <1>5, <1>6 DEF Buffer!Clear

\* Every step keeps the invariant and is a step of the buffer.
LEMMA NextByteInv ==
    ASSUME ByteInv, [Next]_vars
    PROVE  ByteInv' /\ [Buffer!Next]_(Buffer!bufferVars)
<1> USE DEF Buffer!Next
<1>1. ASSUME NEW s \in Strings, Write(s) \/ WriteString(s)
      PROVE  ByteInv' /\ Buffer!Put
  <2>1. WriteBytes(s) \/ WriteBytes(Varint(Len(s)) \o s)
    BY <1>1 DEF Write, WriteString, WriteTyped
  <2> QED BY <2>1, WriteStep, WritesAreBytes
<1>2. ASSUME NEW v \in Values, WriteInt(v) PROVE ByteInv' /\ Buffer!Put
  BY <1>2, WriteStep, WritesAreBytes DEF WriteInt, WriteTyped
<1>3. ASSUME NEW u \in Values \cap UInt, WriteUint(u) PROVE ByteInv' /\ Buffer!Put
  BY <1>3, WriteStep, WritesAreBytes DEF WriteUint, WriteTyped
<1>4. ASSUME NEW u \in Values \cap Word, WriteFixed(u) PROVE ByteInv' /\ Buffer!Put
  <2>1. m_little \in BOOLEAN
    BY DEF ByteInv, TypeOK
  <2> QED BY <1>4, <2>1, WriteStep, WritesAreBytes DEF WriteFixed, WriteTyped
<1>5. ASSUME NEW len \in 1 .. MaxCapacity, NEW s \in Strings, Recv(len, s)
      PROVE  ByteInv' /\ Buffer!Put
  BY <1>5, RecvStep, ByteArrayConstants
<1>6. ASSUME NEW n \in 0 .. MaxCapacity + 1, Read(n) \/ SetPosition(n)
      PROVE  ByteInv' /\ Buffer!Next
  <2>1. n \in Nat
    BY ByteArrayConstants
  <2> QED BY <1>6, <2>1, ReadSteps, SetPositionStep
<1>7. ASSUME ReadVarint \/ ReadString PROVE ByteInv' /\ Buffer!Next
  BY <1>7, ReadSteps
<1>8. ASSUME AsString PROVE ByteInv' /\ Buffer!Next
  BY <1>8, AsStringStep
<1>9. ASSUME NEW len \in 1 .. MaxCapacity, NEW n \in 1 .. MaxCapacity, Send(len, n)
      PROVE  ByteInv' /\ Buffer!Next
  BY <1>9, SendStep, ByteArrayConstants
<1>10. ASSUME Clear PROVE ByteInv' /\ Buffer!Next
  BY <1>10, ClearStep
<1>11. ASSUME NEW val \in BOOLEAN, SetIsLittleEndian(val)
       PROVE  ByteInv' /\ UNCHANGED Buffer!bufferVars
  BY <1>11 DEF SetIsLittleEndian, ByteInv, TypeOK, CursorExact, m_capacity, Buffer!bufferVars
<1>12. ASSUME UNCHANGED vars PROVE ByteInv' /\ UNCHANGED Buffer!bufferVars
  BY <1>12 DEF vars, ByteInv, TypeOK, CursorExact, m_capacity, Buffer!bufferVars
<1> QED BY <1>1, <1>2, <1>3, <1>4, <1>5, <1>6, <1>7, <1>8, <1>9, <1>10, <1>11, <1>12 DEF Next

\* The cursor is at the node of the position after any calls in any order, in nodes of
\* any size: the loops of read() and write() start where they should, and the null
\* pointer is followed only once all the capacity has been read.
THEOREM CursorExactHolds == Spec => []CursorExact
<1>1. Spec => []ByteInv
  BY InitByteInv, NextByteInv, PTL DEF Spec
<1>2. ByteInv => CursorExact
  BY DEF ByteInv
<1> QED BY <1>1, <1>2, PTL

\* A ByteArray over its nodes is the plain run of bytes, whatever the size of a node
\* and whatever is written.
THEOREM ImplementsBufferHolds == Spec => ImplementsBuffer
<1>1. Init => ByteInv /\ Buffer!Init
  BY InitByteInv
<1>2. ByteInv /\ [Next]_vars => ByteInv' /\ [Buffer!Next]_(Buffer!bufferVars)
  BY NextByteInv
<1> QED BY <1>1, <1>2, PTL DEF Spec, ImplementsBuffer, Buffer!Spec

-----------------------------------------------------------------------------
(* What was written is read back.                                          *)

\* The quotient and the rest are the only ones.
LEMMA DivisionExact ==
    ASSUME NEW b \in Nat, NEW m \in Nat \ {0}, NEW t \in 0 .. m - 1
    PROVE  (b * m + t) % m = t /\ (b * m + t) \div m = b
<1>1. PICK x \in Nat : x = b * m + t
  OBVIOUS
<1>2. PICK q \in Nat, r \in 0 .. m - 1 : q = x \div m /\ r = x % m /\ x = q * m + r
  BY Division
<1>3. ~ (q < b)
  <2> SUFFICES ASSUME q < b PROVE FALSE
    OBVIOUS
  <2>1. PICK d \in Nat : b = q + 1 + d
    <3>1. b - q - 1 \in Nat /\ b = q + 1 + (b - q - 1)
      OBVIOUS
    <3> QED BY <3>1
  <2>2. b * m = q * m + m + d * m /\ d * m \in Nat
    BY <2>1
  <2> QED BY <1>1, <1>2, <2>2
<1>4. ~ (b < q)
  <2> SUFFICES ASSUME b < q PROVE FALSE
    OBVIOUS
  <2>1. PICK d \in Nat : q = b + 1 + d
    <3>1. q - b - 1 \in Nat /\ q = b + 1 + (q - b - 1)
      OBVIOUS
    <3> QED BY <3>1
  <2>2. q * m = b * m + m + d * m /\ d * m \in Nat
    BY <2>1
  <2> QED BY <1>1, <1>2, <2>2
<1>5. q = b
  BY <1>3, <1>4
<1>6. r = t
  BY <1>1, <1>2, <1>5
<1> QED BY <1>1, <1>2, <1>5, <1>6

\* The lower digits and the next one.
LEMMA NextDigit ==
    ASSUME NEW u \in Nat, NEW p \in Nat \ {0}, NEW q \in Nat \ {0}
    PROVE  u % (p * q) = (u % p) + ((u \div p) % q) * p
<1>1. PICK a \in Nat, r \in 0 .. p - 1 : a = u \div p /\ r = u % p /\ u = a * p + r
  BY Division
<1>2. PICK b \in Nat, s \in 0 .. q - 1 : b = a \div q /\ s = a % q /\ a = b * q + s
  BY Division
<1>3. PICK m \in Nat \ {0} : m = p * q
  OBVIOUS
<1>4. PICK t \in Nat : t = s * p + r
  OBVIOUS
<1>5. t < m
  <2>1. PICK d \in Nat : q = s + 1 + d
    <3>1. q - s - 1 \in Nat /\ q = s + 1 + (q - s - 1)
      OBVIOUS
    <3> QED BY <3>1
  <2>2. m = s * p + p + d * p /\ d * p \in Nat
    BY <1>3, <2>1
  <2> QED BY <1>1, <1>4, <2>2
<1>6. u = b * m + t
  <2>1. (b * q + s) * p = (b * q) * p + s * p
    OBVIOUS
  <2>2. (b * q) * p = b * (p * q)
    OBVIOUS
  <2>3. a * p = b * m + s * p
    <3>1. a * p = (b * q + s) * p
      BY <1>2
    <3> QED BY <1>3, <2>1, <2>2, <3>1
  <2> QED BY <1>1, <1>4, <2>3
<1>7. u % m = t
  BY <1>5, <1>6, DivisionExact
<1> QED BY <1>1, <1>2, <1>3, <1>4, <1>7

\* What lies in the bytes of a varint: the groups of u, the lowest first.
VarintOf(bytes, u, g) ==
    /\ g \in 1 .. Width /\ g <= (Width + Bits - 1) \div Bits /\ u < 2 ^ (Bits * g)
    /\ bytes \in Seq(Byte) /\ Len(bytes) = g
    /\ \A k \in 1 .. g :
          bytes[k] = ((u \div 2 ^ (Bits * (k - 1))) % 2 ^ Bits) + IF k < g THEN 2 ^ Bits ELSE 0

\* An integer is written so, in as few bytes as it needs.
LEMMA VarintGroups ==
    ASSUME NEW u \in UInt
    PROVE  \E g : VarintOf(Varint(u), u, g)
<1> DEFINE K == {k \in 1 .. Width : u < 2 ^ (Bits * k)}
           most == (Width + Bits - 1) \div Bits
           E(k, g) == ((u \div 2 ^ (Bits * (k - 1))) % 2 ^ Bits) + IF k < g THEN 2 ^ Bits ELSE 0
<1>c. Bits \in Nat \ {0} /\ Width \in Nat \ {0}
  BY ByteArrayConstants
<1>1. u \in Nat /\ u < 2 ^ Width
  BY ByteIsInt DEF UInt
<1>2. most \in K
  <2>1. PICK q \in Nat, r \in 0 .. Bits - 1 : q = most /\ Width + Bits - 1 = q * Bits + r
    BY <1>c
  <2>2. Width <= q * Bits
    BY <1>c, <2>1
  <2>3. q # 0
    BY <1>c, <2>2
  <2>4. q <= Width
    <3> SUFFICES ASSUME Width < q PROVE FALSE
      BY <1>c
    <3>1. PICK d \in Nat : q = Width + 1 + d
      <4>1. q - Width - 1 \in Nat /\ q = Width + 1 + (q - Width - 1)
        BY <1>c
      <4> QED BY <4>1
    <3>2. q * Bits = Width * Bits + Bits + d * Bits /\ d * Bits \in Nat
      BY <1>c, <3>1
    <3>3. Width <= Width * Bits
      BY <1>c
    <3> QED BY <1>c, <2>1, <3>2, <3>3
  <2>5. Bits * q \in Nat /\ Width <= Bits * q
    BY <1>c, <2>2
  <2>6. 2 ^ Width <= 2 ^ (Bits * q) /\ 2 ^ Width \in Nat /\ 2 ^ (Bits * q) \in Nat
    BY <1>c, <2>5, PowerGrows, PowerNat
  <2>7. u < 2 ^ (Bits * q)
    BY <1>1, <2>6
  <2> HIDE DEF most
  <2> QED BY <1>c, <2>1, <2>3, <2>4, <2>7
<1>3. PICK g : g = Min(K)
  OBVIOUS
<1>4. g \in K /\ g <= most
  <2>1. K \in SUBSET Nat /\ K # {}
    BY <1>2
  <2> HIDE DEF K
  <2> QED BY <1>2, <1>3, <2>1, LowestFree
<1>5. Varint(u) = [k \in 1 .. g |-> E(k, g)]
  BY <1>3 DEF Varint
<1>6. Varint(u) \in Seq(Byte)
  BY VarintType
<1> HIDE DEF E
<1>7. g \in Nat /\ DOMAIN Varint(u) = 1 .. g /\ \A k \in 1 .. g : Varint(u)[k] = E(k, g)
  BY <1>4, <1>5
<1>8. Len(Varint(u)) = g
  BY <1>6, <1>7, LenProperties
<1> QED BY <1>4, <1>6, <1>7, <1>8 DEF VarintOf, E


\* readUint32() asks for as many bytes as were written, whatever lies behind them.
LEMMA VarintLengthBack ==
    ASSUME NEW u \in UInt, NEW varint, NEW g, VarintOf(varint, u, g),
           NEW bytes, Len(bytes) \in Nat, g <= Len(bytes), \A k \in 1 .. g : bytes[k] = varint[k]
    PROVE  VarintLength(bytes) = g
<1> DEFINE most == (Width + Bits - 1) \div Bits
           Ends(k) == k = most \/ k > Len(bytes) \/ bytes[k] < 2 ^ Bits
<1>c. Bits \in Nat \ {0} /\ Width \in Nat \ {0}
  BY ByteArrayConstants
<1>1. u \in Nat
  BY ByteIsInt DEF UInt
<1>2. PICK q \in Nat \ {0} : q = 2 ^ Bits
  BY ByteIsInt
<1>m. PICK top \in Nat : top = most
  BY <1>c
<1>3. g \in 1 .. Width /\ g <= top
  BY <1>m DEF VarintOf
<1>4. ASSUME NEW k \in 1 .. g
      PROVE  \E d \in 0 .. q - 1 : bytes[k] = d + IF k < g THEN q ELSE 0
  <2>1. Bits * (k - 1) \in Nat
    BY <1>c, <1>3
  <2>2. PICK p \in Nat \ {0} : p = 2 ^ (Bits * (k - 1))
    BY <2>1, PowerNat
  <2>3. u \div p \in Nat
    BY <1>1
  <2>4. PICK d \in 0 .. q - 1 : d = (u \div p) % q
    BY <2>3
  <2>5. bytes[k] = ((u \div p) % q) + IF k < g THEN q ELSE 0
    BY <1>2, <2>2 DEF VarintOf
  <2> QED BY <2>4, <2>5
<1>5. Ends(g)
  BY <1>2, <1>3, <1>4
<1>6. \A k \in 1 .. g - 1 : ~ Ends(k)
  <2> SUFFICES ASSUME NEW k \in 1 .. g - 1 PROVE ~ Ends(k)
    OBVIOUS
  <2>1. k \in 1 .. g /\ k < g
    BY <1>3
  <2>2. PICK d \in 0 .. q - 1 : bytes[k] = d + q
    BY <1>4, <2>1
  <2> QED BY <1>2, <1>3, <1>m, <2>1, <2>2
<1>7. VarintLength(bytes) = CHOOSE k \in 1 .. top : Ends(k) /\ \A j \in 1 .. k - 1 : ~ Ends(j)
  BY <1>m DEF VarintLength
<1> HIDE DEF Ends
<1>8. g \in 1 .. top
  BY <1>3
<1>9. \A k \in 1 .. top : Ends(k) /\ (\A j \in 1 .. k - 1 : ~ Ends(j)) => k = g
  <2> SUFFICES ASSUME NEW k \in 1 .. top, Ends(k), \A j \in 1 .. k - 1 : ~ Ends(j)
               PROVE  k = g
    OBVIOUS
  <2>1. ~ (k < g)
    BY <1>3, <1>6
  <2>2. ~ (g < k)
    BY <1>3, <1>5
  <2> QED BY <1>3, <2>1, <2>2
<1> QED BY <1>5, <1>6, <1>7, <1>8, <1>9

\* What readUint32() makes of the groups of u is u.
LEMMA VarintValueBack ==
    ASSUME NEW u \in UInt, NEW bytes, NEW g, VarintOf(bytes, u, g)
    PROVE  VarintValue(bytes) = u
<1>c. Bits \in Nat \ {0} /\ Width \in Nat \ {0}
  BY ByteArrayConstants
<1>1. u \in Nat /\ u < 2 ^ Width
  BY ByteIsInt DEF UInt
<1>2. PICK q \in Nat \ {0} : q = 2 ^ Bits
  BY ByteIsInt
<1>3. g \in Nat \ {0} /\ Len(bytes) = g /\ bytes \in Seq(Byte)
  BY <1>c DEF VarintOf
<1>4. PICK f : VarintSum(bytes, f) /\ VarintValue(bytes) = f[g] % 2 ^ Width
  BY <1>3, VarintSums
<1> DEFINE S == {k \in Nat : k <= g => f[k] = u % 2 ^ (Bits * k)}
<1>5. 0 \in S
  <2>1. Bits * 0 = 0 /\ 2 ^ 0 = 1 /\ u % 1 = 0
    BY <1>c, <1>1
  <2>2. f[0] = 0
    BY <1>4 DEF VarintSum
  <2>3. u % 2 ^ (Bits * 0) = 0
    BY <2>1, Zenon
  <2> QED BY <2>2, <2>3
<1>6. ASSUME NEW k \in S PROVE k + 1 \in S
  <2> SUFFICES ASSUME k + 1 <= g PROVE f[k + 1] = u % 2 ^ (Bits * (k + 1))
    OBVIOUS
  <2>0. k \in Nat /\ k + 1 \in 1 .. g /\ (k + 1) - 1 = k /\ f[k] = u % 2 ^ (Bits * k)
    BY <1>3
  <2>1. Bits * k \in Nat
    BY <1>c, <2>0
  <2>2. PICK p \in Nat \ {0} : p = 2 ^ (Bits * k)
    BY <2>1, PowerNat
  <2>3. f[k + 1] = f[k] + VarintTerm(bytes, k + 1)
    BY <1>3, <1>4, <2>0 DEF VarintSum
  <2>4. PICK d \in 0 .. q - 1 : d = (u \div p) % q
    <3>1. u \div p \in Nat
      BY <1>1
    <3> QED BY <3>1
  <2>5. bytes[k + 1] = d + IF k + 1 < g THEN q ELSE 0
    <3>1. bytes[k + 1] = ((u \div 2 ^ (Bits * ((k + 1) - 1))) % 2 ^ Bits)
                            + IF k + 1 < g THEN 2 ^ Bits ELSE 0
      BY <2>0 DEF VarintOf
    <3>2. 2 ^ (Bits * ((k + 1) - 1)) = p
      BY <2>0, <2>2, Zenon
    <3> QED BY <1>2, <2>4, <3>1, <3>2
  <2>6. bytes[k + 1] % q = d
    <3>1. (0 * q + d) % q = d /\ (1 * q + d) % q = d
      BY DivisionExact
    <3>2. 0 * q + d = d /\ 1 * q + d = d + q
      OBVIOUS
    <3>3. d % q = d /\ (d + q) % q = d
      BY <3>1, <3>2, Zenon
    <3>4. bytes[k + 1] = d \/ bytes[k + 1] = d + q
      BY <2>5
    <3> QED BY <3>3, <3>4
  <2>7. VarintTerm(bytes, k + 1) = d * p
    <3>1. VarintTerm(bytes, k + 1) = (bytes[k + 1] % 2 ^ Bits) * 2 ^ (Bits * ((k + 1) - 1))
      BY Zenon DEF VarintTerm
    <3>2. 2 ^ (Bits * ((k + 1) - 1)) = p
      BY <2>0, <2>2, Zenon
    <3> QED BY <1>2, <2>6, <3>1, <3>2, Zenon
  <2>8. 2 ^ (Bits * (k + 1)) = p * q
    <3>1. Bits * (k + 1) = Bits * k + Bits
      BY <1>c, <2>0
    <3>2. 2 ^ (Bits * k + Bits) = 2 ^ (Bits * k) * 2 ^ Bits
      BY <1>c, <2>1, PowerSum
    <3> QED BY <1>2, <2>2, <3>1, <3>2, Zenon
  <2>9. u % (p * q) = (u % p) + ((u \div p) % q) * p
    BY <1>1, NextDigit
  <2>10. u % (p * q) = (u % p) + d * p
    BY <2>4, <2>9, Zenon
  <2>11. f[k + 1] = (u % p) + d * p
    BY <2>0, <2>2, <2>3, <2>7, Zenon
  <2> QED BY <2>8, <2>10, <2>11, Zenon
<1>7. f[g] = u % 2 ^ (Bits * g)
  <2>1. S \in SUBSET Nat
    OBVIOUS
  <2> HIDE DEF S
  <2>2. S = Nat
    BY <1>5, <1>6, <2>1, Counting
  <2> QED BY <1>3, <2>2 DEF S
<1>8. \A m \in Nat \ {0} : u < m => u % m = u
  BY <1>1
<1>9. u % 2 ^ (Bits * g) = u
  <2>1. Bits * g \in Nat /\ u < 2 ^ (Bits * g)
    BY <1>c, <1>3 DEF VarintOf
  <2> QED BY <1>8, <2>1, PowerNat
<1>10. u % 2 ^ Width = u
  BY <1>1, <1>8, ByteIsInt
<1> QED BY <1>4, <1>7, <1>9, <1>10, Zenon


\* Zigzag keeps apart what it maps.
LEMMA ZigzagBack ==
    ASSUME NEW v \in SInt
    PROVE  DecodeZigzag(EncodeZigzag(v)) = v
<1>1. Width - 1 \in Nat /\ (Width - 1) + 1 = Width
  BY ByteArrayConstants
<1>2. PICK h \in Nat \ {0} : h = 2 ^ (Width - 1)
  BY <1>1, PowerNat
<1>3. 2 ^ Width = 2 * h
  BY <1>1, <1>2, PowerNext
<1>4. v \in Int /\ -h <= v /\ v <= h - 1
  BY <1>2 DEF SInt
<1>5. PICK e \in Nat : e = IF v < 0 THEN -v * 2 - 1 ELSE v * 2
  BY <1>4
<1>6. e < 2 * h
  BY <1>4, <1>5
<1>7. e % (2 * h) = e
  BY <1>6
<1>8. EncodeZigzag(v) = e
  BY <1>3, <1>5, <1>7 DEF EncodeZigzag
<1>9. DecodeZigzag(e) = IF e % 2 = 0 THEN e \div 2 ELSE -(e \div 2) - 1
  BY DEF DecodeZigzag
<1>10. CASE v < 0
  <2>1. e = -v * 2 - 1 /\ e % 2 = 1 /\ e \div 2 = -v - 1
    BY <1>4, <1>5, <1>10
  <2> QED BY <1>4, <1>8, <1>9, <2>1
<1>11. CASE ~ (v < 0)
  <2>1. e = v * 2 /\ e % 2 = 0 /\ e \div 2 = v
    BY <1>4, <1>5, <1>11
  <2> QED BY <1>8, <1>9, <2>1
<1> QED BY <1>10, <1>11

\* Two bytes in the other order.
LEMMA ReverseTwo ==
    ASSUME NEW D, NEW a \in D, NEW b \in D
    PROVE  Reverse(<<a, b>>) = <<b, a>>
BY DEF Reverse

\* The bytes of an integer of fixed width give it back in the order they were written in.
LEMMA FixedBack ==
    ASSUME NEW u \in Word, NEW little \in BOOLEAN
    PROVE  Len(Fixed(u, little)) = 2 /\ FixedValue(Fixed(u, little), little) = u
<1>c. Bits \in Nat \ {0} /\ LittleHost \in BOOLEAN
  BY ByteArrayConstants
<1>1. PICK q \in Nat \ {0} : q = 2 ^ (Bits + 1)
  <2>1. Bits + 1 \in Nat
    BY <1>c
  <2> QED BY <2>1, PowerNat
<1>2. u \in Nat
  <2>1. 2 * (Bits + 1) \in Nat
    BY <1>c
  <2>2. 2 ^ (2 * (Bits + 1)) \in Nat
    BY <2>1, PowerNat
  <2> QED BY <2>2 DEF Word
<1>3. PICK high \in Nat, low \in 0 .. q - 1 : high = u \div q /\ low = u % q /\ u = high * q + low
  BY <1>2, Division
<1>4. Reverse(<<low, high>>) = <<high, low>> /\ Reverse(<<high, low>>) = <<low, high>>
  <2>1. low \in Nat /\ high \in Nat
    OBVIOUS
  <2> QED BY <2>1, ReverseTwo
<1>5. Fixed(u, little) = LET inHostOrder == IF LittleHost THEN <<low, high>> ELSE <<high, low>>
                         IN  IF little = LittleHost THEN inHostOrder ELSE Reverse(inHostOrder)
  BY <1>1, <1>3 DEF Fixed
<1>6. Fixed(u, little) = IF little THEN <<low, high>> ELSE <<high, low>>
  BY <1>c, <1>4, <1>5
<1>7. \A bytes : FixedValue(bytes, little)
                   = LET inHostOrder == IF little = LittleHost THEN bytes ELSE Reverse(bytes)
                     IN  IF LittleHost THEN inHostOrder[1] + inHostOrder[2] * q
                                       ELSE inHostOrder[2] + inHostOrder[1] * q
  BY <1>1 DEF FixedValue
<1>8. FixedValue(Fixed(u, little), little) = low + high * q
  BY <1>c, <1>4, <1>6, <1>7
<1>9. Len(Fixed(u, little)) = 2
  BY <1>6
<1> QED BY <1>3, <1>8, <1>9

-----------------------------------------------------------------------------
(* The record of the last typed call.                                      *)

\* What a typed call writes for a value.
Encodes(bytes, kind, value, little) ==
    \/ kind = "int" /\ value \in SInt /\ bytes = Varint(EncodeZigzag(value))
    \/ kind = "uint" /\ value \in UInt /\ bytes = Varint(value)
    \/ kind = "fixed" /\ value \in Word /\ little \in BOOLEAN /\ bytes = Fixed(value, little)
    \/ /\ kind = "string" /\ value \in Seq(Byte) /\ Len(value) \in UInt
       /\ bytes = Varint(Len(value)) \o value

\* The bytes are in the content from the place of the record on.
Holds(mem, size, at_, bytes) ==
    /\ at_ \in Nat /\ at_ + Len(bytes) <= size
    /\ \A i \in 1 .. Len(bytes) : mem[at_ + i] = bytes[i]

\* What the record tells lies where it was written, in the bytes that stand for its value.
RecordInv ==
    record # NoRecord =>
        \E bytes \in Seq(Byte) :
            /\ Encodes(bytes, record.kind, record.value, record.little)
            /\ record.length = Len(bytes)
            /\ Holds(memory, m_size, record.at, bytes)

\* The first bytes of the content from the place of the record on.
LEMMA StartOfRecord ==
    ASSUME NEW mem \in Seq(Cell), NEW size \in Nat, size <= Len(mem), NEW at_ \in Nat,
           NEW n \in Nat, at_ + n <= size, NEW s \in Seq(Byte), Len(s) = n,
           \A i \in 1 .. n : mem[at_ + i] = s[i]
    PROVE  SubSeq(SubSeq(mem, at_ + 1, size), 1, n) = s
<1>1. PICK t : t = SubSeq(mem, at_ + 1, size)
  BY Zenon
<1>2. at_ <= size
  OBVIOUS
<1>3. t \in Seq(Cell) /\ Len(t) = size - at_ /\ \A i \in 1 .. size - at_ : t[i] = mem[at_ + i]
  <2>1. /\ SubSeq(mem, at_ + 1, size) \in Seq(Cell)
        /\ Len(SubSeq(mem, at_ + 1, size)) = size - at_
        /\ \A i \in 1 .. size - at_ : SubSeq(mem, at_ + 1, size)[i] = mem[at_ + i]
    BY <1>2, PartOfSeq
  <2> QED BY <1>1, <2>1, Zenon
<1>4. PICK r : r = SubSeq(t, 1, n)
  BY Zenon
<1>5. n <= Len(t)
  BY <1>3
<1>6. r \in Seq(Cell) /\ Len(r) = n /\ \A i \in 1 .. n : r[i] = t[i]
  BY <1>3, <1>4, <1>5, StartOfSeq
<1>7. \A i \in 1 .. n : r[i] = s[i]
  <2> SUFFICES ASSUME NEW i \in 1 .. n PROVE r[i] = s[i]
    OBVIOUS
  <2>1. i \in 1 .. size - at_
    OBVIOUS
  <2> QED BY <1>3, <1>6, <2>1
<1>8. s \in Seq(Cell)
  <2>1. Byte \subseteq Cell
    BY DEF Cell
  <2> QED BY <2>1, SeqMonotonic
<1>9. r = s
  BY <1>6, <1>7, <1>8, SeqEqual
<1> QED BY <1>1, <1>4, <1>9


\* The bytes begin with the varint of u, and are read as that.
VarintIsBack(bytes, varint, u) ==
    /\ VarintLength(bytes) = Len(varint) /\ SubSeq(bytes, 1, Len(varint)) = varint
    /\ VarintValue(varint) = u

\* A varint is found at the place where it was put, with its length and its value.
LEMMA VarintBack ==
    ASSUME NEW u \in UInt, NEW mem \in Seq(Cell), NEW size \in Nat, size <= Len(mem),
           NEW at_ \in Nat, NEW varint, varint = Varint(u), Holds(mem, size, at_, varint)
    PROVE  VarintIsBack(SubSeq(mem, at_ + 1, size), varint, u)
<1>1. PICK n : VarintOf(varint, u, n)
  BY VarintGroups
<1>b. PICK bytes : bytes = SubSeq(mem, at_ + 1, size)
  OBVIOUS
<1>2. /\ n \in Nat /\ varint \in Seq(Byte) /\ Len(varint) = n
      /\ at_ + n <= size /\ \A i \in 1 .. n : mem[at_ + i] = varint[i]
  BY <1>1, ByteArrayConstants DEF VarintOf, Holds
<1>3. VarintValue(varint) = u
  BY <1>1, VarintValueBack
<1>4. SubSeq(bytes, 1, n) = varint
  BY <1>2, <1>b, StartOfRecord
<1>5. at_ <= size
  BY <1>2
<1>6. bytes \in Seq(Cell) /\ Len(bytes) = size - at_ /\ \A i \in 1 .. size - at_ : bytes[i] = mem[at_ + i]
  BY <1>5, <1>b, PartOfSeq
<1>7. Len(bytes) \in Nat /\ n <= Len(bytes)
  BY <1>2, <1>6
<1>8. \A k \in 1 .. n : bytes[k] = varint[k]
  <2> SUFFICES ASSUME NEW k \in 1 .. n PROVE bytes[k] = varint[k]
    OBVIOUS
  <2>1. k \in 1 .. size - at_
    BY <1>2
  <2> QED BY <1>2, <1>6, <2>1
<1>9. VarintLength(bytes) = n
  BY <1>1, <1>7, <1>8, VarintLengthBack
<1> QED BY <1>2, <1>3, <1>4, <1>9, <1>b DEF VarintIsBack

\* What the calls that read make of the record.
LEMMA RecordReadsBack ==
    ASSUME ByteInv, RecordInv
    PROVE  ReadsBack
<1> SUFFICES ASSUME record # NoRecord PROVE ReadsBack
  BY DEF ReadsBack
<1>1. PICK written \in Seq(Byte) :
         /\ Encodes(written, record.kind, record.value, record.little)
         /\ Holds(memory, m_size, record.at, written)
  BY DEF RecordInv
<1>2. memory \in Seq(Cell) /\ m_size \in Nat /\ m_size <= Len(memory)
  BY Layout DEF m_capacity
<1>3. PICK bytes : bytes = SubSeq(memory, record.at + 1, m_size)
  OBVIOUS
<1>4. PICK prefix : prefix = SubSeq(bytes, 1, VarintLength(bytes))
  OBVIOUS
<1>5. PICK at_ \in Nat : at_ = record.at
  BY <1>1 DEF Holds
<1>b. bytes = SubSeq(memory, at_ + 1, m_size)
  BY <1>3, <1>5
<1>h. Holds(memory, m_size, at_, written)
  BY <1>1, <1>5
<1>6. /\ at_ + Len(written) <= m_size
      /\ \A i \in 1 .. Len(written) : memory[at_ + i] = written[i]
  BY <1>h DEF Holds
<1>7. Len(written) \in Nat
  BY LenProperties
<1>8. ASSUME NEW u \in UInt, written = Varint(u)
      PROVE  prefix = Varint(u) /\ VarintValue(prefix) = u
  <2>1. VarintIsBack(bytes, written, u)
    BY <1>2, <1>b, <1>h, <1>8, VarintBack
  <2> QED BY <1>4, <1>8, <2>1 DEF VarintIsBack
<1>r. ReadsBack = ((CASE record.kind = "int"    -> DecodeZigzag(VarintValue(prefix))
                      [] record.kind = "uint"   -> VarintValue(prefix)
                      [] record.kind = "fixed"  -> FixedValue(SubSeq(bytes, 1, 2), record.little)
                      [] record.kind = "string" ->
                            SubSeq(bytes, Len(prefix) + 1, Len(prefix) + VarintValue(prefix)))
                     = record.value)
  BY <1>3, <1>4 DEF ReadsBack
<1>9. CASE record.kind = "int" /\ record.value \in SInt /\ written = Varint(EncodeZigzag(record.value))
  <2>1. EncodeZigzag(record.value) \in UInt
    BY <1>9, EncodeZigzagType
  <2>2. VarintValue(prefix) = EncodeZigzag(record.value)
    BY <1>8, <1>9, <2>1
  <2>3. DecodeZigzag(EncodeZigzag(record.value)) = record.value
    BY <1>9, ZigzagBack
  <2> QED BY <1>9, <1>r, <2>2, <2>3
<1>10. CASE record.kind = "uint" /\ record.value \in UInt /\ written = Varint(record.value)
  <2>1. VarintValue(prefix) = record.value
    BY <1>8, <1>10
  <2> QED BY <1>10, <1>r, <2>1
<1>11. CASE /\ record.kind = "fixed" /\ record.value \in Word /\ record.little \in BOOLEAN
            /\ written = Fixed(record.value, record.little)
  <2>1. Len(written) = 2 /\ FixedValue(written, record.little) = record.value
    BY <1>11, FixedBack
  <2>2. SubSeq(bytes, 1, 2) = written
    <3>1. SubSeq(SubSeq(memory, at_ + 1, m_size), 1, Len(written)) = written
      BY <1>2, <1>6, <1>7, StartOfRecord
    <3> QED BY <1>b, <2>1, <3>1
  <2> QED BY <1>11, <1>r, <2>1, <2>2
<1>12. CASE /\ record.kind = "string" /\ record.value \in Seq(Byte) /\ Len(record.value) \in UInt
            /\ written = Varint(Len(record.value)) \o record.value
  <2>1. PICK s \in Seq(Byte) : s = record.value /\ Len(s) \in UInt
    BY <1>12
  <2>2. PICK varint \in Seq(Byte) : varint = Varint(Len(s))
    BY <2>1, VarintType
  <2>3. PICK n \in Nat : n = Len(varint)
    BY LenProperties
  <2>4. PICK l \in Nat : l = Len(s)
    BY LenProperties
  <2>5. /\ Len(written) = n + l
        /\ \A i \in 1 .. n + l : written[i] = IF i <= n THEN varint[i] ELSE s[i - n]
    <3>1. /\ Len(varint \o s) = Len(varint) + Len(s)
          /\ \A i \in 1 .. Len(varint) + Len(s) :
                (varint \o s)[i] = IF i <= Len(varint) THEN varint[i] ELSE s[i - Len(varint)]
      BY ConcatProperties
    <3> QED BY <1>12, <2>1, <2>2, <2>3, <2>4, <3>1
  <2>6. \A i \in 1 .. n : memory[at_ + i] = varint[i]
    BY <1>6, <2>5
  <2>7. \A i \in 1 .. l : memory[at_ + n + i] = s[i]
    <3> SUFFICES ASSUME NEW i \in 1 .. l PROVE memory[at_ + n + i] = s[i]
      OBVIOUS
    <3>1. n + i \in 1 .. n + l /\ ~ (n + i <= n) /\ (n + i) - n = i /\ at_ + (n + i) = at_ + n + i
      OBVIOUS
    <3> QED BY <1>6, <2>5, <3>1
  <2>8. at_ + n <= m_size /\ at_ + n + l <= m_size
    BY <1>2, <1>6, <2>5
  <2>9. VarintIsBack(bytes, varint, l)
    <3>1. Holds(memory, m_size, at_, varint)
      BY <2>3, <2>6, <2>8 DEF Holds
    <3>2. l \in UInt /\ varint = Varint(l)
      BY <2>1, <2>2, <2>4
    <3> QED BY <1>2, <1>b, <3>1, <3>2, VarintBack
  <2>10. prefix = varint /\ Len(prefix) = n /\ VarintValue(prefix) = l
    BY <1>4, <2>3, <2>9 DEF VarintIsBack
  <2>11. SubSeq(bytes, n + 1, n + l) = s
    <3>1. PICK b : b = SubSeq(bytes, n + 1, n + l)
      OBVIOUS
    <3>2. at_ <= m_size
      BY <1>2, <2>8
    <3>3. /\ bytes \in Seq(Cell) /\ Len(bytes) = m_size - at_
          /\ \A i \in 1 .. m_size - at_ : bytes[i] = memory[at_ + i]
      BY <1>2, <1>b, <3>2, PartOfSeq
    <3>4. n <= n + l /\ n + l <= Len(bytes) /\ (n + l) - n = l
      BY <1>2, <2>8, <3>3
    <3>5. b \in Seq(Cell) /\ Len(b) = (n + l) - n /\ \A i \in 1 .. (n + l) - n : b[i] = bytes[n + i]
      BY <3>1, <3>3, <3>4, PartOfSeq
    <3>6. \A i \in 1 .. l : b[i] = s[i]
      <4> SUFFICES ASSUME NEW i \in 1 .. l PROVE b[i] = s[i]
        OBVIOUS
      <4>1. n + i \in 1 .. m_size - at_ /\ at_ + (n + i) = at_ + n + i
        BY <1>2, <2>8
      <4> QED BY <2>7, <3>3, <3>4, <3>5, <4>1
    <3>7. s \in Seq(Cell)
      <4>1. Byte \subseteq Cell
        BY DEF Cell
      <4> QED BY <4>1, SeqMonotonic
    <3>8. b = s
      BY <2>4, <3>4, <3>5, <3>6, <3>7, SeqEqual
    <3> QED BY <3>1, <3>8
  <2>12. SubSeq(bytes, Len(prefix) + 1, Len(prefix) + VarintValue(prefix)) = s
    BY <2>10, <2>11
  <2> QED BY <1>12, <1>r, <2>1, <2>12
<1> QED BY <1>1, <1>9, <1>10, <1>11, <1>12 DEF Encodes


\* Nothing is written.
LEMMA RecordStays ==
    ASSUME ByteInv, RecordInv, ByteInv', record' = record, memory' = memory, m_size <= m_size'
    PROVE  RecordInv'
<1> SUFFICES ASSUME record # NoRecord PROVE RecordInv'
  BY DEF RecordInv
<1>1. PICK bytes \in Seq(Byte) :
         /\ Encodes(bytes, record.kind, record.value, record.little)
         /\ record.length = Len(bytes)
         /\ Holds(memory, m_size, record.at, bytes)
  BY DEF RecordInv
<1>2. Len(bytes) \in Nat /\ m_size \in Nat /\ m_size' \in Nat
  BY Layout, LenProperties DEF ByteInv, TypeOK
<1>3. Holds(memory', m_size', record.at, bytes)
  BY <1>1, <1>2 DEF Holds
<1> QED BY <1>1, <1>3 DEF RecordInv

\* Bytes are written beside the record, or over it.
LEMMA RecordBesidePut ==
    ASSUME ByteInv, RecordInv, NEW new \in Seq(Byte), PutCells(new), m_size' \in Nat,
           record' = RecordBeside(Len(new))
    PROVE  RecordInv'
<1> SUFFICES ASSUME record' # NoRecord PROVE RecordInv'
  BY DEF RecordInv
<1>1. /\ record' = record /\ record # NoRecord
      /\ ~ (m_position < record.at + record.length /\ record.at < m_position + Len(new))
  BY DEF RecordBeside
<1>2. PICK bytes \in Seq(Byte) :
         /\ Encodes(bytes, record.kind, record.value, record.little)
         /\ record.length = Len(bytes)
         /\ Holds(memory, m_size, record.at, bytes)
  BY <1>1 DEF RecordInv
<1>3. PICK n \in Nat : n = Len(bytes)
  BY LenProperties
<1>4. PICK l \in Nat : l = Len(new)
  BY LenProperties
<1>5. PICK at_ \in Nat : at_ = record.at
  BY <1>2 DEF Holds
<1>6. m_size \in Nat /\ m_position \in Nat
  BY Layout
<1>7. at_ + n <= m_size /\ \A i \in 1 .. n : memory[at_ + i] = bytes[i]
  BY <1>2, <1>3, <1>5 DEF Holds
<1>8. /\ m_size <= m_size'
      /\ \A i \in 1 .. m_size : i - m_position \notin 1 .. l => memory'[i] = memory[i]
  BY <1>4 DEF PutCells
<1>9. ~ (m_position < at_ + n /\ at_ < m_position + l)
  BY <1>1, <1>2, <1>3, <1>4, <1>5
<1>10. \A i \in 1 .. n : memory'[at_ + i] = bytes[i]
  <2> SUFFICES ASSUME NEW i \in 1 .. n PROVE memory'[at_ + i] = bytes[i]
    OBVIOUS
  <2>1. at_ + i \in 1 .. m_size /\ (at_ + i) - m_position \notin 1 .. l
    BY <1>6, <1>7, <1>9
  <2> QED BY <1>7, <1>8, <2>1
<1>11. at_ + n <= m_size'
  BY <1>6, <1>7, <1>8
<1>12. Holds(memory', m_size', record'.at, bytes)
  BY <1>1, <1>3, <1>5, <1>10, <1>11 DEF Holds
<1> QED BY <1>1, <1>2, <1>12 DEF RecordInv

\* A typed call writes what it records.
LEMMA RecordWritten ==
    ASSUME ByteInv, ~ crashed, NEW bytes \in Seq(Byte), PutCells(bytes), NEW kind, NEW value,
           WriteTyped(kind, value, bytes), Encodes(bytes, kind, value, m_little)
    PROVE  RecordInv'
<1>1. record' = [kind |-> kind, value |-> value, little |-> m_little,
                 at |-> m_position, length |-> Len(bytes)]
  BY DEF WriteTyped, PutCells
<1>2. /\ record'.kind = kind /\ record'.value = value /\ record'.little = m_little
      /\ record'.at = m_position /\ record'.length = Len(bytes)
  BY <1>1
<1>3. m_position \in Nat
  BY Layout
<1>4. Holds(memory', m_size', record'.at, bytes)
  BY <1>2, <1>3 DEF PutCells, Holds
<1> QED BY <1>2, <1>4 DEF RecordInv

\* Every step keeps the record true.
LEMMA NextRecordInv ==
    ASSUME ByteInv, RecordInv, [Next]_vars
    PROVE  RecordInv'
<1>b. ByteInv' /\ m_size \in Nat /\ m_size' \in Nat
  <2>1. ByteInv'
    BY NextByteInv
  <2>2. m_size \in Nat
    BY Layout
  <2>3. Len(memory') \in Nat
    BY <2>1, LenProperties DEF ByteInv, TypeOK
  <2> QED BY <2>1, <2>2, <2>3 DEF ByteInv, TypeOK, m_capacity
<1>1. ASSUME NEW s \in Strings, Write(s) PROVE RecordInv'
  <2>1. s \in Seq(Byte) /\ WriteBytes(s) /\ ~ crashed
    BY <1>1, ByteArrayConstants DEF Write, WriteBytes
  <2>2. PutCells(s)
    BY <2>1, WriteStep
  <2>3. record' = RecordBeside(Len(s))
    BY <1>1, <2>1, <2>2 DEF Write, PutCells
  <2> QED BY <1>b, <2>1, <2>2, <2>3, RecordBesidePut
<1>2. ASSUME NEW s \in Strings, WriteString(s) PROVE RecordInv'
  <2>1. PICK bytes \in Seq(Byte) : bytes = Varint(Len(s)) \o s
    BY WritesAreBytes
  <2>2. WriteTyped("string", s, bytes) /\ WriteBytes(bytes) /\ ~ crashed
    BY <1>2, <2>1 DEF WriteString, WriteTyped, WriteBytes
  <2>3. Encodes(bytes, "string", s, m_little)
    BY <2>1, ByteArrayConstants DEF Encodes
  <2> QED BY <2>2, <2>3, WriteStep, RecordWritten
<1>3. ASSUME NEW v \in Values, WriteInt(v) PROVE RecordInv'
  <2>1. PICK bytes \in Seq(Byte) : bytes = Varint(EncodeZigzag(v))
    BY WritesAreBytes
  <2>2. WriteTyped("int", v, bytes) /\ WriteBytes(bytes) /\ ~ crashed
    BY <1>3, <2>1 DEF WriteInt, WriteTyped, WriteBytes
  <2>3. v \in SInt
    BY ByteArrayConstants
  <2>4. Encodes(bytes, "int", v, m_little)
    BY <2>1, <2>3 DEF Encodes
  <2> QED BY <2>2, <2>4, WriteStep, RecordWritten
<1>4. ASSUME NEW u \in Values \cap UInt, WriteUint(u) PROVE RecordInv'
  <2>1. PICK bytes \in Seq(Byte) : bytes = Varint(u)
    BY WritesAreBytes
  <2>2. WriteTyped("uint", u, bytes) /\ WriteBytes(bytes) /\ ~ crashed
    BY <1>4, <2>1 DEF WriteUint, WriteTyped, WriteBytes
  <2>3. Encodes(bytes, "uint", u, m_little)
    BY <2>1 DEF Encodes
  <2> QED BY <2>2, <2>3, WriteStep, RecordWritten
<1>5. ASSUME NEW u \in Values \cap Word, WriteFixed(u) PROVE RecordInv'
  <2>1. m_little \in BOOLEAN
    BY DEF ByteInv, TypeOK
  <2>2. PICK bytes \in Seq(Byte) : bytes = Fixed(u, m_little)
    BY <2>1, WritesAreBytes
  <2>3. WriteTyped("fixed", u, bytes) /\ WriteBytes(bytes) /\ ~ crashed
    BY <1>5, <2>2 DEF WriteFixed, WriteTyped, WriteBytes
  <2>4. Encodes(bytes, "fixed", u, m_little)
    BY <2>1, <2>2 DEF Encodes
  <2> QED BY <2>3, <2>4, WriteStep, RecordWritten
<1>6. ASSUME NEW len \in 1 .. MaxCapacity, NEW s \in Strings, Recv(len, s) PROVE RecordInv'
  <2>1. s \in Seq(Byte) /\ len \in Nat
    BY ByteArrayConstants
  <2>2. PutCells(s)
    BY <1>6, <2>1, RecvStep
  <2>3. ~ crashed /\ ~ crashed'
    BY <1>6, <2>2 DEF Recv, PutCells
  <2>4. record' = RecordBeside(Len(s))
    BY <1>6, <2>3 DEF Recv, Crash
  <2> QED BY <1>b, <2>1, <2>2, <2>4, RecordBesidePut
<1>7. ASSUME record' = record, memory' = memory, m_size' = m_size PROVE RecordInv'
  BY <1>b, <1>7, RecordStays
<1>8. ASSUME NEW n, Read(n) PROVE RecordInv'
  BY <1>7, <1>8 DEF Read, Consume, ConsumeAndThrow, Crash
<1>9. ASSUME ReadVarint \/ ReadString PROVE RecordInv'
  BY <1>7, <1>9 DEF ReadVarint, ReadString, Consume, ConsumeAndThrow, Crash
<1>10. ASSUME AsString PROVE RecordInv'
  BY <1>7, <1>10 DEF AsString
<1>11. ASSUME NEW len, NEW n, Send(len, n) PROVE RecordInv'
  BY <1>7, <1>11 DEF Send, Crash
<1>12. ASSUME NEW n \in 0 .. MaxCapacity + 1, SetPosition(n) PROVE RecordInv'
  <2>1. n \in Nat
    BY ByteArrayConstants
  <2>2. m_size' = m_size \/ m_size' = Max({m_size, n})
    BY <1>12 DEF SetPosition
  <2>3. m_size <= m_size'
    BY <1>b, <2>1, <2>2, MaxOfTwo
  <2> QED BY <1>b, <1>12, <2>3, RecordStays DEF SetPosition
<1>13. ASSUME Clear PROVE RecordInv'
  BY <1>13 DEF Clear, RecordInv
<1>14. ASSUME NEW val, SetIsLittleEndian(val) PROVE RecordInv'
  BY <1>7, <1>14 DEF SetIsLittleEndian
<1>15. ASSUME UNCHANGED vars PROVE RecordInv'
  BY <1>7, <1>15 DEF vars
<1> QED BY <1>1, <1>2, <1>3, <1>4, <1>5, <1>6, <1>8, <1>9, <1>10, <1>11, <1>12, <1>13, <1>14, <1>15
        DEF Next

\* Whatever a typed call wrote is read back as that value: integers by varint and zigzag up
\* to the ends of their range, fixed integers in either byte order, strings with their
\* length, over nodes of any size, after any writes beside them (bytearray.cc:129-398).
THEOREM ReadsBackHolds == Spec => []ReadsBack
<1>1. Init => ByteInv /\ RecordInv
  BY InitByteInv DEF Init, RecordInv
<1>2. ByteInv /\ RecordInv /\ [Next]_vars => ByteInv' /\ RecordInv'
  BY NextByteInv, NextRecordInv
<1>3. ByteInv /\ RecordInv => ReadsBack
  BY RecordReadsBack
<1> QED BY <1>1, <1>2, <1>3, PTL DEF Spec

-----------------------------------------------------------------------------
(* Numbers again, and functions on them that are defined one value after   *)
(* the other.                                                              *)

\* The maximum of a set that has one.
LEMMA MaxIs ==
    ASSUME NEW S \in SUBSET Int, NEW m \in S, \A x \in S : x <= m
    PROVE  Max(S) = m
<1>1. \A x \in S : (\A y \in S : x >= y) => x = m
  OBVIOUS
<1>2. \A y \in S : m >= y
  OBVIOUS
<1> QED BY <1>1, <1>2, Zenon DEF Max

\* The minimum of two numbers.
LEMMA MinOfTwo ==
    ASSUME NEW a \in Nat, NEW b \in Nat
    PROVE  Min({a, b}) = IF a < b THEN a ELSE b
<1> DEFINE m == IF a < b THEN a ELSE b
<1>1. m \in {a, b} /\ \A y \in {a, b} : m =< y
  OBVIOUS
<1>2. \A x \in {a, b} : (\A y \in {a, b} : x =< y) => x = m
  OBVIOUS
<1> HIDE DEF m
<1>3. Min({a, b}) = m
  BY <1>1, <1>2, Zenon DEF Min
<1> QED BY <1>3 DEF m

\* f starts with base and goes on by F, up to n.
Stepwise(n, base, F, f) == f[0] = base /\ \A k \in 1 .. n : f[k] = F[k][f[k - 1]]

\* There is such a function.
LEMMA StepByStep ==
    ASSUME NEW n \in Nat, NEW X, NEW base \in X, NEW F \in [1 .. n -> [X -> X]]
    PROVE  \E f \in [0 .. n -> X] : Stepwise(n, base, F, f)
<1> DEFINE S == {m \in Nat : m <= n => \E f \in [0 .. m -> X] : Stepwise(m, base, F, f)}
<1>1. 0 \in S
  <2> DEFINE f == [k \in 0 .. 0 |-> base]
  <2>1. f \in [0 .. 0 -> X] /\ f[0] = base
    OBVIOUS
  <2>2. Stepwise(0, base, F, f)
    <3> HIDE DEF f
    <3> QED BY <2>1 DEF Stepwise
  <2> HIDE DEF f
  <2> QED BY <2>1, <2>2
<1>2. ASSUME NEW m \in S PROVE m + 1 \in S
  <2>1. m \in Nat /\ m + 1 \in Nat
    BY <1>2
  <2>2. CASE m + 1 <= n
    <3>1. PICK f \in [0 .. m -> X] : Stepwise(m, base, F, f)
      <4>1. m <= n => \E f \in [0 .. m -> X] : Stepwise(m, base, F, f)
        BY <1>2
      <4> QED BY <2>1, <2>2, <4>1
    <3>2. m + 1 \in 1 .. n /\ f[m] \in X
      BY <2>1, <2>2
    <3>3. F[m + 1][f[m]] \in X
      BY <3>2
    <3> DEFINE g == [k \in 0 .. m + 1 |-> IF k = m + 1 THEN F[m + 1][f[m]] ELSE f[k]]
    <3>4. g \in [0 .. m + 1 -> X]
      BY <2>1, <3>3
    <3>5. g[m + 1] = F[m + 1][f[m]] /\ \A k \in 0 .. m : g[k] = f[k]
      BY <2>1
    <3> HIDE DEF g
    <3>6. Stepwise(m + 1, base, F, g)
      <4>1. g[0] = base
        BY <2>1, <3>1, <3>5 DEF Stepwise
      <4>2. ASSUME NEW k \in 1 .. m + 1 PROVE g[k] = F[k][g[k - 1]]
        <5>1. k - 1 \in 0 .. m /\ g[k - 1] = f[k - 1]
          BY <2>1, <3>5
        <5>2. CASE k = m + 1
          <6>1. k - 1 = m
            BY <2>1, <5>2
          <6> QED BY <3>5, <5>1, <5>2, <6>1, Zenon
        <5>3. CASE k # m + 1
          <6>1. k \in 1 .. m /\ k \in 0 .. m
            BY <2>1, <5>3
          <6>2. f[k] = F[k][f[k - 1]]
            BY <3>1, <6>1, Zenon DEF Stepwise
          <6> QED BY <3>5, <5>1, <6>1, <6>2, Zenon
        <5> QED BY <5>2, <5>3
      <4> QED BY <4>1, <4>2 DEF Stepwise
    <3>7. \E h \in [0 .. m + 1 -> X] : Stepwise(m + 1, base, F, h)
      BY <3>4, <3>6
    <3> QED BY <2>1, <3>7, Zenon
  <2>3. CASE ~ (m + 1 <= n)
    BY <2>1, <2>3
  <2> QED BY <2>2, <2>3
<1>3. S \in SUBSET Nat
  OBVIOUS
<1>4. n \in S
  <2> HIDE DEF S
  <2> QED BY <1>1, <1>2, <1>3, Counting
<1> QED BY <1>4

\* What holds for 0 and goes on up to n.
LEMMA CountingTo ==
    ASSUME NEW n \in Nat, NEW S, 0 \in S, \A k \in 0 .. n - 1 : k \in S => k + 1 \in S
    PROVE  \A k \in 0 .. n : k \in S
<1> DEFINE T == {k \in Nat : k <= n => k \in S}
<1>1. 0 \in T /\ T \in SUBSET Nat
  OBVIOUS
<1>2. ASSUME NEW k \in T PROVE k + 1 \in T
  <2>1. k \in Nat /\ k + 1 \in Nat
    OBVIOUS
  <2>2. k + 1 <= n => k \in 0 .. n - 1 /\ k <= n
    BY <2>1
  <2> QED BY <2>1, <2>2
<1>3. T = Nat
  <2> HIDE DEF T
  <2> QED BY <1>1, <1>2, Counting
<1> QED BY <1>3

\* Two functions that start alike and go on alike are alike.
LEMMA AlikeUpTo ==
    ASSUME NEW n \in Nat, NEW f, NEW g, f[0] = g[0],
           \A k \in 1 .. n : f[k - 1] = g[k - 1] => f[k] = g[k]
    PROVE  \A k \in 0 .. n : f[k] = g[k]
<1> DEFINE S == {k \in 0 .. n : f[k] = g[k]}
<1>1. 0 \in S
  OBVIOUS
<1>2. ASSUME NEW k \in 0 .. n - 1, k \in S PROVE k + 1 \in S
  <2>1. k + 1 \in 1 .. n /\ (k + 1) - 1 = k /\ f[k] = g[k]
    BY <1>2
  <2>2. f[k + 1] = g[k + 1]
    BY <2>1
  <2> QED BY <2>1, <2>2
<1>3. \A k \in 0 .. n : k \in S
  <2> HIDE DEF S
  <2> QED BY <1>1, <1>2, CountingTo
<1> QED BY <1>3
-----------------------------------------------------------------------------
(* Sequences cut in two and put together.  The three operators are kept    *)
(* whole in the proofs that use them.                                      *)

Join(s, t) == s \o t

\* The first n elements, and those behind them.
Upto(s, n)   == SubSeq(s, 1, n)
Behind(s, n) == SubSeq(s, n + 1, Len(s))

\* What is put together.
LEMMA JoinFacts ==
    ASSUME NEW D, NEW s \in Seq(D), NEW t \in Seq(D)
    PROVE  /\ Join(s, t) \in Seq(D)
           /\ Len(Join(s, t)) = Len(s) + Len(t)
           /\ \A i \in 1 .. Len(s) : Join(s, t)[i] = s[i]
           /\ \A i \in 1 .. Len(t) : Join(s, t)[Len(s) + i] = t[i]
<1>0. Len(s) \in Nat /\ Len(t) \in Nat
  BY LenProperties
<1>1. /\ s \o t \in Seq(D) /\ Len(s \o t) = Len(s) + Len(t)
      /\ \A i \in 1 .. Len(s) + Len(t) : (s \o t)[i] = IF i <= Len(s) THEN s[i] ELSE t[i - Len(s)]
  BY ConcatProperties
<1> DEFINE u == s \o t
<1>2. /\ u \in Seq(D) /\ Len(u) = Len(s) + Len(t)
      /\ \A i \in 1 .. Len(s) + Len(t) : u[i] = IF i <= Len(s) THEN s[i] ELSE t[i - Len(s)]
  BY <1>1
<1>3. Join(s, t) = u
  BY Zenon DEF Join
<1> HIDE DEF u
<1>4. \A i \in 1 .. Len(s) : u[i] = s[i]
  BY <1>0, <1>2
<1>5. ASSUME NEW i \in 1 .. Len(t) PROVE u[Len(s) + i] = t[i]
  <2>1. Len(s) + i \in 1 .. Len(s) + Len(t) /\ ~ (Len(s) + i <= Len(s)) /\ (Len(s) + i) - Len(s) = i
    BY <1>0
  <2> QED BY <1>2, <2>1
<1> QED BY <1>2, <1>3, <1>4, <1>5, Zenon

\* Nothing put before or behind.
LEMMA JoinEmpty ==
    ASSUME NEW D, NEW s \in Seq(D)
    PROVE  Join(s, <<>>) = s /\ Join(<<>>, s) = s
BY ConcatEmptySeq DEF Join

\* It does not matter which two are put together first.
LEMMA JoinThree ==
    ASSUME NEW D, NEW s \in Seq(D), NEW t \in Seq(D), NEW u \in Seq(D)
    PROVE  Join(Join(s, t), u) = Join(s, Join(t, u))
BY ConcatAssociative DEF Join

\* A sequence is its first n elements and the rest.
LEMMA CutAt ==
    ASSUME NEW D, NEW s \in Seq(D), NEW n \in Nat, n <= Len(s)
    PROVE  /\ Upto(s, n) \in Seq(D) /\ Len(Upto(s, n)) = n
           /\ Behind(s, n) \in Seq(D) /\ Len(Behind(s, n)) = Len(s) - n
           /\ Join(Upto(s, n), Behind(s, n)) = s
           /\ \A i \in 1 .. n : Upto(s, n)[i] = s[i]
           /\ \A i \in 1 .. Len(s) - n : Behind(s, n)[i] = s[n + i]
<1>0. Len(s) \in Nat
  BY LenProperties
<1>1. /\ SubSeq(s, 1, n) \in Seq(D) /\ Len(SubSeq(s, 1, n)) = n
      /\ \A i \in 1 .. n : SubSeq(s, 1, n)[i] = s[i]
  BY StartOfSeq
<1>2. /\ SubSeq(s, n + 1, Len(s)) \in Seq(D) /\ Len(SubSeq(s, n + 1, Len(s))) = Len(s) - n
      /\ \A i \in 1 .. Len(s) - n : SubSeq(s, n + 1, Len(s))[i] = s[n + i]
  BY <1>0, PartOfSeq
<1>3. SubSeq(s, 1, n) \o SubSeq(s, n + 1, Len(s)) = SubSeq(s, 1, Len(s))
  <2>1. 1 \in 1 .. Len(s) + 1 /\ n \in 1 - 1 .. Len(s) /\ Len(s) \in n .. Len(s)
    BY <1>0
  <2> QED BY <2>1, ConcatAdjacentSubSeq
<1>4. SubSeq(s, 1, Len(s)) = s
  BY SubSeqFull
<1>5. SubSeq(s, 1, n) \o SubSeq(s, n + 1, Len(s)) = s
  BY <1>3, <1>4, Zenon
<1> QED BY <1>1, <1>2, <1>5, Zenon DEF Join, Upto, Behind

\* All of a sequence and nothing of it.
LEMMA CutNone ==
    ASSUME NEW D, NEW s \in Seq(D)
    PROVE  /\ Upto(s, 0) = <<>> /\ Upto(s, Len(s)) = s
           /\ Behind(s, 0) = s /\ Behind(s, Len(s)) = <<>>
<1>0. Len(s) \in Nat
  BY LenProperties
<1>1. SubSeq(s, 1, 0) = <<>> /\ SubSeq(s, Len(s) + 1, Len(s)) = <<>>
  BY <1>0, SubSeqEmpty
<1>2. SubSeq(s, 1, Len(s)) = s /\ 0 + 1 = 1
  BY SubSeqFull
<1> QED BY <1>1, <1>2, Zenon DEF Upto, Behind

\* What was put before is behind nothing else.
LEMMA JoinSame ==
    ASSUME NEW D, NEW s \in Seq(D), NEW t \in Seq(D), NEW u \in Seq(D), Join(s, t) = Join(s, u)
    PROVE  t = u
BY ConcatSimplifications DEF Join

\* Where a sequence is put together in two ways, the part between the two cuts.
LEMMA Overlap ==
    ASSUME NEW D, NEW a \in Seq(D), NEW b \in Seq(D), NEW c \in Seq(D), NEW d \in Seq(D),
           Join(a, b) = Join(c, d), Len(c) <= Len(a)
    PROVE  /\ Upto(a, Len(c)) = c
           /\ Behind(a, Len(c)) \in Seq(D)
           /\ Len(Behind(a, Len(c))) = Len(a) - Len(c)
           /\ Join(Behind(a, Len(c)), b) = d
           /\ a = Join(c, Behind(a, Len(c)))
<1> DEFINE x == Upto(a, Len(c))
           y == Behind(a, Len(c))
<1>0. Len(a) \in Nat /\ Len(b) \in Nat /\ Len(c) \in Nat /\ Len(d) \in Nat
  BY LenProperties
<1>1. /\ x \in Seq(D) /\ Len(x) = Len(c) /\ y \in Seq(D) /\ Len(y) = Len(a) - Len(c)
      /\ Join(x, y) = a
      /\ \A i \in 1 .. Len(c) : x[i] = a[i]
  BY <1>0, CutAt
<1> HIDE DEF x, y
<1>3. x = c
  <2>1. ASSUME NEW i \in 1 .. Len(c) PROVE x[i] = c[i]
    <3>1. i \in 1 .. Len(a)
      BY <1>0
    <3>2. Join(a, b)[i] = a[i]
      BY <3>1, JoinFacts
    <3>3. Join(c, d)[i] = c[i]
      BY JoinFacts
    <3> QED BY <1>1, <3>2, <3>3
  <2> QED BY <1>1, <2>1, SeqEqual
<1>4. Join(c, Join(y, b)) = Join(c, d)
  <2>1. Join(Join(c, y), b) = Join(c, Join(y, b))
    BY <1>1, JoinThree
  <2> QED BY <1>1, <1>3, <2>1
<1>5. Join(y, b) \in Seq(D)
  BY <1>1, JoinFacts
<1>6. Join(y, b) = d
  BY <1>4, <1>5, JoinSame
<1> QED BY <1>1, <1>3, <1>6 DEF x, y

\* The same, of parts of equal length.
LEMMA SameCut ==
    ASSUME NEW D, NEW a \in Seq(D), NEW b \in Seq(D), NEW c \in Seq(D), NEW d \in Seq(D),
           Join(a, b) = Join(c, d), Len(c) = Len(a)
    PROVE  a = c /\ b = d
<1>0. Len(a) \in Nat /\ Len(c) <= Len(a)
  BY LenProperties
<1>1. Upto(a, Len(c)) = c /\ Join(Behind(a, Len(c)), b) = d
  BY <1>0, Overlap
<1>2. Upto(a, Len(a)) = a /\ Behind(a, Len(a)) = <<>>
  BY CutNone
<1>3. Join(<<>>, b) = b
  BY JoinEmpty
<1> QED BY <1>1, <1>2, <1>3

\* A sequence of elements of a part of a set.
LEMMA SeqOfMore ==
    ASSUME NEW S, NEW T, S \subseteq T, NEW s \in Seq(S)
    PROVE  s \in Seq(T)
  OBVIOUS

\* A function on 1 .. n is a sequence.
LEMMA SeqFromFunction ==
    ASSUME NEW S, NEW n \in Nat, NEW f \in [1 .. n -> S]
    PROVE  f \in Seq(S) /\ Len(f) = n
  OBVIOUS

\* What is put behind comes first there.
LEMMA JoinAfter ==
    ASSUME NEW D, NEW s \in Seq(D), NEW t \in Seq(D), NEW i \in 1 .. Len(t)
    PROVE  Join(s, t)[Len(s) + i] = t[i]
<1>1. \A j \in 1 .. Len(t) : Join(s, t)[Len(s) + j] = t[j]
  BY JoinFacts
<1> QED BY <1>1

\* Two sequences put together, element by element.
LEMMA JoinIs ==
    ASSUME NEW D, NEW s \in Seq(D), NEW t \in Seq(D), NEW v \in Seq(D),
           Len(v) = Len(s) + Len(t), \A i \in 1 .. Len(s) : v[i] = s[i],
           \A i \in 1 .. Len(t) : v[Len(s) + i] = t[i]
    PROVE  Join(s, t) = v
<1> DEFINE w == Join(s, t)
<1>1. w \in Seq(D) /\ Len(w) = Len(s) + Len(t) /\ \A i \in 1 .. Len(s) : w[i] = s[i]
  BY JoinFacts
<1>2. \A i \in 1 .. Len(t) : w[Len(s) + i] = t[i]
  BY JoinAfter
<1>3. Len(s) \in Nat /\ Len(t) \in Nat
  BY LenProperties
<1> HIDE DEF w
<1>4. ASSUME NEW i \in 1 .. Len(w) PROVE w[i] = v[i]
  <2>1. CASE i <= Len(s)
    <3>1. i \in 1 .. Len(s)
      BY <1>3, <2>1
    <3> QED BY <1>1, <3>1
  <2>2. CASE i > Len(s)
    <3>1. PICK j \in 1 .. Len(t) : i = Len(s) + j
      <4>1. i - Len(s) \in 1 .. Len(t) /\ i = Len(s) + (i - Len(s))
        BY <1>1, <1>3, <2>2
      <4> QED BY <4>1
    <3> QED BY <1>2, <3>1
  <2> QED BY <1>3, <2>1, <2>2
<1>5. w = v
  BY <1>1, <1>4, SeqEqual
<1> QED BY <1>5 DEF w

\* Where two sequences were put together.
LEMMA CutJoin ==
    ASSUME NEW D, NEW s \in Seq(D), NEW t \in Seq(D)
    PROVE  Upto(Join(s, t), Len(s)) = s /\ Behind(Join(s, t), Len(s)) = t
<1> DEFINE w == Join(s, t)
           a == Upto(w, Len(s))
           b == Behind(w, Len(s))
<1>1. w \in Seq(D) /\ Len(w) = Len(s) + Len(t) /\ Len(s) \in Nat /\ Len(t) \in Nat
  BY JoinFacts, LenProperties
<1>2. Len(s) <= Len(w)
  BY <1>1
<1> HIDE DEF w
<1>3. a \in Seq(D) /\ Len(a) = Len(s) /\ b \in Seq(D) /\ Join(a, b) = w
  BY <1>1, <1>2, CutAt
<1> HIDE DEF a, b
<1>4. Join(a, b) = Join(s, t)
  BY <1>3 DEF w
<1>5. a = s /\ b = t
  BY <1>3, <1>4, SameCut
<1> QED BY <1>5 DEF a, b, w

\* What is left behind the first part.
LEMMA BehindJoin ==
    ASSUME NEW D, NEW s \in Seq(D), NEW t \in Seq(D), NEW n \in Nat, n <= Len(s)
    PROVE  Behind(Join(s, t), n) = Join(Behind(s, n), t)
<1> DEFINE a == Upto(s, n)
           b == Behind(s, n)
<1>1. a \in Seq(D) /\ Len(a) = n /\ b \in Seq(D) /\ Join(a, b) = s
  BY CutAt
<1> HIDE DEF a, b
<1>2. Join(s, t) = Join(a, Join(b, t)) /\ Join(b, t) \in Seq(D)
  BY <1>1, JoinThree, JoinFacts
<1>3. Behind(Join(a, Join(b, t)), n) = Join(b, t)
  <2> DEFINE c == Join(b, t)
  <2>1. c \in Seq(D)
    BY <1>2
  <2> HIDE DEF c
  <2>2. Behind(Join(a, c), n) = c
    BY <1>1, <2>1, CutJoin
  <2> QED BY <2>2 DEF c
<1> QED BY <1>2, <1>3 DEF b

\* Left behind twice.
LEMMA BehindBehind ==
    ASSUME NEW D, NEW s \in Seq(D), NEW k \in Nat, NEW n \in Nat, k + n <= Len(s)
    PROVE  Behind(Behind(s, k), n) = Behind(s, k + n)
<1>1. Len(s) \in Nat /\ k <= Len(s) /\ k + n \in Nat
  BY LenProperties
<1> DEFINE a == Behind(s, k)
<1>2. a \in Seq(D) /\ Len(a) = Len(s) - k /\ \A i \in 1 .. Len(s) - k : a[i] = s[k + i]
  BY <1>1, CutAt
<1> HIDE DEF a
<1> DEFINE b == Behind(a, n)
           c == Behind(s, k + n)
<1>3. b \in Seq(D) /\ Len(b) = Len(a) - n /\ \A i \in 1 .. Len(a) - n : b[i] = a[n + i]
  <2>1. n <= Len(a)
    BY <1>1, <1>2
  <2> QED BY <1>2, <2>1, CutAt
<1>4. c \in Seq(D) /\ Len(c) = Len(s) - (k + n) /\ \A i \in 1 .. Len(s) - (k + n) : c[i] = s[(k + n) + i]
  BY <1>1, CutAt
<1> HIDE DEF b, c
<1>5. ASSUME NEW i \in 1 .. Len(b) PROVE b[i] = c[i]
  <2>1. /\ i \in 1 .. Len(a) - n /\ n + i \in 1 .. Len(s) - k /\ i \in 1 .. Len(s) - (k + n)
        /\ k + (n + i) = (k + n) + i
    BY <1>1, <1>2, <1>3
  <2> QED BY <1>2, <1>3, <1>4, <2>1
<1>6. Len(b) = Len(c)
  BY <1>1, <1>2, <1>3, <1>4
<1>7. b = c
  BY <1>3, <1>4, <1>5, <1>6, SeqEqual
<1> QED BY <1>7 DEF a, b, c

\* A sequence cut at n and at l.
LEMMA CutTwice ==
    ASSUME NEW D, NEW s \in Seq(D), NEW n \in Nat, NEW l \in Nat, n <= l, l <= Len(s)
    PROVE  /\ Upto(s, l) = Join(Upto(s, n), Upto(Behind(s, n), l - n))
           /\ Behind(s, l) = Behind(Behind(s, n), l - n)
           /\ Upto(Behind(s, n), l - n) \in Seq(D)
<1> DEFINE a == Upto(s, n)
           b == Behind(s, n)
           u == Upto(b, l - n)
           v == Behind(b, l - n)
<1>1. a \in Seq(D) /\ Len(a) = n /\ b \in Seq(D) /\ Len(b) = Len(s) - n /\ Join(a, b) = s
  <2>1. Len(s) \in Nat
    BY LenProperties
  <2>2. n <= Len(s)
    BY <2>1
  <2> QED BY <2>2, CutAt
<1> HIDE DEF a, b
<1>2. u \in Seq(D) /\ Len(u) = l - n /\ v \in Seq(D) /\ Join(u, v) = b
  <2>1. Len(s) \in Nat
    BY LenProperties
  <2>2. l - n \in Nat /\ l - n <= Len(b)
    BY <1>1, <2>1
  <2> QED BY <1>1, <2>2, CutAt
<1> HIDE DEF u, v
<1>3. Join(a, u) \in Seq(D) /\ Len(Join(a, u)) = l /\ Join(Join(a, u), v) = s
  <2>1. Join(a, u) \in Seq(D) /\ Len(Join(a, u)) = Len(a) + Len(u)
    BY <1>1, <1>2, JoinFacts
  <2>2. Join(Join(a, u), v) = Join(a, Join(u, v))
    BY <1>1, <1>2, JoinThree
  <2> QED BY <1>1, <1>2, <2>1, <2>2
<1> DEFINE w == Join(a, u)
<1>4. Upto(s, l) = w /\ Behind(s, l) = v
  <2>1. w \in Seq(D) /\ Len(w) = l /\ Join(w, v) = s
    BY <1>3
  <2> HIDE DEF w
  <2>2. Upto(Join(w, v), Len(w)) = w /\ Behind(Join(w, v), Len(w)) = v
    BY <1>2, <2>1, CutJoin
  <2> QED BY <2>1, <2>2, Zenon
<1> QED BY <1>2, <1>4 DEF a, b, u, v

\* What a prefix is.
LEMMA PrefixIs ==
    ASSUME NEW s, NEW t
    PROVE  IsPrefix(s, t) <=> Len(s) <= Len(t) /\ Upto(s, Len(s)) = Upto(t, Len(s))
  BY Zenon DEF IsPrefix, Upto
-----------------------------------------------------------------------------
(* Sequences of sequences.                                                 *)

\* What FlattenSeq() has after each of the sequences.
Parts(s, f) ==
    /\ f[0] = <<>>
    /\ \A k \in 1 .. Len(s) : f[k] = f[k - 1] \o s[k]
    /\ FlattenSeq(s) = f[Len(s)]

\* A sequence of sequences is flattened one after the other.
LEMMA FlattenParts ==
    ASSUME NEW D, NEW s \in Seq(Seq(D))
    PROVE  \E f \in [0 .. Len(s) -> Seq(D)] : Parts(s, f)
<1>1. PICK n \in Nat : n = Len(s)
  BY LenProperties
<1>2. \A k \in 1 .. n : s[k] \in Seq(D)
  BY <1>1, LenProperties
<1> DEFINE F == [k \in 1 .. n |-> [x \in Seq(D) |-> x \o s[k]]]
<1>3. F \in [1 .. n -> [Seq(D) -> Seq(D)]]
  <2> SUFFICES ASSUME NEW k \in 1 .. n, NEW x \in Seq(D) PROVE x \o s[k] \in Seq(D)
    OBVIOUS
  <2> QED BY <1>2, ConcatProperties
<1>4. \A k \in 1 .. n, x \in Seq(D) : F[k][x] = x \o s[k]
  OBVIOUS
<1> HIDE DEF F
<1>5. <<>> \in Seq(D)
  BY EmptySeq
<1> DEFINE X == Seq(D)
<1>r. \E f \in [0 .. n -> X] : Stepwise(n, <<>>, F, f)
  <2>1. <<>> \in X /\ F \in [1 .. n -> [X -> X]]
    BY <1>3, <1>5
  <2> HIDE DEF X
  <2> QED BY <2>1, StepByStep
<1>6. PICK f \in [0 .. n -> Seq(D)] : f[0] = <<>> /\ \A k \in 1 .. n : f[k] = F[k][f[k - 1]]
  BY <1>r, Zenon DEF Stepwise
<1>7. \A k \in 1 .. n : f[k] = f[k - 1] \o s[k]
  <2> SUFFICES ASSUME NEW k \in 1 .. n PROVE f[k] = f[k - 1] \o s[k]
    OBVIOUS
  <2>1. k - 1 \in 0 .. n
    OBVIOUS
  <2>2. f[k - 1] \in Seq(D)
    BY <2>1
  <2> QED BY <1>4, <1>6, <2>2
<1>8. FlattenSeq(s) = f[n]
  <2>1. CASE n = 0
    <3>1. s = <<>>
      BY <1>1, <2>1, EmptySeq
    <3>2. FlattenSeq(s) = s
      BY <1>1, <2>1 DEF FlattenSeq
    <3> QED BY <1>6, <2>1, <3>1, <3>2
  <2>2. CASE n # 0
    <3> DEFINE E(g) == g = [i \in 1 .. n |-> IF i = 1 THEN s[i] ELSE g[i - 1] \o s[i]]
               flatten == CHOOSE g : E(g)
               h == [i \in 1 .. n |-> f[i]]
    <3>1. FlattenSeq(s) = flatten[n]
      BY <1>1, <2>2, Zenon DEF FlattenSeq
    <3>2. E(h)
      <4>1. ASSUME NEW i \in 1 .. n PROVE h[i] = IF i = 1 THEN s[i] ELSE h[i - 1] \o s[i]
        <5>1. CASE i = 1
          <6>0. 1 \in 1 .. n /\ 1 - 1 = 0
            BY <5>1
          <6>1. f[1] = <<>> \o s[1] /\ s[1] \in Seq(D)
            BY <1>2, <1>6, <1>7, <6>0
          <6>2. <<>> \o s[1] = s[1]
            BY <6>1, ConcatEmptySeq
          <6> QED BY <5>1, <6>1, <6>2
        <5>2. CASE i # 1
          <6>1. i - 1 \in 1 .. n
            BY <5>2
          <6> QED BY <1>7, <5>2, <6>1
        <5> QED BY <5>1, <5>2
      <4> QED BY <4>1
    <3>3. E(flatten)
      <4> HIDE DEF E, h
      <4> QED BY <3>2, Zenon
    <3>4. \A i \in 1 .. n : flatten[i] = IF i = 1 THEN s[i] ELSE flatten[i - 1] \o s[i]
      <4> HIDE DEF flatten
      <4> QED BY <3>3, Zenon
    <3>5. \A i \in 1 .. n : h[i] = IF i = 1 THEN s[i] ELSE h[i - 1] \o s[i]
      <4> HIDE DEF h
      <4> QED BY <3>2, Zenon
    <3> HIDE DEF flatten, h, E
    <3> DEFINE u == [i \in 0 .. n |-> IF i = 0 THEN <<>> ELSE flatten[i]]
               v == [i \in 0 .. n |-> IF i = 0 THEN <<>> ELSE h[i]]
    <3>6. u[0] = v[0]
      OBVIOUS
    <3>7. ASSUME NEW k \in 1 .. n, u[k - 1] = v[k - 1] PROVE u[k] = v[k]
      <4>1. k \in 0 .. n /\ k # 0 /\ u[k] = flatten[k] /\ v[k] = h[k]
        OBVIOUS
      <4>2. CASE k = 1
        BY <3>4, <3>5, <4>1, <4>2
      <4>3. CASE k # 1
        <5>1. k - 1 \in 0 .. n /\ k - 1 # 0
          BY <4>3
        <5>2. flatten[k - 1] = h[k - 1]
          BY <3>7, <5>1
        <5>3. flatten[k] = flatten[k - 1] \o s[k] /\ h[k] = h[k - 1] \o s[k]
          BY <3>4, <3>5, <4>3, Zenon
        <5> HIDE DEF u, v
        <5> QED BY <4>1, <5>2, <5>3
      <4> QED BY <4>2, <4>3
    <3>8. \A k \in 0 .. n : u[k] = v[k]
      <4> HIDE DEF u, v
      <4> QED BY <3>6, <3>7, AlikeUpTo, ZenonT(60)
    <3>9. n \in 0 .. n /\ n \in 1 .. n
      BY <2>2
    <3>10. flatten[n] = h[n]
      <4>1. u[n] = flatten[n] /\ v[n] = h[n]
        BY <2>2, <3>9
      <4> HIDE DEF u, v
      <4> QED BY <3>8, <3>9, <4>1
    <3> QED BY <3>1, <3>9, <3>10 DEF h
  <2> QED BY <2>1, <2>2
<1> QED BY <1>1, <1>6, <1>7, <1>8 DEF Parts

\* One more sequence at the end.
LEMMA FlattenAppend ==
    ASSUME NEW D, NEW s \in Seq(Seq(D)), NEW x \in Seq(D)
    PROVE  /\ FlattenSeq(s) \in Seq(D)
           /\ FlattenSeq(Append(s, x)) = FlattenSeq(s) \o x
<1>1. PICK n \in Nat : n = Len(s)
  BY LenProperties
<1> DEFINE t == Append(s, x)
<1>2. t \in Seq(Seq(D)) /\ Len(t) = n + 1 /\ t[n + 1] = x /\ \A k \in 1 .. n : t[k] = s[k]
  <2>1. /\ t \in Seq(Seq(D)) /\ Len(t) = Len(s) + 1 /\ t[Len(s) + 1] = x
        /\ \A k \in 1 .. Len(s) : t[k] = s[k]
    BY AppendProperties
  <2> QED BY <1>1, <2>1
<1> HIDE DEF t
<1>3. PICK f \in [0 .. n -> Seq(D)] : Parts(s, f)
  BY <1>1, FlattenParts
<1>4. PICK g \in [0 .. n + 1 -> Seq(D)] : Parts(t, g)
  <2>1. \E g \in [0 .. Len(t) -> Seq(D)] : Parts(t, g)
    BY <1>2, FlattenParts
  <2> QED BY <1>2, <2>1
<1>5. f[0] = g[0]
  BY <1>3, <1>4 DEF Parts
<1>6. ASSUME NEW k \in 1 .. n, f[k - 1] = g[k - 1] PROVE f[k] = g[k]
  <2>1. k \in 1 .. n + 1
    OBVIOUS
  <2> QED BY <1>1, <1>2, <1>3, <1>4, <1>6, <2>1 DEF Parts
<1>7. f[n] = g[n]
  <2> DEFINE T == {k \in 0 .. n : f[k] = g[k]}
  <2>1. 0 \in T
    BY <1>5
  <2>2. ASSUME NEW k \in 0 .. n - 1, k \in T PROVE k + 1 \in T
    <3>1. k + 1 \in 1 .. n /\ (k + 1) - 1 = k /\ f[k] = g[k]
      BY <2>2
    <3>2. f[k + 1] = g[k + 1]
      BY <1>6, <3>1
    <3> QED BY <3>1, <3>2
  <2>3. \A k \in 0 .. n : k \in T
    <3> HIDE DEF T
    <3> QED BY <2>1, <2>2, CountingTo
  <2> QED BY <2>3
<1>8. g[n + 1] = g[n] \o x
  <2>1. n + 1 \in 1 .. n + 1 /\ (n + 1) - 1 = n
    OBVIOUS
  <2>2. g[n + 1] = g[(n + 1) - 1] \o t[n + 1]
    BY <1>2, <1>4, <2>1, Zenon DEF Parts
  <2> QED BY <1>2, <2>1, <2>2
<1>9. FlattenSeq(s) = f[n] /\ FlattenSeq(t) = g[n + 1]
  BY <1>1, <1>2, <1>3, <1>4 DEF Parts
<1> QED BY <1>3, <1>7, <1>8, <1>9 DEF t

\* Nothing put together is nothing.
LEMMA FlattenNone == FlattenSeq(<<>>) = <<>>
<1>1. Len(<<>>) = 0
  BY EmptySeq
<1> QED BY <1>1 DEF FlattenSeq

\* One more sequence at the end.
LEMMA FlattenJoin ==
    ASSUME NEW D, NEW s \in Seq(Seq(D)), NEW x \in Seq(D)
    PROVE  /\ FlattenSeq(s) \in Seq(D)
           /\ FlattenSeq(Append(s, x)) = Join(FlattenSeq(s), x)
BY FlattenAppend, Zenon DEF Join

\* One sequence.
LEMMA FlattenOne ==
    ASSUME NEW D, NEW x \in Seq(D)
    PROVE  /\ <<x>> \in Seq(Seq(D)) /\ Len(<<x>>) = 1
           /\ FlattenSeq(<<x>>) = x
<1>1. <<x>> \in Seq(Seq(D)) /\ Len(<<x>>) = 1 /\ <<x>> = Append(<<>>, x)
  OBVIOUS
<1>2. <<>> \in Seq(Seq(D)) /\ <<>> \in Seq(D)
  BY EmptySeq
<1>3. FlattenSeq(Append(<<>>, x)) = Join(FlattenSeq(<<>>), x)
  BY <1>2, FlattenJoin
<1>4. Join(<<>>, x) = x
  BY JoinEmpty
<1> QED BY <1>1, <1>3, <1>4, FlattenNone, Zenon

\* The sequences up to the k-th of them.
LEMMA FlattenNext ==
    ASSUME NEW D, NEW s \in Seq(Seq(D)), NEW k \in 1 .. Len(s)
    PROVE  /\ FlattenSeq(Upto(s, k - 1)) \in Seq(D) /\ s[k] \in Seq(D)
           /\ FlattenSeq(Upto(s, k)) = Join(FlattenSeq(Upto(s, k - 1)), s[k])
<1> DEFINE a == SubSeq(s, 1, k - 1)
<1>0. Len(s) \in Nat /\ k \in 1 .. Len(s) /\ 1 \in 1 .. Len(s) /\ s[k] \in Seq(D)
  BY LenProperties
<1>1. a \in Seq(Seq(D))
  BY <1>0, StartOfSeq
<1>2. SubSeq(s, 1, k) = a \o <<s[k]>>
  BY <1>0, SubSeqRecursiveSecond
<1>3. Append(a, s[k]) = a \o <<s[k]>>
  BY <1>0, <1>1, AppendIsConcat
<1>4. Upto(s, k - 1) = a /\ Upto(s, k) = Append(a, s[k])
  BY <1>2, <1>3, Zenon DEF Upto
<1> HIDE DEF a
<1>5. FlattenSeq(a) \in Seq(D) /\ FlattenSeq(Append(a, s[k])) = Join(FlattenSeq(a), s[k])
  BY <1>0, <1>1, FlattenJoin
<1> QED BY <1>0, <1>4, <1>5

\* Two sequences of sequences, put together.
LEMMA FlattenTwo ==
    ASSUME NEW D, NEW s \in Seq(Seq(D)), NEW t \in Seq(Seq(D))
    PROVE  FlattenSeq(Join(s, t)) = Join(FlattenSeq(s), FlattenSeq(t))
<1> DEFINE Q(j) == FlattenSeq(Join(s, Upto(t, j))) = Join(FlattenSeq(s), FlattenSeq(Upto(t, j)))
           T == {j \in 0 .. Len(t) : Q(j)}
<1>0. Len(t) \in Nat /\ FlattenSeq(s) \in Seq(D)
  <2>1. <<>> \in Seq(D)
    BY EmptySeq
  <2> QED BY <2>1, LenProperties, FlattenJoin
<1>1. 0 \in T
  <2>1. Upto(t, 0) = <<>> /\ Join(s, <<>>) = s /\ Join(FlattenSeq(s), <<>>) = FlattenSeq(s)
    BY <1>0, CutNone, JoinEmpty
  <2>2. Q(0)
    BY <2>1, FlattenNone, Zenon
  <2> HIDE DEF Q
  <2> QED BY <1>0, <2>2
<1>2. ASSUME NEW j \in 0 .. Len(t) - 1, j \in T PROVE j + 1 \in T
  <2> DEFINE a == Upto(t, j)
             x == t[j + 1]
  <2>0. j \in Nat /\ j <= Len(t) /\ j + 1 \in 1 .. Len(t) /\ (j + 1) - 1 = j /\ Q(j)
    BY <1>0, <1>2
  <2>1. a \in Seq(Seq(D)) /\ Len(a) = j
    BY <2>0, CutAt
  <2>2. /\ FlattenSeq(Upto(t, j)) \in Seq(D) /\ x \in Seq(D)
        /\ FlattenSeq(Upto(t, j + 1)) = Join(FlattenSeq(Upto(t, j)), x)
    <3>1. /\ FlattenSeq(Upto(t, (j + 1) - 1)) \in Seq(D) /\ x \in Seq(D)
          /\ FlattenSeq(Upto(t, j + 1)) = Join(FlattenSeq(Upto(t, (j + 1) - 1)), x)
      BY <2>0, FlattenNext
    <3> QED BY <2>0, <3>1
  <2>3. Upto(t, j + 1) = Append(a, x)
    <3>1. SubSeq(t, 1, j + 1) = SubSeq(t, 1, (j + 1) - 1) \o <<t[j + 1]>>
      <4>1. 1 \in 1 .. Len(t) /\ j + 1 \in 1 .. Len(t)
        BY <2>0, <1>0
      <4> QED BY <4>1, SubSeqRecursiveSecond
    <3>2. Upto(t, j + 1) = a \o <<x>>
      BY <2>0, <3>1, Zenon DEF Upto
    <3> HIDE DEF a, x
    <3>3. Append(a, x) = a \o <<x>>
      BY <2>1, <2>2, AppendIsConcat
    <3> QED BY <3>2, <3>3
  <2>4. Join(s, Append(a, x)) = Append(Join(s, a), x)
    <3> HIDE DEF a, x
    <3>1. Append(a, x) = Join(a, <<x>>) /\ <<x>> \in Seq(Seq(D))
      BY <2>1, <2>2, AppendIsConcat DEF Join
    <3>2. Join(s, a) \in Seq(Seq(D))
      BY <2>1, JoinFacts
    <3>3. Append(Join(s, a), x) = Join(Join(s, a), <<x>>)
      <4> DEFINE b == Join(s, a)
      <4>1. b \in Seq(Seq(D))
        BY <3>2
      <4> HIDE DEF b
      <4>2. Append(b, x) = Join(b, <<x>>)
        BY <4>1, <2>2, AppendIsConcat DEF Join
      <4> QED BY <4>2 DEF b
    <3>4. Join(Join(s, a), <<x>>) = Join(s, Join(a, <<x>>))
      <4> DEFINE w == <<x>>
      <4>1. w \in Seq(Seq(D))
        BY <3>1
      <4> HIDE DEF w
      <4>2. Join(Join(s, a), w) = Join(s, Join(a, w))
        BY <2>1, <4>1, JoinThree
      <4> QED BY <4>2 DEF w
    <3> QED BY <3>1, <3>3, <3>4
  <2>5. FlattenSeq(Append(Join(s, a), x)) = Join(FlattenSeq(Join(s, a)), x)
    <3> HIDE DEF a, x
    <3>1. Join(s, a) \in Seq(Seq(D))
      BY <2>1, JoinFacts
    <3> QED BY <2>2, <3>1, FlattenJoin
  <2>6. Join(Join(FlattenSeq(s), FlattenSeq(a)), x) = Join(FlattenSeq(s), Join(FlattenSeq(a), x))
    <3> HIDE DEF x
    <3> QED BY <1>0, <2>2, JoinThree
  <2>7. Q(j + 1)
    BY <2>0, <2>2, <2>3, <2>4, <2>5, <2>6, Zenon
  <2> HIDE DEF Q
  <2> QED BY <1>0, <2>0, <2>7
<1>3. \A j \in 0 .. Len(t) : j \in T
  <2> HIDE DEF T
  <2> QED BY <1>0, <1>1, <1>2, CountingTo
<1>4. Q(Len(t))
  BY <1>0, <1>3
<1>5. Upto(t, Len(t)) = t
  BY CutNone
<1> QED BY <1>4, <1>5

\* The sequences up to the k-th, and those behind it.
LEMMA FlattenCut ==
    ASSUME NEW D, NEW s \in Seq(Seq(D)), NEW k \in Nat, k <= Len(s)
    PROVE  /\ FlattenSeq(Upto(s, k)) \in Seq(D) /\ FlattenSeq(Behind(s, k)) \in Seq(D)
           /\ Join(FlattenSeq(Upto(s, k)), FlattenSeq(Behind(s, k))) = FlattenSeq(s)
<1>1. Upto(s, k) \in Seq(Seq(D)) /\ Behind(s, k) \in Seq(Seq(D)) /\ Join(Upto(s, k), Behind(s, k)) = s
  BY CutAt
<1>2. <<>> \in Seq(D)
  BY EmptySeq
<1>3. FlattenSeq(Upto(s, k)) \in Seq(D) /\ FlattenSeq(Behind(s, k)) \in Seq(D)
  BY <1>1, <1>2, FlattenJoin
<1>4. FlattenSeq(Join(Upto(s, k), Behind(s, k))) =
        Join(FlattenSeq(Upto(s, k)), FlattenSeq(Behind(s, k)))
  BY <1>1, FlattenTwo
<1> QED BY <1>1, <1>3, <1>4

\* The sequences from the k-th on.
LEMMA FlattenRest ==
    ASSUME NEW D, NEW s \in Seq(Seq(D)), NEW k \in 1 .. Len(s)
    PROVE  /\ FlattenSeq(Behind(s, k - 1)) \in Seq(D)
           /\ FlattenSeq(Behind(s, k)) \in Seq(D) /\ s[k] \in Seq(D)
           /\ FlattenSeq(Behind(s, k - 1)) = Join(s[k], FlattenSeq(Behind(s, k)))
<1> DEFINE before == FlattenSeq(Upto(s, k - 1))
           behind == FlattenSeq(Behind(s, k))
           from == FlattenSeq(Behind(s, k - 1))
<1>0. k \in Nat /\ k <= Len(s) /\ k - 1 \in Nat /\ k - 1 <= Len(s)
  BY LenProperties
<1>1. FlattenSeq(Upto(s, k)) \in Seq(D) /\ behind \in Seq(D)
        /\ Join(FlattenSeq(Upto(s, k)), behind) = FlattenSeq(s)
  BY <1>0, FlattenCut
<1>2. before \in Seq(D) /\ from \in Seq(D) /\ Join(before, from) = FlattenSeq(s)
  BY <1>0, FlattenCut
<1>3. s[k] \in Seq(D) /\ FlattenSeq(Upto(s, k)) = Join(before, s[k])
  BY FlattenNext
<1> HIDE DEF before, behind, from
<1>4. Join(Join(before, s[k]), behind) = Join(before, Join(s[k], behind))
  BY <1>1, <1>2, <1>3, JoinThree
<1>5. Join(s[k], behind) \in Seq(D)
  BY <1>1, <1>3, JoinFacts
<1>6. from = Join(s[k], behind)
  BY <1>1, <1>2, <1>3, <1>4, <1>5, JoinSame
<1> QED BY <1>1, <1>2, <1>3, <1>6 DEF behind, from
-----------------------------------------------------------------------------
(* ByteArray: writeToFile().                                               *)

Turns == [cur : Nat \cup {Null}, pos : Nat, left : Nat, out : Seq(Cell \cup {Null})]

FirstTurn == [cur |-> m_cur, pos |-> m_position, left |-> ReadSize, out |-> <<>>]

\* Before a turn that is to write the right bytes: what was written is what lies between
\* the position and where the loop is.
Right ==
    {at \in Turns :
        /\ at.pos + at.left = m_size /\ m_position <= at.pos
        /\ at.out = SubSeq(memory, m_position + 1, at.pos)
        /\ at.left > 0 =>
             /\ at.cur = NodeAt(at.pos, m_capacity)
             /\ at.pos % m_baseSize = 0 \/ at.left >= m_baseSize}

\* Inside a node with less than a node to go, and for ever so until it ends badly.
Wrong ==
    {at \in Turns :
        IF at.left = 0
          THEN at.out # <<>> /\ at.out[Len(at.out)] = Null
          ELSE /\ at.left < m_baseSize /\ at.pos % m_baseSize # 0
               /\ at.cur \in 1 .. m_capacity \div m_baseSize \cup {Null}}

TurnsWithin(X) == \A at \in X : FileTurn(at) \in X

\* The turns of the loop, one after the other.
LEMMA FileLoop ==
    ASSUME m_capacity \in Nat, NEW X, FirstTurn \in X, TurnsWithin(X)
    PROVE  \E f \in [0 .. m_capacity + 1 -> X] :
             /\ f[0] = FirstTurn
             /\ \A k \in 1 .. m_capacity + 1 : f[k] = FileTurn(f[k - 1])
             /\ FileBytes = f[m_capacity + 1].out
<1>1. PICK n \in Nat : n = m_capacity + 1
  OBVIOUS
<1> DEFINE F == [k \in 1 .. n |-> [x \in X |-> FileTurn(x)]]
<1>3. F \in [1 .. n -> [X -> X]]
  BY DEF TurnsWithin
<1>4. \A k \in 1 .. n, x \in X : F[k][x] = FileTurn(x)
  OBVIOUS
<1> HIDE DEF F
<1>r. \E f \in [0 .. n -> X] : Stepwise(n, FirstTurn, F, f)
  BY <1>3, StepByStep
<1>6. PICK f \in [0 .. n -> X] : f[0] = FirstTurn /\ \A k \in 1 .. n : f[k] = F[k][f[k - 1]]
  BY <1>r, Zenon DEF Stepwise
<1>7. \A k \in 1 .. n : f[k] = FileTurn(f[k - 1])
  <2> SUFFICES ASSUME NEW k \in 1 .. n PROVE f[k] = FileTurn(f[k - 1])
    OBVIOUS
  <2>1. k - 1 \in 0 .. n
    OBVIOUS
  <2>2. f[k - 1] \in X
    BY <2>1
  <2> QED BY <1>4, <1>6, <2>2
<1>8. FileBytes = f[n].out
  <2> DEFINE E(g) == g = [k \in 0 .. n |-> IF k = 0 THEN FirstTurn ELSE FileTurn(g[k - 1])]
             after == CHOOSE g : E(g)
  <2>1. FileBytes = after[n].out
    BY <1>1, Zenon DEF FileBytes, FirstTurn
  <2>2. E(f)
    <3>1. ASSUME NEW k \in 0 .. n PROVE f[k] = IF k = 0 THEN FirstTurn ELSE FileTurn(f[k - 1])
      <4>1. CASE k = 0
        BY <1>6, <4>1
      <4>2. CASE k # 0
        <5>1. k \in 1 .. n
          BY <4>2
        <5> QED BY <1>7, <4>2, <5>1
      <4> QED BY <4>1, <4>2
    <3> QED BY <3>1
  <2>3. E(after)
    <3> HIDE DEF E
    <3> QED BY <2>2, Zenon
  <2>4. \A k \in 0 .. n : after[k] = IF k = 0 THEN FirstTurn ELSE FileTurn(after[k - 1])
    <3> HIDE DEF after
    <3> QED BY <2>3, Zenon
  <2> HIDE DEF after, E
  <2>g. PICK g : g = after
    OBVIOUS
  <2>5. f[0] = g[0]
    <3>1. 0 \in 0 .. n
      OBVIOUS
    <3> QED BY <1>6, <2>4, <2>g, <3>1, Zenon
  <2>6. ASSUME NEW k \in 1 .. n, f[k - 1] = g[k - 1] PROVE f[k] = g[k]
    <3>1. k \in 0 .. n /\ k # 0
      OBVIOUS
    <3>2. g[k] = FileTurn(g[k - 1])
      BY <2>4, <2>g, <3>1, Zenon
    <3> QED BY <1>7, <2>6, <3>2
  <2>7. \A k \in 0 .. n : f[k] = g[k]
    <3> DEFINE S == {k \in 0 .. n : f[k] = g[k]}
    <3>1. 0 \in S
      BY <2>5
    <3>2. ASSUME NEW k \in 0 .. n - 1, k \in S PROVE k + 1 \in S
      <4>1. k + 1 \in 1 .. n /\ k + 1 \in 0 .. n /\ (k + 1) - 1 = k /\ f[k] = g[k]
        BY <3>2
      <4>2. f[(k + 1) - 1] = g[(k + 1) - 1] => f[k + 1] = g[k + 1]
        BY <2>6, <4>1, Zenon
      <4>3. f[k + 1] = g[k + 1]
        BY <4>1, <4>2
      <4> QED BY <4>1, <4>3
    <3>3. \A k \in 0 .. n : k \in S
      <4> HIDE DEF S
      <4> QED BY <3>1, <3>2, CountingTo
    <3> QED BY <3>3
  <2>8. n \in 0 .. n
    OBVIOUS
  <2> QED BY <2>1, <2>7, <2>8, <2>g, Zenon
<1> QED BY <1>1, <1>6, <1>7, <1>8, Zenon

\* What is left over behind whole nodes.
LEMMA BehindNodes ==
    ASSUME NEW b \in Nat, NEW rest \in Nat, rest < m_baseSize
    PROVE  (b * m_baseSize + rest) % m_baseSize = rest
<1>1. m_baseSize \in Nat \ {0}
  BY ByteArrayConstants
<1>2. rest \in 0 .. m_baseSize - 1
  BY <1>1
<1> QED BY <1>1, <1>2, DivisionExact

\* The node behind a node.
LEMMA NextNode ==
    ASSUME ByteInv, NEW cur \in 1 .. m_capacity \div m_baseSize
    PROVE  /\ cur * m_baseSize \in Nat /\ cur * m_baseSize <= m_capacity
           /\ NodeAt(cur * m_baseSize, m_capacity) \in 1 .. m_capacity \div m_baseSize \cup {Null}
           /\ NodeAt(cur * m_baseSize, m_capacity) \in {cur + 1, Null}
<1>1. m_baseSize \in Nat \ {0} /\ m_capacity \in Nat \ {0} /\ m_capacity % m_baseSize = 0
  BY Layout
<1>2. PICK n \in Nat, r \in 0 .. m_baseSize - 1 :
        n = m_capacity \div m_baseSize /\ r = m_capacity % m_baseSize /\ m_capacity = n * m_baseSize + r
  BY <1>1, Division
<1>3. cur \in Nat /\ cur <= n /\ m_capacity = n * m_baseSize
  BY <1>1, <1>2
<1>4. cur * m_baseSize \in Nat
  BY <1>1, <1>3
<1>5. cur * m_baseSize <= m_capacity
  <2>1. PICK d \in Nat : n = cur + d
    <3>1. n - cur \in Nat /\ n = cur + (n - cur)
      BY <1>3
    <3> QED BY <3>1
  <2>2. n * m_baseSize = cur * m_baseSize + d * m_baseSize /\ d * m_baseSize \in Nat
    BY <1>1, <1>3, <2>1
  <2> QED BY <1>3, <1>4, <2>2
<1>6. (cur * m_baseSize + 0) % m_baseSize = 0 /\ (cur * m_baseSize + 0) \div m_baseSize = cur
  <2>1. 0 \in 0 .. m_baseSize - 1
    BY <1>1
  <2> QED BY <1>1, <1>3, <2>1, DivisionExact
<1>7. cur * m_baseSize + 0 = cur * m_baseSize
  BY <1>4
<1>8. (cur * m_baseSize) \div m_baseSize = cur
  BY <1>6, <1>7
<1>9. NodeAt(cur * m_baseSize, m_capacity) \in {cur + 1, Null}
  BY <1>8, Zenon DEF NodeAt
<1> QED BY <1>1, <1>4, <1>5, <1>9, NodeOf

\* A turn at the right place writes at least a byte and leaves the loop at the right place.
LEMMA RightTurn ==
    ASSUME ByteInv, NEW at \in Right
    PROVE  /\ FileTurn(at) \in Right
           /\ at.left > 0 => FileTurn(at).left < at.left
           /\ at.left = 0 => FileTurn(at) = at
<1>1. /\ m_baseSize \in Nat \ {0} /\ memory \in Seq(Cell) /\ m_capacity = Len(memory)
      /\ m_capacity \in Nat \ {0} /\ m_capacity % m_baseSize = 0
      /\ m_size \in Nat /\ m_position \in Nat /\ m_position <= m_size /\ m_size <= m_capacity
  BY Layout DEF m_capacity
<1>2. /\ at.cur \in Nat \cup {Null} /\ at.pos \in Nat /\ at.left \in Nat /\ at \in Turns
      /\ at.pos + at.left = m_size /\ m_position <= at.pos
      /\ at.out = SubSeq(memory, m_position + 1, at.pos)
      /\ at.left > 0 =>
           /\ at.cur = NodeAt(at.pos, m_capacity)
           /\ at.pos % m_baseSize = 0 \/ at.left >= m_baseSize
  BY DEF Right, Turns
<1>3. CASE at.left = 0
  BY <1>3 DEF FileTurn
<1>4. CASE at.left > 0
  <2>p. PICK pos \in Nat : pos = at.pos
    BY <1>2
  <2>l. PICK togo \in Nat : togo = at.left
    BY <1>2
  <2>0. /\ pos + togo = m_size /\ m_position <= pos /\ togo > 0
        /\ pos % m_baseSize = 0 \/ togo >= m_baseSize
    BY <1>2, <1>4, <2>p, <2>l
  <2>1. pos < m_capacity
    BY <1>1, <2>0
  <2>2. PICK q \in Nat, r \in 0 .. m_baseSize - 1 :
          q = pos \div m_baseSize /\ r = pos % m_baseSize /\ pos = q * m_baseSize + r
    BY <1>1, Division, ZenonT(30)
  <2>3. at.cur = q + 1 /\ at.cur \in 1 .. m_capacity \div m_baseSize /\ at.cur # Null
    <3>1. /\ NodeAt(pos, m_capacity) \in 1 .. m_capacity \div m_baseSize \cup {Null}
          /\ NodeAt(pos, m_capacity) = Null <=> pos >= m_capacity
          /\ pos < m_capacity => NodeAt(pos, m_capacity) = pos \div m_baseSize + 1
      BY <1>1, <1>2, NodeOf
    <3>2. ~ (pos >= m_capacity)
      BY <1>1, <1>2, <2>1
    <3>3. at.cur = NodeAt(pos, m_capacity)
      BY <1>2, <2>0, <2>l, <2>p
    <3> QED BY <2>1, <2>2, <3>1, <3>2, <3>3
  <2> DEFINE most == IF togo < m_baseSize THEN togo ELSE m_baseSize
             len == most - r
  <2>4. FileLength(pos, togo) = len
    BY <1>1, <2>2, MinOfTwo DEF FileLength
  <2>5. len \in Nat /\ len > 0 /\ len <= togo
    BY <1>1, <2>0, <2>2
  <2>6. (at.cur - 1) * m_baseSize + (pos % m_baseSize) = pos
    <3>0. (q + 1) - 1 = q
      OBVIOUS
    <3>1. at.cur - 1 = q
      BY <2>3, <3>0, Zenon
    <3> QED BY <2>2, <3>1, Zenon
  <2>7. len = togo \/ (pos + len = at.cur * m_baseSize /\ len < togo)
    <3>1. CASE togo < m_baseSize
      <4>1. r = 0
        BY <1>1, <2>0, <2>2, <3>1
      <4> QED BY <3>1, <4>1
    <3>2. CASE ~ (togo < m_baseSize)
      <4>1. len = m_baseSize - r
        BY <3>2
      <4>2. (q + 1) * m_baseSize = q * m_baseSize + m_baseSize
        BY <1>1, <2>2
      <4>3. pos + len = (q + 1) * m_baseSize
        <5>1. PICK x \in Nat : x = q * m_baseSize
          BY <1>1, <2>2
        <5> QED BY <1>1, <2>2, <4>1, <4>2, <5>1
      <4> QED BY <1>2, <2>3, <2>5, <4>3
    <3> QED BY <3>1, <3>2
  <2> HIDE DEF len
  <2> DEFINE more == SubSeq(memory, pos + 1, pos + len)
             next == [cur |-> NodeAt(at.cur * m_baseSize, m_capacity), pos |-> pos + len,
                      left |-> togo - len, out |-> at.out \o more]
  <2>8. FileTurn(at) = next
    <3>1. ~ (togo <= 0) /\ ~ (at.cur = Null \/ len < 0)
      BY <2>0, <2>3, <2>5
    <3> QED BY <2>4, <2>6, <2>l, <2>p, <3>1, Zenon DEF FileTurn
  <2>9. at.out \o more = SubSeq(memory, m_position + 1, pos + len)
    <3>1. /\ m_position + 1 \in 1 .. Len(memory) + 1 /\ pos \in (m_position + 1) - 1 .. Len(memory)
          /\ pos + len \in pos .. Len(memory)
      BY <1>1, <2>0, <2>5
    <3>2. SubSeq(memory, m_position + 1, pos) \o SubSeq(memory, pos + 1, pos + len)
            = SubSeq(memory, m_position + 1, pos + len)
      <4>1. \A x \in 1 .. Len(memory) + 1 : \A y \in x - 1 .. Len(memory) : \A z \in y .. Len(memory) :
              SubSeq(memory, x, y) \o SubSeq(memory, y + 1, z) = SubSeq(memory, x, z)
        BY <1>1, ConcatAdjacentSubSeq, SMTT(30)
      <4> QED BY <3>1, <4>1, Zenon
    <3>3. at.out = SubSeq(memory, m_position + 1, pos)
      BY <1>2, <2>p
    <3> QED BY <3>2, <3>3, Zenon
  <2>10. at.out \o more \in Seq(Cell \cup {Null})
    <3>1. m_position <= pos + len /\ pos + len <= Len(memory) /\ pos + len \in Nat
      BY <1>1, <2>0, <2>5
    <3>2. memory \in Seq(Cell \cup {Null})
      BY <1>1, SeqOfMore
    <3>3. SubSeq(memory, m_position + 1, pos + len) \in Seq(Cell \cup {Null})
      BY <1>1, <3>1, <3>2, PartOfSeq
    <3> QED BY <2>9, <3>3, Zenon
  <2>11. NodeAt(at.cur * m_baseSize, m_capacity) \in Nat \cup {Null}
    BY <2>3, NextNode
  <2>12. /\ pos + len \in Nat /\ togo - len \in Nat /\ togo - len < togo
         /\ (pos + len) + (togo - len) = m_size /\ m_position <= pos + len
    BY <1>1, <2>0, <2>5
  <2>13. togo - len > 0 =>
           /\ NodeAt(at.cur * m_baseSize, m_capacity) = NodeAt(pos + len, m_capacity)
           /\ (pos + len) % m_baseSize = 0
    <3> SUFFICES ASSUME togo - len > 0
                 PROVE  /\ NodeAt(at.cur * m_baseSize, m_capacity) = NodeAt(pos + len, m_capacity)
                        /\ (pos + len) % m_baseSize = 0
      OBVIOUS
    <3>1. pos + len = at.cur * m_baseSize
      BY <2>5, <2>7
    <3>2. (at.cur * m_baseSize + 0) % m_baseSize = 0
      <4>1. 0 \in Nat /\ 0 < m_baseSize /\ at.cur \in Nat
        BY <1>1, <2>2, <2>3
      <4> QED BY <4>1, BehindNodes, Zenon
    <3>3. at.cur * m_baseSize + 0 = at.cur * m_baseSize
      BY <2>12, <3>1
    <3> QED BY <3>1, <3>2, <3>3
  <2> HIDE DEF more
  <2>14. next \in Turns
    BY <2>10, <2>11, <2>12 DEF Turns
  <2>15. next \in Right
    BY <2>9, <2>12, <2>13, <2>14 DEF Right
  <2>16. next.left < togo
    BY <2>12
  <2> HIDE DEF next
  <2> QED BY <1>2, <1>4, <2>8, <2>15, <2>16, <2>l
<1> QED BY <1>2, <1>3, <1>4

\* A turn at the wrong place leaves the loop at the next node, at the wrong place, if it
\* does not fail.
LEMMA WrongTurn ==
    ASSUME ByteInv, NEW at \in Wrong
    PROVE  /\ FileTurn(at) \in Wrong
           /\ at.left = 0 => FileTurn(at) = at
           /\ FileTurn(at).left = 0 \/ FileTurn(at).cur = Null
                \/ (at.cur \in Nat /\ FileTurn(at).cur = at.cur + 1)
           /\ at.cur = Null => FileTurn(at).left = 0
<1>1. /\ m_baseSize \in Nat \ {0} /\ memory \in Seq(Cell) /\ m_capacity = Len(memory)
      /\ m_capacity \in Nat \ {0} /\ m_capacity % m_baseSize = 0
  BY Layout DEF m_capacity
<1>2. /\ at.cur \in Nat \cup {Null} /\ at.pos \in Nat /\ at.left \in Nat /\ at \in Turns
      /\ at.out \in Seq(Cell \cup {Null})
      /\ at.left > 0 =>
           /\ at.left < m_baseSize /\ at.pos % m_baseSize # 0
           /\ at.cur \in 1 .. m_capacity \div m_baseSize \cup {Null}
  BY DEF Wrong, Turns
<1>3. CASE at.left = 0
  <2>1. FileTurn(at) = at
    BY <1>3 DEF FileTurn
  <2> QED BY <1>3, <2>1
<1>4. CASE at.left > 0
  <2>p. PICK pos \in Nat : pos = at.pos
    BY <1>2
  <2>l. PICK togo \in Nat : togo = at.left
    BY <1>2
  <2>1. PICK q \in Nat, r \in 0 .. m_baseSize - 1 :
          q = pos \div m_baseSize /\ r = pos % m_baseSize /\ pos = q * m_baseSize + r
    BY <1>1, Division
  <2>2. r # 0 /\ togo < m_baseSize /\ togo > 0
    BY <1>2, <1>4, <2>1, <2>l, <2>p
  <2>3. FileLength(pos, togo) = togo - r
    <3>1. Min({togo, m_baseSize}) = togo
      BY <1>1, <2>2, MinOfTwo
    <3> QED BY <2>1, <3>1, Zenon DEF FileLength
  <2>4. CASE at.cur = Null \/ togo - r < 0
    <3> DEFINE last == [at EXCEPT !.left = 0, !.out = Append(@, Null)]
    <3>1. FileTurn(at) = last
      <4>1. ~ (togo <= 0)
        BY <2>2
      <4> QED BY <2>1, <2>3, <2>4, <2>l, <2>p, <4>1, Zenon DEF FileTurn
    <3>2. /\ Append(at.out, Null) \in Seq(Cell \cup {Null})
          /\ Append(at.out, Null) # <<>>
          /\ Append(at.out, Null)[Len(Append(at.out, Null))] = Null
      <4>0. Null \in Cell \cup {Null}
        OBVIOUS
      <4>1. /\ Append(at.out, Null) \in Seq(Cell \cup {Null})
            /\ Len(Append(at.out, Null)) = Len(at.out) + 1
            /\ Append(at.out, Null)[Len(at.out) + 1] = Null
        BY <1>2, <4>0, AppendProperties
      <4>2. Len(at.out) \in Nat /\ Len(<<>>) = 0
        BY <1>2, LenProperties
      <4>3. Append(at.out, Null) # <<>>
        BY <4>1, <4>2
      <4> QED BY <4>1, <4>3
    <3>3. last \in Turns /\ last.left = 0 /\ last.out = Append(at.out, Null)
      BY <1>2, <3>2 DEF Turns
    <3> HIDE DEF last
    <3>4. last \in Wrong
      BY <3>2, <3>3 DEF Wrong
    <3> QED BY <1>4, <1>2, <3>1, <3>3, <3>4
  <2>5. CASE ~ (at.cur = Null \/ togo - r < 0)
    <3>1. at.cur \in 1 .. m_capacity \div m_baseSize /\ at.cur # Null /\ r <= togo
      BY <1>2, <1>4, <2>1, <2>5, <2>l
    <3> DEFINE len == togo - r
               start == (at.cur - 1) * m_baseSize + (pos % m_baseSize)
               more == SubSeq(memory, start + 1, start + len)
               next == [cur |-> NodeAt(at.cur * m_baseSize, m_capacity), pos |-> pos + len,
                        left |-> togo - len, out |-> at.out \o more]
    <3>2. FileTurn(at) = next
      <4>1. ~ (togo <= 0)
        BY <2>2
      <4> QED BY <2>3, <2>5, <2>l, <2>p, <4>1, Zenon DEF FileTurn
    <3>3. /\ at.cur * m_baseSize \in Nat /\ at.cur * m_baseSize <= m_capacity
          /\ NodeAt(at.cur * m_baseSize, m_capacity) \in 1 .. m_capacity \div m_baseSize \cup {Null}
          /\ NodeAt(at.cur * m_baseSize, m_capacity) \in {at.cur + 1, Null}
      BY <3>1, NextNode
    <3>4. PICK c \in Nat : at.cur = c + 1
      <4>1. at.cur - 1 \in Nat /\ at.cur = (at.cur - 1) + 1
        BY <1>1, <3>1
      <4> QED BY <4>1
    <3>5. start \in Nat /\ len \in Nat /\ start + len \in Nat /\ start + len <= m_capacity
      <4>1. PICK x \in Nat : x = c * m_baseSize
        BY <1>1, <3>4
      <4>2. (c + 1) * m_baseSize = x + m_baseSize /\ (c + 1) - 1 = c
        BY <1>1, <3>4, <4>1
      <4>3. start = x + r
        BY <2>1, <3>4, <4>1, <4>2
      <4>4. x + m_baseSize <= m_capacity /\ r <= togo
        BY <3>1, <3>3, <3>4, <4>2
      <4> HIDE DEF start
      <4>5. len \in Nat
        BY <3>1
      <4>6. start + len = x + togo
        BY <4>3
      <4> QED BY <1>1, <2>2, <4>3, <4>4, <4>5, <4>6
    <3>6. at.out \o more \in Seq(Cell \cup {Null})
      <4> HIDE DEF start, len
      <4>1. memory \in Seq(Cell \cup {Null})
        BY <1>1, SeqOfMore
      <4>2. start <= start + len /\ start + len <= Len(memory)
        BY <1>1, <3>5
      <4>3. more \in Seq(Cell \cup {Null})
        BY <3>5, <4>1, <4>2, PartOfSeq
      <4> HIDE DEF more
      <4> QED BY <1>2, <4>3, ConcatProperties
    <3>7. /\ pos + len \in Nat /\ togo - len = r /\ r \in Nat
          /\ r < m_baseSize /\ r # 0
      BY <1>1, <2>1, <2>2, <3>5
    <3>8. (pos + len) % m_baseSize # 0
      <4>1. pos + len = q * m_baseSize + togo
        <5>1. PICK x \in Nat : x = q * m_baseSize
          BY <1>1, <2>1
        <5> QED BY <2>1, <5>1
      <4>3. (q * m_baseSize + togo) % m_baseSize = togo
        BY <2>2, BehindNodes, Zenon
      <4> QED BY <2>2, <4>1, <4>3
    <3> HIDE DEF more, len
    <3>9. NodeAt(at.cur * m_baseSize, m_capacity) \in Nat \cup {Null}
      BY <3>3
    <3>10. next \in Turns
      BY <3>6, <3>7, <3>9 DEF Turns
    <3>11. next \in Wrong
      BY <3>3, <3>7, <3>8, <3>10 DEF Wrong
    <3>12. next.cur \in {at.cur + 1, Null} /\ at.cur \in Nat
      BY <3>3, <3>4
    <3> HIDE DEF next
    <3> QED BY <1>4, <1>2, <3>1, <3>2, <3>11, <3>12
  <2> QED BY <2>4, <2>5
<1> QED BY <1>2, <1>3, <1>4

\* From the start of a node, or with a node's worth to go, the loop writes what lies ahead.
LEMMA FileRight ==
    ASSUME ByteInv, ~ crashed,
           m_position % m_baseSize = 0 \/ ReadSize = 0 \/ ReadSize >= m_baseSize
    PROVE  FileBytes = SubSeq(memory, m_position + 1, m_size)
<1>1. /\ m_capacity \in Nat \ {0} /\ m_size \in Nat /\ m_position \in Nat
      /\ m_position <= m_size /\ m_size <= m_capacity /\ m_cur = NodeAt(m_position, m_capacity)
      /\ m_capacity % m_baseSize = 0 /\ m_baseSize \in Nat \ {0}
  BY Layout DEF ByteInv, CursorExact
<1>2. ReadSize \in Nat /\ m_position + ReadSize = m_size
  BY <1>1 DEF ReadSize
<1>3. FirstTurn \in Right
  <2>1. m_cur \in Nat \cup {Null}
    <3>1. m_cur \in 1 .. m_capacity \div m_baseSize \cup {Null}
      BY <1>1, NodeOf
    <3> QED BY <3>1
  <2>2. <<>> = SubSeq(memory, m_position + 1, m_position)
    BY <1>1, SubSeqEmpty
  <2>3. FirstTurn \in Turns
    BY <1>1, <1>2, <2>1 DEF FirstTurn, Turns
  <2>4. /\ FirstTurn.cur = m_cur /\ FirstTurn.pos = m_position /\ FirstTurn.left = ReadSize
        /\ FirstTurn.out = <<>>
    BY DEF FirstTurn
  <2>5. FirstTurn.out = SubSeq(memory, m_position + 1, FirstTurn.pos)
    BY <2>2, <2>4, Zenon
  <2>6. FirstTurn.left > 0 =>
          /\ FirstTurn.cur = NodeAt(FirstTurn.pos, m_capacity)
          /\ FirstTurn.pos % m_baseSize = 0 \/ FirstTurn.left >= m_baseSize
    BY <1>1, <1>2, <2>4
  <2>7. FirstTurn.pos + FirstTurn.left = m_size /\ m_position <= FirstTurn.pos
    BY <1>1, <1>2, <2>4
  <2> QED BY <2>3, <2>5, <2>6, <2>7 DEF Right
<1>n. PICK n \in Nat : n = m_capacity + 1
  BY <1>1
<1>4. PICK f \in [0 .. n -> Right] :
        /\ f[0] = FirstTurn
        /\ \A k \in 1 .. n : f[k] = FileTurn(f[k - 1])
        /\ FileBytes = f[n].out
  <2>1. TurnsWithin(Right)
    BY RightTurn DEF TurnsWithin
  <2> QED BY <1>1, <1>3, <1>n, <2>1, FileLoop
<1>5. \A k \in 0 .. n : f[k] \in Right /\ f[k].left \in Nat
  BY DEF Right, Turns
<1> DEFINE S == {k \in 0 .. n : f[k].left = 0 \/ f[k].left + k <= ReadSize}
<1>6. 0 \in S
  BY <1>1, <1>2, <1>4 DEF FirstTurn
<1>7. ASSUME NEW k \in 0 .. n - 1, k \in S PROVE k + 1 \in S
  <2>1. /\ k \in 0 .. n /\ k + 1 \in 0 .. n
        /\ k + 1 \in 1 .. n /\ (k + 1) - 1 = k
    OBVIOUS
  <2>2. f[k + 1] = FileTurn(f[k]) /\ f[k] \in Right /\ f[k].left \in Nat /\ f[k + 1].left \in Nat
    BY <1>4, <1>5, <2>1
  <2>3. f[k].left > 0 => f[k + 1].left < f[k].left
    BY <2>2, RightTurn
  <2>4. f[k].left = 0 => f[k + 1] = f[k]
    BY <2>2, RightTurn
  <2>5. f[k].left = 0 \/ f[k].left + k <= ReadSize
    BY <1>7
  <2>6. f[k + 1].left = 0 \/ f[k + 1].left + (k + 1) <= ReadSize
    BY <1>1, <1>2, <2>2, <2>3, <2>4, <2>5
  <2> QED BY <2>1, <2>6
<1>8. n \in S
  <2> HIDE DEF S
  <2>1. \A k \in 0 .. n : k \in S
    BY <1>6, <1>7, CountingTo
  <2> QED BY <2>1
<1>9. f[n] \in Right /\ f[n].left \in Nat
  BY <1>5
<1>10. f[n].left = 0
  BY <1>1, <1>2, <1>8, <1>9, <1>n
<1>11. \A at \in Right : at.left = 0 => at.out = SubSeq(memory, m_position + 1, m_size)
  <2> SUFFICES ASSUME NEW at \in Right, at.left = 0
               PROVE  at.out = SubSeq(memory, m_position + 1, m_size)
    OBVIOUS
  <2>1. at.pos = m_size
    BY <1>1 DEF Right, Turns
  <2> QED BY <2>1 DEF Right
<1> QED BY <1>4, <1>9, <1>10, <1>11

\* From inside a node with less than a node's worth to go, it does not.
LEMMA FileWrong ==
    ASSUME ByteInv, ~ crashed,
           m_position % m_baseSize # 0, ReadSize # 0, ReadSize < m_baseSize
    PROVE  FileBytes # SubSeq(memory, m_position + 1, m_size)
<1>1. /\ m_capacity \in Nat \ {0} /\ m_size \in Nat /\ m_position \in Nat /\ memory \in Seq(Cell)
      /\ m_position <= m_size /\ m_size <= m_capacity /\ m_cur = NodeAt(m_position, m_capacity)
      /\ m_capacity % m_baseSize = 0 /\ m_baseSize \in Nat \ {0} /\ m_capacity = Len(memory)
  BY Layout DEF ByteInv, CursorExact, m_capacity
<1>2. ReadSize \in Nat
  BY <1>1 DEF ReadSize
<1>3. m_cur \in 1 .. m_capacity \div m_baseSize \cup {Null} /\ m_cur \in Nat \cup {Null}
  <2>1. m_cur \in 1 .. m_capacity \div m_baseSize \cup {Null}
    BY <1>1, NodeOf
  <2> QED BY <2>1
<1>4. FirstTurn \in Wrong
  <2>1. FirstTurn \in Turns
    BY <1>1, <1>2, <1>3 DEF FirstTurn, Turns
  <2> QED BY <1>1, <1>2, <1>3, <2>1 DEF FirstTurn, Wrong
<1>n. PICK n \in Nat : n = m_capacity + 1
  BY <1>1
<1>5. PICK f \in [0 .. n -> Wrong] :
        /\ f[0] = FirstTurn
        /\ \A k \in 1 .. n : f[k] = FileTurn(f[k - 1])
        /\ FileBytes = f[n].out
  <2>1. TurnsWithin(Wrong)
    BY WrongTurn DEF TurnsWithin
  <2> QED BY <1>1, <1>4, <1>n, <2>1, FileLoop
<1>6. \A k \in 0 .. n :
        /\ f[k] \in Wrong /\ f[k].left \in Nat /\ f[k].cur \in Nat \cup {Null}
        /\ f[k].left > 0 => f[k].cur \in 1 .. m_capacity \div m_baseSize \cup {Null}
  <2> SUFFICES ASSUME NEW at \in Wrong
               PROVE  /\ at.left \in Nat /\ at.cur \in Nat \cup {Null}
                      /\ at.left > 0 => at.cur \in 1 .. m_capacity \div m_baseSize \cup {Null}
    OBVIOUS
  <2> QED BY DEF Wrong, Turns
<1> DEFINE S == {k \in 0 .. n :
                    f[k].left = 0 \/ f[k].cur = Null \/ (f[k].cur \in Nat /\ f[k].cur > k)}
<1>7. 0 \in S
  BY <1>1, <1>3, <1>5 DEF FirstTurn
<1>8. ASSUME NEW k \in 0 .. n - 1, k \in S PROVE k + 1 \in S
  <2>1. /\ k \in 0 .. n /\ k + 1 \in 0 .. n
        /\ k + 1 \in 1 .. n /\ (k + 1) - 1 = k
    OBVIOUS
  <2>2. f[k + 1] = FileTurn(f[k]) /\ f[k] \in Wrong
    BY <1>5, <1>6, <2>1
  <2>3. /\ f[k].left = 0 => f[k + 1] = f[k]
        /\ f[k + 1].left = 0 \/ f[k + 1].cur = Null
             \/ (f[k].cur \in Nat /\ f[k + 1].cur = f[k].cur + 1)
        /\ f[k].cur = Null => f[k + 1].left = 0
    BY <2>2, WrongTurn
  <2>4. f[k].left = 0 \/ f[k].cur = Null \/ (f[k].cur \in Nat /\ f[k].cur > k)
    BY <1>8
  <2>5. f[k + 1].left = 0 \/ f[k + 1].cur = Null \/ (f[k + 1].cur \in Nat /\ f[k + 1].cur > k + 1)
    BY <1>1, <2>3, <2>4
  <2> QED BY <2>1, <2>5
<1>9. m_capacity \in S
  <2> HIDE DEF S
  <2>1. \A k \in 0 .. n : k \in S
    BY <1>7, <1>8, CountingTo
  <2> QED BY <1>1, <1>n, <2>1
<1>10. f[m_capacity].left = 0 \/ f[m_capacity].cur = Null
  <2>1. m_capacity \in 0 .. n
    BY <1>1, <1>n
  <2>2. PICK last \in Nat : last = m_capacity \div m_baseSize /\ last <= m_capacity
    <3>1. PICK q \in Nat, r \in 0 .. m_baseSize - 1 :
            q = m_capacity \div m_baseSize /\ r = m_capacity % m_baseSize
              /\ m_capacity = q * m_baseSize + r
      BY <1>1, Division
    <3>2. q <= q * m_baseSize
      <4>1. PICK d \in Nat : m_baseSize = 1 + d
        <5>1. m_baseSize - 1 \in Nat /\ m_baseSize = 1 + (m_baseSize - 1)
          BY <1>1
        <5> QED BY <5>1
      <4>2. q * m_baseSize = q + q * d /\ q * d \in Nat
        BY <4>1
      <4> QED BY <4>2
    <3>3. PICK x \in Nat : x = q * m_baseSize
      BY <1>1, <3>1
    <3> QED BY <1>1, <3>1, <3>2, <3>3
  <2>3. f[m_capacity].left \in Nat
    BY <1>6, <2>1
  <2>4. f[m_capacity].left > 0 => f[m_capacity].cur \in 1 .. last \cup {Null}
    BY <1>6, <2>1, <2>2
  <2>5. f[m_capacity].left = 0 \/ f[m_capacity].cur = Null
          \/ (f[m_capacity].cur \in Nat /\ f[m_capacity].cur > m_capacity)
    BY <1>9
  <2> QED BY <1>1, <2>2, <2>3, <2>4, <2>5
<1> DEFINE end == f[n]
<1>11. end \in Wrong /\ end.left = 0
  <2>1. /\ m_capacity \in 0 .. n /\ n \in 1 .. n
        /\ n \in 0 .. n /\ n - 1 = m_capacity
    BY <1>1
  <2>2. end = FileTurn(f[m_capacity]) /\ f[m_capacity] \in Wrong /\ end \in Wrong
    BY <1>5, <1>6, <2>1
  <2>3. /\ f[m_capacity].left = 0 => FileTurn(f[m_capacity]) = f[m_capacity]
        /\ f[m_capacity].cur = Null => FileTurn(f[m_capacity]).left = 0
    BY <2>2, WrongTurn
  <2> QED BY <1>10, <2>2, <2>3
<1> DEFINE out == end.out
           ahead == SubSeq(memory, m_position + 1, m_size)
<1>12. out \in Seq(Cell \cup {Null}) /\ out # <<>> /\ out[Len(out)] = Null
  <2> HIDE DEF end
  <2> QED BY <1>11 DEF Wrong, Turns
<1>13. ahead \in Seq(Cell) /\ Null \notin Cell
  <2>1. ahead \in Seq(Cell)
    BY <1>1, PartOfSeq
  <2>2. Null \notin Byte
    BY ByteArrayConstants, ByteIsInt DEF Byte
  <2> QED BY <2>1, <2>2, ByteArrayConstants DEF Cell
<1> HIDE DEF ahead, end
<1>14. ASSUME out = ahead PROVE FALSE
  <2>1. Len(ahead) \in Nat /\ \A i \in 1 .. Len(ahead) : ahead[i] \in Cell
    BY <1>13, LenProperties
  <2>2. Len(ahead) # 0
    BY <1>12, <1>13, <1>14, EmptySeq
  <2>3. ahead[Len(ahead)] \in Cell
    BY <2>1, <2>2
  <2> QED BY <1>12, <1>13, <1>14, <2>3
<1> QED BY <1>5, <1>14 DEF ahead, end

\* writeToFile() writes what lies ahead exactly if it starts at the start of a node, or
\* with nothing or with a node's worth to write.
THEOREM FileExactHolds == Spec => []FileExact
<1>1. ByteInv => FileExact
  <2>1. ASSUME ByteInv, ~ crashed PROVE ReadSize \in Nat /\ m_baseSize \in Nat
    BY <2>1, Layout DEF ReadSize
  <2>2. ASSUME ByteInv, ~ crashed,
               ~ (m_position % m_baseSize = 0 \/ ReadSize = 0 \/ ReadSize >= m_baseSize)
        PROVE  m_position % m_baseSize # 0 /\ ReadSize # 0 /\ ReadSize < m_baseSize
    BY <2>1, <2>2
  <2> QED BY <2>2, FileRight, FileWrong DEF FileExact
<1>2. ByteInv /\ [Next]_vars => ByteInv'
  BY NextByteInv
<1> QED BY <1>1, <1>2, InitByteInv, PTL DEF Spec
-----------------------------------------------------------------------------
(* HttpConnection: the header.                                             *)

\* The provers do not take a string for a member of STRING.
Tokens ==
    STRING \cup Digits \cup {"none", "0", "200", "HTTP", "/1.1_2", "00_OK", "LF", "CR", "Content-", "Length:n",
                 "Transfer-", "Encoding:chunked"}

Parsers ==
    [last : Tokens, marked : BOOLEAN, status : Tokens, length : BOOLEAN, chunked : BOOLEAN,
     error : BOOLEAN, finished : BOOLEAN, nparse : Int]

\* The header of a response.
Header(chunked) ==
    IF chunked THEN <<"HTTP", "/1.1_2", "00_OK", "LF",
                      "Transfer-", "Encoding:chunked", "LF", "CR", "LF">>
               ELSE <<"HTTP", "/1.1_2", "00_OK", "LF", "Content-", "Length:n", "LF", "CR", "LF">>

\* What the parser knows when it has read k tokens of the header, or has failed.  A
\* part of a line has its mark unless the line was cut at the beginning of the part.
ReadTo(p, k, chunked, lines) ==
    IF p.error THEN "status" \in lines /\ ~ p.finished
    ELSE /\ p.finished <=> k = 9
         /\ p.last = IF k = 0 THEN "none" ELSE Header(chunked)[k]
         /\ k \in {1, 2} => p.marked \/ "status" \in lines
         /\ k \notin {1, 2, 5} => ~ p.marked
         /\ k >= 3 => p.status = "200" \/ "status" \in lines
         /\ chunked => "length" \notin lines /\ ~ p.length
         /\ ~ chunked /\ k < 5 => "length" \notin lines
         /\ ~ chunked /\ k = 5 => (p.marked <=> "length" \notin lines)
         /\ k < 6 => ~ p.length
         /\ ~ chunked /\ k >= 6 => (p.length <=> "length" \notin lines)
         /\ p.chunked <=> chunked /\ k >= 7

\* What a token makes of a parser p that is neither finished nor in error.
TokenMakes(p, token, u) ==
    /\ u \in Parsers /\ u.last = token /\ u.nparse = p.nparse + 1
    /\ u.marked <=> \/ token \in {"HTTP", "Content-", "Transfer-", "/1.1_2"}
                    \/ p.marked /\ token \notin {"00_OK", "Length:n", "Encoding:chunked"}
    /\ u.status = IF token # "00_OK" THEN p.status ELSE IF p.marked THEN "200" ELSE "0"
    /\ u.length <=> IF token = "Length:n" THEN p.marked ELSE p.length
    /\ u.chunked <=> p.chunked \/ (token = "LF" /\ p.last = "Encoding:chunked")
    /\ u.error <=> token = "/1.1_2" /\ ~ p.marked
    /\ u.finished <=> token = "LF" /\ p.last = "CR"

LEMMA TokenRead ==
    ASSUME NEW p \in Parsers, NEW token \in Tokens, ~ p.error, ~ p.finished
    PROVE  TokenMakes(p, token, ParseToken(p, token))
<1> DEFINE r == [p EXCEPT !.last = token]
           q == [r EXCEPT !.nparse = p.nparse + 1]
           u == ParseToken(p, token)
<1>1. /\ r \in Parsers /\ r.last = token
      /\ r.marked = p.marked /\ r.status = p.status /\ r.length = p.length
      /\ r.chunked = p.chunked /\ r.error = p.error /\ r.finished = p.finished
      /\ r.nparse = p.nparse
  BY DEF Parsers
<1>2. p.nparse + 1 \in Int /\ p.marked \in BOOLEAN /\ p.chunked \in BOOLEAN /\ p.status \in Tokens
  BY DEF Parsers
<1>3. q = [p EXCEPT !.last = token, !.nparse = @ + 1]
  OBVIOUS
<1>4. u = CASE token \in {"HTTP", "Content-", "Transfer-"} -> [q EXCEPT !.marked = TRUE]
             [] token = "/1.1_2" -> [q EXCEPT !.error = ~ p.marked, !.marked = TRUE]
             [] token = "00_OK" ->
                  [q EXCEPT !.status = IF p.marked THEN "200" ELSE "0", !.marked = FALSE]
             [] token = "Length:n" -> [q EXCEPT !.length = p.marked, !.marked = FALSE]
             [] token = "Encoding:chunked" -> [q EXCEPT !.marked = FALSE]
             [] token = "LF" ->
                  [q EXCEPT !.chunked = @ \/ p.last = "Encoding:chunked",
                            !.finished = p.last = "CR"]
             [] OTHER -> q
  <2> HIDE DEF q
  <2> QED BY <1>3 DEF ParseToken
<1>5. /\ q \in Parsers /\ q.nparse = p.nparse + 1 /\ q.last = token
      /\ q.marked = p.marked /\ q.status = p.status /\ q.length = p.length
      /\ q.chunked = p.chunked /\ ~ q.error /\ ~ q.finished
  <2> HIDE DEF r
  <2>1. /\ q \in Parsers /\ q.nparse = p.nparse + 1 /\ q.last = r.last
        /\ q.marked = r.marked /\ q.status = r.status /\ q.length = r.length
        /\ q.chunked = r.chunked /\ q.error = r.error /\ q.finished = r.finished
    BY <1>1, <1>2 DEF Parsers
  <2> QED BY <1>1, <2>1
<1> HIDE DEF q, u
<1>6. CASE token \in {"HTTP", "Content-", "Transfer-"}
  <2>1. u = [q EXCEPT !.marked = TRUE]
    BY <1>4, <1>6
  <2>2. /\ u \in Parsers /\ u.marked
        /\ u.last = q.last /\ u.status = q.status /\ u.length = q.length /\ u.chunked = q.chunked
        /\ u.error = q.error /\ u.finished = q.finished /\ u.nparse = q.nparse
    BY <1>5, <2>1 DEF Parsers
  <2> QED BY <1>5, <1>6, <2>2 DEF u, TokenMakes
<1>7. CASE token = "/1.1_2"
  <2> DEFINE v == [q EXCEPT !.error = ~ p.marked]
  <2>1. u = [v EXCEPT !.marked = TRUE]
    BY <1>4, <1>7
  <2>2. /\ v \in Parsers /\ v.error = ~ p.marked
        /\ v.last = q.last /\ v.status = q.status /\ v.length = q.length /\ v.chunked = q.chunked
        /\ v.finished = q.finished /\ v.nparse = q.nparse
    <3>1. (~ p.marked) \in BOOLEAN
      OBVIOUS
    <3> QED BY <1>5, <3>1 DEF Parsers
  <2> HIDE DEF v
  <2>3. /\ u \in Parsers /\ u.marked
        /\ u.last = v.last /\ u.status = v.status /\ u.length = v.length /\ u.chunked = v.chunked
        /\ u.error = v.error /\ u.finished = v.finished /\ u.nparse = v.nparse
    BY <2>1, <2>2 DEF Parsers
  <2> QED BY <1>5, <1>7, <2>2, <2>3 DEF u, TokenMakes
<1>8. CASE token = "00_OK"
  <2> DEFINE s == IF p.marked THEN "200" ELSE "0"
             v == [q EXCEPT !.status = s]
  <2>1. u = [v EXCEPT !.marked = FALSE]
    BY <1>4, <1>8
  <2>2. s \in Tokens
    BY DEF Tokens
  <2>3. /\ v \in Parsers /\ v.status = s
        /\ v.last = q.last /\ v.length = q.length /\ v.chunked = q.chunked
        /\ v.error = q.error /\ v.finished = q.finished /\ v.nparse = q.nparse
    <3> HIDE DEF s
    <3> QED BY <1>5, <2>2 DEF Parsers
  <2> HIDE DEF v
  <2>4. /\ u \in Parsers /\ ~ u.marked
        /\ u.last = v.last /\ u.status = v.status /\ u.length = v.length /\ u.chunked = v.chunked
        /\ u.error = v.error /\ u.finished = v.finished /\ u.nparse = v.nparse
    BY <2>1, <2>3 DEF Parsers
  <2> QED BY <1>5, <1>8, <2>3, <2>4 DEF u, TokenMakes
<1>9. CASE token = "Length:n"
  <2> DEFINE v == [q EXCEPT !.length = p.marked]
  <2>1. u = [v EXCEPT !.marked = FALSE]
    BY <1>4, <1>9
  <2>2. /\ v \in Parsers /\ v.length = p.marked
        /\ v.last = q.last /\ v.status = q.status /\ v.chunked = q.chunked
        /\ v.error = q.error /\ v.finished = q.finished /\ v.nparse = q.nparse
    BY <1>2, <1>5 DEF Parsers
  <2> HIDE DEF v
  <2>3. /\ u \in Parsers /\ ~ u.marked
        /\ u.last = v.last /\ u.status = v.status /\ u.length = v.length /\ u.chunked = v.chunked
        /\ u.error = v.error /\ u.finished = v.finished /\ u.nparse = v.nparse
    BY <2>1, <2>2 DEF Parsers
  <2> QED BY <1>5, <1>9, <2>2, <2>3 DEF u, TokenMakes
<1>10. CASE token = "Encoding:chunked"
  <2>1. u = [q EXCEPT !.marked = FALSE]
    BY <1>4, <1>10
  <2>2. /\ u \in Parsers /\ ~ u.marked
        /\ u.last = q.last /\ u.status = q.status /\ u.length = q.length /\ u.chunked = q.chunked
        /\ u.error = q.error /\ u.finished = q.finished /\ u.nparse = q.nparse
    BY <1>5, <2>1 DEF Parsers
  <2> QED BY <1>5, <1>10, <2>2 DEF u, TokenMakes
<1>11. CASE token = "LF"
  <2> DEFINE c == q.chunked \/ p.last = "Encoding:chunked"
             v == [q EXCEPT !.chunked = c]
  <2>1. u = [v EXCEPT !.finished = p.last = "CR"]
    BY <1>4, <1>11
  <2>2. /\ v \in Parsers /\ v.chunked = c
        /\ v.last = q.last /\ v.marked = q.marked /\ v.status = q.status /\ v.length = q.length
        /\ v.error = q.error /\ v.nparse = q.nparse
    <3>1. c \in BOOLEAN
      OBVIOUS
    <3> HIDE DEF c
    <3> QED BY <1>5, <3>1 DEF Parsers
  <2> HIDE DEF v
  <2>3. /\ u \in Parsers /\ u.finished = (p.last = "CR")
        /\ u.last = v.last /\ u.marked = v.marked /\ u.status = v.status /\ u.length = v.length
        /\ u.chunked = v.chunked /\ u.error = v.error /\ u.nparse = v.nparse
    <3>1. (p.last = "CR") \in BOOLEAN
      OBVIOUS
    <3> QED BY <2>1, <2>2, <3>1 DEF Parsers
  <2> QED BY <1>5, <1>11, <2>2, <2>3 DEF u, TokenMakes
<1>12. CASE token \notin {"HTTP", "Content-", "Transfer-", "/1.1_2", "00_OK", "Length:n",
                          "Encoding:chunked", "LF"}
  <2>1. u = q
    BY <1>4, <1>12
  <2> QED BY <1>5, <1>12, <2>1 DEF u, TokenMakes
<1> QED BY <1>6, <1>7, <1>8, <1>9, <1>10, <1>11, <1>12

\* Every token leaves a parser.
LEMMA ParserType ==
    ASSUME NEW p \in Parsers, NEW token \in Tokens
    PROVE  ParseToken(p, token) \in Parsers
<1>1. CASE p.error \/ p.finished
  <2>1. ParseToken(p, token) = p
    BY <1>1 DEF ParseToken
  <2> QED BY <2>1
<1>2. CASE ~ p.error /\ ~ p.finished
  <2>1. TokenMakes(p, token, ParseToken(p, token))
    BY <1>2, TokenRead
  <2> QED BY <2>1 DEF TokenMakes
<1> QED BY <1>1, <1>2

\* The tokens of the header, one by one.
LEMMA HeaderTokens ==
    ASSUME NEW chunked \in BOOLEAN
    PROVE  /\ Header(chunked) \in Seq(Tokens) /\ Len(Header(chunked)) = 9
           /\ Header(chunked)[1] = "HTTP" /\ Header(chunked)[2] = "/1.1_2"
           /\ Header(chunked)[3] = "00_OK" /\ Header(chunked)[4] = "LF"
           /\ Header(chunked)[5] = IF chunked THEN "Transfer-" ELSE "Content-"
           /\ Header(chunked)[6] = IF chunked THEN "Encoding:chunked" ELSE "Length:n"
           /\ Header(chunked)[7] = "LF" /\ Header(chunked)[8] = "CR" /\ Header(chunked)[9] = "LF"
<1>1. CASE chunked
  BY <1>1 DEF Header, Tokens
<1>2. CASE ~ chunked
  BY <1>2 DEF Header, Tokens
<1> QED BY <1>1, <1>2

\* One more token of the header.
LEMMA ParseNext ==
    ASSUME NEW p \in Parsers, NEW k \in 0 .. 8, NEW chunked \in BOOLEAN, NEW lines,
           ReadTo(p, k, chunked, lines)
    PROVE  LET u == ParseToken(p, Header(chunked)[k + 1])
           IN  /\ u \in Parsers
               /\ ReadTo(u, k + 1, chunked, lines)
               /\ ~ u.error => ~ p.error /\ u.nparse = p.nparse + 1
<1> DEFINE h == Header(chunked)
           token == h[k + 1]
           u == ParseToken(p, token)
<1>1. /\ h \in Seq(Tokens) /\ Len(h) = 9
      /\ h[1] = "HTTP" /\ h[2] = "/1.1_2" /\ h[3] = "00_OK" /\ h[4] = "LF"
      /\ h[5] = IF chunked THEN "Transfer-" ELSE "Content-"
      /\ h[6] = IF chunked THEN "Encoding:chunked" ELSE "Length:n"
      /\ h[7] = "LF" /\ h[8] = "CR" /\ h[9] = "LF"
  BY HeaderTokens
<1>t. /\ h[1] = "HTTP" /\ h[2] = "/1.1_2" /\ h[3] = "00_OK" /\ h[4] = "LF"
      /\ chunked => h[5] = "Transfer-" /\ h[6] = "Encoding:chunked"
      /\ ~ chunked => h[5] = "Content-" /\ h[6] = "Length:n"
      /\ h[7] = "LF" /\ h[8] = "CR" /\ h[9] = "LF"
  BY HeaderTokens
<1>l. h \in Seq(Tokens) /\ Len(h) = 9
  BY HeaderTokens
<1> HIDE DEF h
<1>2. token \in Tokens
  <2>1. k + 1 \in 1 .. Len(h)
    BY <1>l
  <2> QED BY <1>l, <2>1, ElementOfSeq
<1>3. u \in Parsers
  BY <1>2, ParserType
<1>4. CASE p.error
  <2>1. u = p
    BY <1>4 DEF ParseToken
  <2> QED BY <1>3, <1>4, <2>1 DEF ReadTo, h
<1>5. CASE ~ p.error
  <2>1. /\ ~ p.finished
        /\ p.last = IF k = 0 THEN "none" ELSE h[k]
        /\ k \in {1, 2} => p.marked \/ "status" \in lines
        /\ k \notin {1, 2, 5} => ~ p.marked
        /\ k >= 3 => p.status = "200" \/ "status" \in lines
        /\ chunked => "length" \notin lines /\ ~ p.length
        /\ ~ chunked /\ k < 5 => "length" \notin lines
        /\ ~ chunked /\ k = 5 => (p.marked <=> "length" \notin lines)
        /\ k < 6 => ~ p.length
        /\ ~ chunked /\ k >= 6 => (p.length <=> "length" \notin lines)
        /\ p.chunked <=> chunked /\ k >= 7
    BY <1>5 DEF ReadTo, h
  <2>2. /\ u.last = token /\ u.nparse = p.nparse + 1
        /\ u.marked <=> \/ token \in {"HTTP", "Content-", "Transfer-", "/1.1_2"}
                        \/ p.marked /\ token \notin {"00_OK", "Length:n", "Encoding:chunked"}
        /\ u.status = IF token # "00_OK" THEN p.status ELSE IF p.marked THEN "200" ELSE "0"
        /\ u.length <=> IF token = "Length:n" THEN p.marked ELSE p.length
        /\ u.chunked <=> p.chunked \/ (token = "LF" /\ p.last = "Encoding:chunked")
        /\ u.error <=> token = "/1.1_2" /\ ~ p.marked
        /\ u.finished <=> token = "LF" /\ p.last = "CR"
    <3>1. TokenMakes(p, token, u)
      <4> HIDE DEF token
      <4> QED BY <1>2, <1>5, <2>1, TokenRead
    <3> HIDE DEF u
    <3> QED BY <3>1 DEF TokenMakes
  <2> HIDE DEF u
  <2>3. k + 1 # 0 /\ k \in 0 .. 8 /\ u.last = Header(chunked)[k + 1]
    <3>1. u.last = Header(chunked)[k + 1]
      BY <2>2, Zenon DEF h
    <3> QED BY <3>1
  <2>c0. ASSUME k = 0 PROVE ReadTo(u, k + 1, chunked, lines)
    <3>0. k + 1 = 1
      BY <2>c0
    <3>1. token = "HTTP"
      BY <1>t, <3>0, Zenon
    <3> HIDE DEF token
    <3>2. u.marked /\ ~ u.error /\ ~ u.finished /\ (u.length <=> p.length) /\ (u.chunked <=> p.chunked)
      BY <2>2, <3>1, Zenon
    <3>3. ~ p.length /\ ~ p.chunked /\ (chunked => "length" \notin lines) /\ (~ chunked => "length" \notin lines)
      BY <2>1, <2>c0
    <3>4. ~ u.length /\ ~ u.chunked
      BY <3>2, <3>3, Zenon
    <3> QED BY <2>3, <3>0, <3>2, <3>3, <3>4 DEF ReadTo
  <2>c1. ASSUME k = 1 PROVE ReadTo(u, k + 1, chunked, lines)
    <3>0. k + 1 = 2
      BY <2>c1
    <3>1. token = "/1.1_2"
      BY <1>t, <3>0, Zenon
    <3> HIDE DEF token
    <3>2. /\ p.marked \/ "status" \in lines
          /\ ~ p.length
          /\ ~ p.chunked
          /\ chunked => "length" \notin lines
          /\ ~ chunked => "length" \notin lines
      BY <1>t, <2>1, <2>c1
    <3>3. /\ u.marked
          /\ u.error => "status" \in lines
          /\ ~ u.finished
          /\ ~ u.length
          /\ ~ u.chunked
      BY <2>2, <3>1, <3>2, Zenon
    <3> QED BY <2>3, <3>0, <3>2, <3>3 DEF ReadTo
  <2>c2. ASSUME k = 2 PROVE ReadTo(u, k + 1, chunked, lines)
    <3>0. k + 1 = 3
      BY <2>c2
    <3>1. token = "00_OK"
      BY <1>t, <3>0, Zenon
    <3> HIDE DEF token
    <3>2. /\ p.marked \/ "status" \in lines
          /\ ~ p.length
          /\ ~ p.chunked
          /\ chunked => "length" \notin lines
          /\ ~ chunked => "length" \notin lines
      BY <1>t, <2>1, <2>c2
    <3>3. /\ ~ u.marked
          /\ u.status = "200" \/ "status" \in lines
          /\ ~ u.error
          /\ ~ u.finished
          /\ ~ u.length
          /\ ~ u.chunked
      BY <2>2, <3>1, <3>2, Zenon
    <3> QED BY <2>3, <3>0, <3>2, <3>3 DEF ReadTo
  <2>c3. ASSUME k = 3 PROVE ReadTo(u, k + 1, chunked, lines)
    <3>0. k + 1 = 4
      BY <2>c3
    <3>1. token = "LF"
      BY <1>t, <3>0, Zenon
    <3> HIDE DEF token
    <3>2. /\ p.last = "00_OK"
          /\ ~ p.marked
          /\ p.status = "200" \/ "status" \in lines
          /\ ~ p.length
          /\ ~ p.chunked
          /\ chunked => "length" \notin lines
          /\ ~ chunked => "length" \notin lines
      BY <1>t, <2>1, <2>c3
    <3>3. /\ ~ u.marked
          /\ u.status = "200" \/ "status" \in lines
          /\ ~ u.error
          /\ ~ u.finished
          /\ ~ u.length
          /\ ~ u.chunked
      BY <2>2, <3>1, <3>2, Zenon
    <3> QED BY <2>3, <3>0, <3>2, <3>3 DEF ReadTo
  <2>c4. ASSUME k = 4 PROVE ReadTo(u, k + 1, chunked, lines)
    <3>0. k + 1 = 5
      BY <2>c4
    <3>1. token = (IF chunked THEN "Transfer-" ELSE "Content-")
      BY <1>t, <3>0, Zenon
    <3> HIDE DEF token
    <3>2. /\ ~ p.marked
          /\ p.status = "200" \/ "status" \in lines
          /\ ~ p.length
          /\ ~ p.chunked
          /\ chunked => "length" \notin lines
          /\ ~ chunked => "length" \notin lines
      BY <1>t, <2>1, <2>c4
    <3>3. /\ u.marked
          /\ u.status = "200" \/ "status" \in lines
          /\ ~ u.error
          /\ ~ u.finished
          /\ ~ u.length
          /\ ~ u.chunked
      BY <2>2, <3>1, <3>2, Zenon
    <3> QED BY <2>3, <3>0, <3>2, <3>3 DEF ReadTo
  <2>c5. ASSUME k = 5 PROVE ReadTo(u, k + 1, chunked, lines)
    <3>0. k + 1 = 6
      BY <2>c5
    <3>1. token = (IF chunked THEN "Encoding:chunked" ELSE "Length:n")
      BY <1>t, <3>0, Zenon
    <3> HIDE DEF token
    <3>2. /\ p.status = "200" \/ "status" \in lines
          /\ ~ p.length
          /\ ~ p.chunked
          /\ chunked => "length" \notin lines
          /\ ~ chunked => (p.marked <=> "length" \notin lines)
      BY <1>t, <2>1, <2>c5
    <3>3. /\ ~ u.marked
          /\ u.status = "200" \/ "status" \in lines
          /\ ~ u.error
          /\ ~ u.finished
          /\ chunked => ~ u.length
          /\ ~ chunked => (u.length <=> "length" \notin lines)
          /\ ~ u.chunked
      BY <2>2, <3>1, <3>2, Zenon
    <3> QED BY <2>3, <3>0, <3>2, <3>3 DEF ReadTo
  <2>c6. ASSUME k = 6 PROVE ReadTo(u, k + 1, chunked, lines)
    <3>0. k + 1 = 7
      BY <2>c6
    <3>1. token = "LF"
      BY <1>t, <3>0, Zenon
    <3> HIDE DEF token
    <3>2. /\ p.last = IF chunked THEN "Encoding:chunked" ELSE "Length:n"
          /\ ~ p.marked
          /\ p.status = "200" \/ "status" \in lines
          /\ chunked => ~ p.length
          /\ ~ chunked => (p.length <=> "length" \notin lines)
          /\ chunked => "length" \notin lines
          /\ ~ p.chunked
      BY <1>t, <2>1, <2>c6
    <3>3. /\ ~ u.marked
          /\ u.status = "200" \/ "status" \in lines
          /\ ~ u.error
          /\ ~ u.finished
          /\ chunked => ~ u.length
          /\ ~ chunked => (u.length <=> "length" \notin lines)
          /\ u.chunked <=> chunked
      BY <2>2, <3>1, <3>2, Zenon
    <3> QED BY <2>3, <3>0, <3>2, <3>3 DEF ReadTo
  <2>c7. ASSUME k = 7 PROVE ReadTo(u, k + 1, chunked, lines)
    <3>0. k + 1 = 8
      BY <2>c7
    <3>1. token = "CR"
      BY <1>t, <3>0, Zenon
    <3> HIDE DEF token
    <3>2. /\ ~ p.marked
          /\ p.status = "200" \/ "status" \in lines
          /\ chunked => ~ p.length
          /\ ~ chunked => (p.length <=> "length" \notin lines)
          /\ chunked => "length" \notin lines
          /\ p.chunked <=> chunked
      BY <1>t, <2>1, <2>c7
    <3>3. /\ ~ u.marked
          /\ u.status = "200" \/ "status" \in lines
          /\ ~ u.error
          /\ ~ u.finished
          /\ chunked => ~ u.length
          /\ ~ chunked => (u.length <=> "length" \notin lines)
          /\ u.chunked <=> chunked
      BY <2>2, <3>1, <3>2, Zenon
    <3> QED BY <2>3, <3>0, <3>2, <3>3 DEF ReadTo
  <2>c8. ASSUME k = 8 PROVE ReadTo(u, k + 1, chunked, lines)
    <3>0. k + 1 = 9
      BY <2>c8
    <3>1. token = "LF"
      BY <1>t, <3>0, Zenon
    <3> HIDE DEF token
    <3>2. /\ p.last = "CR"
          /\ ~ p.marked
          /\ p.status = "200" \/ "status" \in lines
          /\ chunked => ~ p.length
          /\ ~ chunked => (p.length <=> "length" \notin lines)
          /\ chunked => "length" \notin lines
          /\ p.chunked <=> chunked
      BY <1>t, <2>1, <2>c8
    <3>3. /\ ~ u.marked
          /\ u.status = "200" \/ "status" \in lines
          /\ ~ u.error
          /\ u.finished
          /\ chunked => ~ u.length
          /\ ~ chunked => (u.length <=> "length" \notin lines)
          /\ u.chunked <=> chunked
      BY <2>2, <3>1, <3>2, Zenon
    <3> QED BY <2>3, <3>0, <3>2, <3>3 DEF ReadTo
  <2>7. ReadTo(u, k + 1, chunked, lines)
    BY <2>3, <2>c0, <2>c1, <2>c2, <2>c3, <2>c4, <2>c5, <2>c6, <2>c7, <2>c8
  <2> QED BY <1>3, <1>5, <2>2, <2>7 DEF u, token, h
<1> QED BY <1>4, <1>5

\* The parser after each of the tokens.
Executed(p, tokens, f) ==
    /\ f[0] = [p EXCEPT !.marked = FALSE, !.nparse = 0]
    /\ \A k \in 1 .. Len(tokens) : f[k] = ParseToken(f[k - 1], tokens[k])
    /\ Execute(p, tokens) = f[Len(tokens)]

\* A call of execute() reads the tokens one after the other.
LEMMA ExecuteSteps ==
    ASSUME NEW p \in Parsers, NEW tokens \in Seq(Tokens)
    PROVE  \E f \in [0 .. Len(tokens) -> Parsers] : Executed(p, tokens, f)
<1>1. PICK n \in Nat : n = Len(tokens)
  BY LenProperties
<1>2. \A k \in 1 .. n : tokens[k] \in Tokens
  BY <1>1, LenProperties
<1> DEFINE F == [k \in 1 .. n |-> [x \in Parsers |-> ParseToken(x, tokens[k])]]
           start == [p EXCEPT !.marked = FALSE, !.nparse = 0]
<1>3. F \in [1 .. n -> [Parsers -> Parsers]]
  <2> SUFFICES ASSUME NEW k \in 1 .. n, NEW x \in Parsers PROVE ParseToken(x, tokens[k]) \in Parsers
    OBVIOUS
  <2> QED BY <1>2, ParserType
<1>4. \A k \in 1 .. n, x \in Parsers : F[k][x] = ParseToken(x, tokens[k])
  OBVIOUS
<1>5. start \in Parsers
  <2> DEFINE q == [p EXCEPT !.marked = FALSE]
  <2>1. q \in Parsers
    BY DEF Parsers
  <2>2. start = [q EXCEPT !.nparse = 0]
    OBVIOUS
  <2> HIDE DEF q, start
  <2> QED BY <2>1, <2>2 DEF Parsers
<1> HIDE DEF F, start
<1>r. \E f \in [0 .. n -> Parsers] : Stepwise(n, start, F, f)
  BY <1>3, <1>5, StepByStep
<1>6. PICK f \in [0 .. n -> Parsers] : f[0] = start /\ \A k \in 1 .. n : f[k] = F[k][f[k - 1]]
  BY <1>r, Zenon DEF Stepwise
<1>7. \A k \in 1 .. n : f[k] = ParseToken(f[k - 1], tokens[k])
  <2> SUFFICES ASSUME NEW k \in 1 .. n PROVE f[k] = ParseToken(f[k - 1], tokens[k])
    OBVIOUS
  <2>1. k - 1 \in 0 .. n
    OBVIOUS
  <2>2. f[k - 1] \in Parsers
    BY <2>1
  <2> QED BY <1>4, <1>6, <2>2
<1>8. Execute(p, tokens) = f[n]
  <2> DEFINE E(g) == g = [k \in 0 .. n |-> IF k = 0 THEN start ELSE ParseToken(g[k - 1], tokens[k])]
             after == CHOOSE g : E(g)
  <2>1. Execute(p, tokens) = after[n]
    BY <1>1, Zenon DEF Execute, start
  <2>2. E(f)
    <3>1. ASSUME NEW k \in 0 .. n PROVE f[k] = IF k = 0 THEN start ELSE ParseToken(f[k - 1], tokens[k])
      <4>1. CASE k = 0
        BY <1>6, <4>1
      <4>2. CASE k # 0
        <5>1. k \in 1 .. n
          BY <4>2
        <5> QED BY <1>7, <4>2, <5>1
      <4> QED BY <4>1, <4>2
    <3> QED BY <3>1
  <2>3. E(after)
    <3> HIDE DEF E
    <3> QED BY <2>2, Zenon
  <2>4. \A k \in 0 .. n : after[k] = IF k = 0 THEN start ELSE ParseToken(after[k - 1], tokens[k])
    <3> HIDE DEF after
    <3> QED BY <2>3, Zenon
  <2> HIDE DEF after, E
  <2>5. f[0] = after[0]
    <3>1. 0 \in 0 .. n
      OBVIOUS
    <3> QED BY <1>6, <2>4, <3>1, Zenon
  <2>6. ASSUME NEW k \in 1 .. n, f[k - 1] = after[k - 1] PROVE f[k] = after[k]
    <3>1. k \in 0 .. n /\ k # 0
      OBVIOUS
    <3>2. after[k] = ParseToken(after[k - 1], tokens[k])
      BY <2>4, <3>1, Zenon
    <3> QED BY <1>7, <2>6, <3>2
  <2>7. \A k \in 0 .. n : f[k] = after[k]
    BY <2>5, <2>6, AlikeUpTo, ZenonT(60)
  <2>8. n \in 0 .. n
    OBVIOUS
  <2> QED BY <2>1, <2>7, <2>8, Zenon
<1>9. Executed(p, tokens, f)
  BY <1>1, <1>6, <1>7, <1>8, Zenon DEF Executed, start
<1> QED BY <1>1, <1>9, Zenon

\* How far a parser has read does not depend on its count.
LEMMA ReadToAlike ==
    ASSUME NEW p, NEW q, NEW k, NEW chunked, NEW lines,
           /\ p.error = q.error /\ p.finished = q.finished /\ p.last = q.last
           /\ p.marked = q.marked /\ p.status = q.status /\ p.length = q.length
           /\ p.chunked = q.chunked,
           ReadTo(p, k, chunked, lines)
    PROVE  ReadTo(q, k, chunked, lines)
  BY DEF ReadTo

\* A call of execute() in the header reads to its end or to the end of the tokens, if
\* it does not fail.
LEMMA ExecuteReads ==
    ASSUME NEW p \in Parsers, NEW tokens \in Seq(Tokens), NEW k \in 0 .. 8,
           NEW chunked \in BOOLEAN, NEW lines,
           ReadTo([p EXCEPT !.marked = FALSE], k, chunked, lines),
           \A i \in 1 .. Len(tokens) : k + i <= 9 => tokens[i] = Header(chunked)[k + i]
    PROVE  /\ Execute(p, tokens) \in Parsers
           /\ ReadTo(Execute(p, tokens), IF k + Len(tokens) <= 9 THEN k + Len(tokens) ELSE 9,
                     chunked, lines)
           /\ \/ Execute(p, tokens).error
              \/ Execute(p, tokens).nparse = IF k + Len(tokens) <= 9 THEN Len(tokens) ELSE 9 - k
<1>1. PICK n \in Nat : n = Len(tokens)
  BY LenProperties
<1>2. PICK f \in [0 .. n -> Parsers] : Executed(p, tokens, f)
  BY <1>1, ExecuteSteps, Zenon
<1>3. /\ f[0] = [p EXCEPT !.marked = FALSE, !.nparse = 0]
      /\ \A i \in 1 .. n : f[i] = ParseToken(f[i - 1], tokens[i])
      /\ Execute(p, tokens) = f[n]
  BY <1>1, <1>2, Zenon DEF Executed
<1>4. \A i \in 0 .. n : f[i] \in Parsers
  OBVIOUS
<1> DEFINE j(i) == IF k + i <= 9 THEN k + i ELSE 9
           P(i) == ReadTo(f[i], j(i), chunked, lines) /\ (f[i].error \/ f[i].nparse = j(i) - k)
           S == {i \in 0 .. n : P(i)}
<1>5. 0 \in S
  <2> DEFINE q == [p EXCEPT !.marked = FALSE]
  <2>1. q \in Parsers /\ ReadTo(q, k, chunked, lines)
    BY DEF Parsers
  <2>2. f[0] = [q EXCEPT !.nparse = 0]
    BY <1>3
  <2> HIDE DEF q
  <2>3. /\ f[0].error = q.error /\ f[0].finished = q.finished /\ f[0].last = q.last
        /\ f[0].marked = q.marked /\ f[0].status = q.status /\ f[0].length = q.length
        /\ f[0].chunked = q.chunked /\ f[0].nparse = 0
    BY <2>1, <2>2 DEF Parsers
  <2>4. ReadTo(f[0], k, chunked, lines)
    BY <2>1, <2>3, ReadToAlike
  <2>5. j(0) = k /\ 0 \in 0 .. n /\ j(0) - k = 0
    OBVIOUS
  <2> HIDE DEF j
  <2> QED BY <2>3, <2>4, <2>5
<1>6. ASSUME NEW i \in 0 .. n - 1, i \in S PROVE i + 1 \in S
  <2>0. /\ i \in 0 .. n /\ i + 1 \in 0 .. n /\ i + 1 \in 1 .. n /\ (i + 1) - 1 = i
        /\ f[i] \in Parsers
    BY <1>4
  <2>1. P(i)
    BY <1>6
  <2>2. f[i + 1] = ParseToken(f[i], tokens[i + 1])
    BY <1>3, <2>0
  <2>3. CASE f[i].error
    <3>1. f[i + 1] = f[i]
      BY <2>2, <2>3 DEF ParseToken
    <3>2. ReadTo(f[i + 1], j(i + 1), chunked, lines)
      <4> HIDE DEF j
      <4> QED BY <2>1, <2>3, <3>1 DEF ReadTo
    <3> HIDE DEF j
    <3> QED BY <2>0, <2>3, <3>1, <3>2
  <2>4. CASE ~ f[i].error /\ k + i >= 9
    <3>1. j(i) = 9 /\ j(i + 1) = 9
      BY <2>4, SMTT(30)
    <3>2. f[i].finished
      <4> HIDE DEF j
      <4> QED BY <2>1, <2>4, <3>1 DEF ReadTo
    <3>3. f[i + 1] = f[i]
      BY <2>2, <3>2 DEF ParseToken
    <3> HIDE DEF j
    <3> QED BY <2>0, <2>1, <3>1, <3>3
  <2>5. CASE ~ f[i].error /\ k + i < 9
    <3> DEFINE m == k + i
    <3>1. m \in 0 .. 8 /\ j(i) = m /\ j(i + 1) = m + 1 /\ k + (i + 1) = m + 1 /\ m + 1 <= 9
      <4> HIDE DEF S, P
      <4>1. k \in Nat /\ i \in Nat /\ k + i <= 8
        BY <2>5
      <4>2. m \in 0 .. 8 /\ k + (i + 1) = m + 1 /\ m + 1 <= 9
        BY <4>1
      <4>3. j(i) = m
        BY <4>1
      <4>4. j(i + 1) = m + 1
        BY <4>2
      <4> QED BY <4>2, <4>3, <4>4
    <3>m. m - k \in Nat /\ (m + 1) - k = (m - k) + 1
      OBVIOUS
    <3> HIDE DEF j, m
    <3>2. tokens[i + 1] = Header(chunked)[m + 1]
      BY <1>1, <2>0, <3>1
    <3>3. ReadTo(f[i], m, chunked, lines) /\ f[i].nparse = m - k
      BY <2>1, <2>5, <3>1
    <3> DEFINE u == ParseToken(f[i], Header(chunked)[m + 1])
    <3>u. u = f[i + 1]
      BY <2>2, <3>2
    <3>v. /\ ReadTo(u, m + 1, chunked, lines)
          /\ ~ u.error => u.nparse = f[i].nparse + 1
      <4>1. m \in 0 .. 8 /\ f[i] \in Parsers
        BY <2>0, <3>1
      <4> QED BY <3>3, <4>1, ParseNext, ZenonT(60)
    <3> HIDE DEF u
    <3>4. /\ ReadTo(f[i + 1], m + 1, chunked, lines)
          /\ ~ f[i + 1].error => f[i + 1].nparse = f[i].nparse + 1
      BY <3>u, <3>v
    <3>5. f[i + 1].error \/ f[i + 1].nparse = j(i + 1) - k
      BY <3>1, <3>3, <3>4, <3>m
    <3> QED BY <2>0, <3>1, <3>4, <3>5
  <2> QED BY <2>3, <2>4, <2>5
<1>7. \A i \in 0 .. n : i \in S
  <2> HIDE DEF S
  <2> QED BY <1>5, <1>6, CountingTo
<1>8. n \in 0 .. n
  OBVIOUS
<1>9. P(n)
  <2> HIDE DEF P
  <2> QED BY <1>7, <1>8
<1>11. CASE k + n <= 9
  <2>1. j(n) = k + n /\ j(n) - k = n
    BY <1>11
  <2> HIDE DEF j
  <2>2. ReadTo(f[n], k + n, chunked, lines) /\ (f[n].error \/ f[n].nparse = n)
    BY <1>9, <2>1
  <2> QED BY <1>1, <1>3, <1>4, <1>8, <1>11, <2>2
<1>12. CASE ~ (k + n <= 9)
  <2>1. j(n) = 9
    BY <1>12
  <2> HIDE DEF j
  <2>2. ReadTo(f[n], 9, chunked, lines) /\ (f[n].error \/ f[n].nparse = 9 - k)
    BY <1>9, <2>1
  <2> QED BY <1>1, <1>3, <1>4, <1>8, <1>12, <2>2
<1> QED BY <1>11, <1>12

\* The line that a read cuts.
Noted(p, lines) ==
    IF p.marked
      THEN lines \cup {CASE p.last = "Content-" -> "length"
                         [] p.last = "Transfer-" -> "encoding"
                         [] OTHER -> "status"}
      ELSE lines

\* At the end of a read a part of a line loses its mark, and the line is noted.
LEMMA MarkLost ==
    ASSUME NEW p \in Parsers, NEW k \in 0 .. 9, NEW chunked \in BOOLEAN, NEW lines,
           ReadTo(p, k, chunked, lines)
    PROVE  /\ ReadTo([p EXCEPT !.marked = FALSE], k, chunked, Noted(p, lines))
           /\ lines \subseteq Noted(p, lines)
           /\ p.error => "status" \in Noted(p, lines)
           /\ ~ p.error /\ k = 9 => Noted(p, lines) = lines
           /\ k >= 6 => ~ p.marked \/ p.error
<1> DEFINE q == [p EXCEPT !.marked = FALSE]
<1>1. /\ q.marked = FALSE /\ p.marked \in BOOLEAN
      /\ q.error = p.error /\ q.finished = p.finished /\ q.last = p.last
      /\ q.status = p.status /\ q.length = p.length /\ q.chunked = p.chunked
  BY DEF Parsers
<1>2. lines \subseteq Noted(p, lines)
  BY Zenon DEF Noted
<1> HIDE DEF q
<1>3. CASE p.error
  <2>1. "status" \in lines /\ ~ p.finished
    BY <1>3 DEF ReadTo
  <2>2. ReadTo(q, k, chunked, Noted(p, lines))
    BY <1>1, <1>2, <1>3, <2>1 DEF ReadTo
  <2> QED BY <1>2, <1>3, <2>1, <2>2 DEF q
<1>4. CASE ~ p.error
  <2>1. /\ p.finished <=> k = 9
        /\ p.last = IF k = 0 THEN "none" ELSE Header(chunked)[k]
        /\ k \in {1, 2} => p.marked \/ "status" \in lines
        /\ k \notin {1, 2, 5} => ~ p.marked
        /\ k >= 3 => p.status = "200" \/ "status" \in lines
        /\ chunked => "length" \notin lines /\ ~ p.length
        /\ ~ chunked /\ k < 5 => "length" \notin lines
        /\ ~ chunked /\ k = 5 => (p.marked <=> "length" \notin lines)
        /\ k < 6 => ~ p.length
        /\ ~ chunked /\ k >= 6 => (p.length <=> "length" \notin lines)
        /\ p.chunked <=> chunked /\ k >= 7
    BY <1>4 DEF ReadTo
  <2>2. CASE ~ p.marked
    <3>1. Noted(p, lines) = lines
      BY <2>2 DEF Noted
    <3>2. ReadTo(q, k, chunked, lines)
      BY <1>1, <2>2, ReadToAlike
    <3> QED BY <1>2, <1>4, <2>2, <3>1, <3>2 DEF q
  <2>3. CASE p.marked /\ k \in {1, 2}
    <3>1. p.last = "HTTP" \/ p.last = "/1.1_2"
      BY <2>1, <2>3, HeaderTokens
    <3>2. Noted(p, lines) = lines \cup {"status"}
      BY <2>3, <3>1 DEF Noted
    <3>3. "status" \in Noted(p, lines) /\ ("length" \in Noted(p, lines) <=> "length" \in lines)
      BY <3>2
    <3>4. ReadTo(q, k, chunked, Noted(p, lines))
      BY <1>1, <1>4, <2>1, <2>3, <3>3 DEF ReadTo
    <3> QED BY <1>2, <1>4, <2>3, <3>4 DEF q
  <2>4. CASE p.marked /\ k = 5
    <3>1. p.last = IF chunked THEN "Transfer-" ELSE "Content-"
      BY <2>1, <2>4, HeaderTokens
    <3>2. Noted(p, lines) = lines \cup {IF chunked THEN "encoding" ELSE "length"}
      BY <2>4, <3>1 DEF Noted
    <3>3. /\ "status" \in Noted(p, lines) <=> "status" \in lines
          /\ chunked => ("length" \in Noted(p, lines) <=> "length" \in lines)
          /\ ~ chunked => "length" \in Noted(p, lines)
      BY <3>2
    <3>4. /\ p.last = Header(chunked)[k] /\ ~ p.finished /\ ~ p.chunked /\ ~ p.length
          /\ p.status = "200" \/ "status" \in lines
          /\ chunked => "length" \notin lines
      BY <2>1, <2>4
    <3>5. /\ q.last = Header(chunked)[k] /\ ~ q.finished /\ ~ q.chunked /\ ~ q.length
          /\ ~ q.error /\ ~ q.marked
          /\ q.status = "200" \/ "status" \in Noted(p, lines)
          /\ chunked => "length" \notin Noted(p, lines)
          /\ ~ chunked => "length" \in Noted(p, lines)
      BY <1>1, <1>4, <3>3, <3>4, Zenon
    <3>6. ReadTo(q, k, chunked, Noted(p, lines))
      BY <2>4, <3>5 DEF ReadTo
    <3> QED BY <1>2, <1>4, <2>4, <3>6 DEF q
  <2> QED BY <2>1, <2>2, <2>3, <2>4
<1> QED BY <1>3, <1>4

\* The CRLF.
LEMMA CrlfFacts ==
    /\ CRLF \in Seq(Tokens) /\ Len(CRLF) = 2 /\ CRLF[1] = "CR" /\ CRLF[2] = "LF"
    /\ "CR" \notin Digits /\ Digits \subseteq Tokens /\ STRING \subseteq Tokens
<1>1. "CR" \in Tokens /\ "LF" \in Tokens
  BY DEF Tokens
<1>2. CRLF \in Seq(Tokens) /\ Len(CRLF) = 2 /\ CRLF[1] = "CR" /\ CRLF[2] = "LF"
  BY <1>1 DEF CRLF
<1>3. "CR" \notin Digits
  BY DEF Digits
<1>4. Digits \subseteq Tokens /\ STRING \subseteq Tokens
  BY Zenon DEF Tokens
<1> QED BY <1>2, <1>3, <1>4

\* What execute() returns.
LEMMA ChunkRecord ==
    ASSUME NEW error, NEW finished, NEW nparse, NEW value, NEW chunk,
           chunk = [error |-> error, finished |-> finished, nparse |-> nparse, value |-> value]
    PROVE  /\ chunk.error = error /\ chunk.finished = finished
           /\ chunk.nparse = nparse /\ chunk.value = value
  OBVIOUS

\* A chunk-size line and what follows it.
LEMMA LineFacts ==
    ASSUME NEW size \in Seq(Tokens), NEW rest \in Seq(Tokens), size # <<>>
    PROVE  /\ Join(CRLF, rest) \in Seq(Tokens)
           /\ Len(size) \in Nat /\ Len(size) # 0
           /\ Join(size, Join(CRLF, rest)) \in Seq(Tokens)
           /\ Len(Join(size, Join(CRLF, rest))) >= Len(size) + 2
           /\ \A i \in 1 .. Len(size) : Join(size, Join(CRLF, rest))[i] = size[i]
           /\ Join(size, Join(CRLF, rest))[Len(size) + 1] = "CR"
<1> DEFINE t == Join(CRLF, rest)
<1>1. t \in Seq(Tokens) /\ Len(t) \in Nat /\ Len(t) >= 2 /\ t[1] = "CR"
  <2>1. /\ t \in Seq(Tokens) /\ Len(t) = Len(CRLF) + Len(rest)
        /\ \A i \in 1 .. Len(CRLF) : t[i] = CRLF[i]
    BY CrlfFacts, JoinFacts, ZenonT(30)
  <2>2. Len(rest) \in Nat
    BY LenProperties
  <2>3. 1 \in 1 .. Len(CRLF)
    BY CrlfFacts
  <2> HIDE DEF t
  <2> QED BY <2>1, <2>2, <2>3, CrlfFacts
<1> HIDE DEF t
<1>2. Len(size) \in Nat /\ Len(size) # 0
  <2>1. Len(size) \in Nat /\ (Len(size) = 0 => size = <<>>)
    BY LenProperties, EmptySeq
  <2> QED BY <2>1
<1>3. /\ Join(size, t) \in Seq(Tokens) /\ Len(Join(size, t)) = Len(size) + Len(t)
      /\ \A i \in 1 .. Len(size) : Join(size, t)[i] = size[i]
  BY <1>1, JoinFacts
<1>4. 1 \in 1 .. Len(t)
  BY <1>1
<1>7. Join(size, t)[Len(size) + 1] = t[1]
  BY <1>1, <1>4, JoinAfter
<1>5. Len(Join(size, t)) >= Len(size) + 2
  BY <1>1, <1>2, <1>3
<1>6. Join(size, t)[Len(size) + 1] = "CR"
  BY <1>1, <1>7
<1> QED BY <1>1, <1>2, <1>3, <1>5, <1>6 DEF t

\* A call of execute() for a chunk-size line that starts where the line does reads
\* the size when it has the line, and waits for more when it has not.
LEMMA ChunkLine ==
    ASSUME NEW tokens \in Seq(Tokens), NEW behind \in Seq(Tokens), NEW size \in Seq(Tokens),
           NEW rest \in Seq(Tokens), size # <<>>, \A i \in 1 .. Len(size) : size[i] \in Digits,
           Join(tokens, behind) = Join(size, Join(CRLF, rest))
    PROVE  /\ ~ ExecuteChunk(tokens).error
           /\ ExecuteChunk(tokens).finished <=> Len(tokens) >= Len(size) + 2
           /\ ExecuteChunk(tokens).finished =>
                /\ ExecuteChunk(tokens).nparse = Len(size) + 2
                /\ ExecuteChunk(tokens).value = Number(size)
<1> DEFINE t == Join(CRLF, rest)
           s == Join(size, t)
<1>1. PICK l \in Nat : l = Len(tokens)
  BY LenProperties
<1>3. PICK z \in Nat : z = Len(size) /\ z # 0
  BY LineFacts
<1>5. t \in Seq(Tokens)
  BY LineFacts
<1>6. /\ s \in Seq(Tokens) /\ Len(s) >= z + 2
      /\ \A i \in 1 .. z : s[i] \in Digits
      /\ s[z + 1] = "CR"
  <2>1. /\ s \in Seq(Tokens) /\ Len(s) >= Len(size) + 2
        /\ \A i \in 1 .. Len(size) : s[i] = size[i]
        /\ s[Len(size) + 1] = "CR"
    BY LineFacts
  <2> HIDE DEF s
  <2> QED BY <1>3, <2>1
<1>7. \A i \in 1 .. l : tokens[i] = s[i]
  <2>1. \A i \in 1 .. Len(tokens) : Join(tokens, behind)[i] = tokens[i]
    BY JoinFacts
  <2>2. s = Join(tokens, behind)
    OBVIOUS
  <2> HIDE DEF s
  <2> QED BY <1>1, <2>1, <2>2
<1> HIDE DEF s, t
<1> DEFINE S == {k \in 0 .. Len(tokens) : \A i \in 1 .. k : tokens[i] \in Digits}
           n == Max(S)
           over == SubSeq(tokens, n + 1, Len(tokens))
<1>8. ExecuteChunk(tokens) =
        [error    |-> over # <<>> /\ (n = 0 \/ ~ (IsPrefix(over, CRLF) \/ IsPrefix(CRLF, over))),
         finished |-> n > 0 /\ IsPrefix(CRLF, over),
         nparse   |-> n + 2,
         value    |-> Number(SubSeq(tokens, 1, n))]
  BY Zenon DEF ExecuteChunk
<1> DEFINE fails == over # <<>> /\ (n = 0 \/ ~ (IsPrefix(over, CRLF) \/ IsPrefix(CRLF, over)))
           ends == n > 0 /\ IsPrefix(CRLF, over)
<1>e. ExecuteChunk(tokens) = [error |-> fails, finished |-> ends, nparse |-> n + 2,
                              value |-> Number(SubSeq(tokens, 1, n))]
  BY <1>8, Zenon
<1>9. n = IF l <= z THEN l ELSE z
  <2> DEFINE m == IF l <= z THEN l ELSE z
  <2>1. m \in S
    <3>1. m \in 0 .. l /\ \A i \in 1 .. m : i \in 1 .. z /\ i \in 1 .. l
      OBVIOUS
    <3> HIDE DEF m
    <3>2. \A i \in 1 .. m : tokens[i] \in Digits
      BY <1>6, <1>7, <3>1
    <3> QED BY <1>1, <3>1, <3>2
  <2>2. ASSUME NEW x \in S PROVE x <= m
    <3>1. x \in 0 .. l /\ \A i \in 1 .. x : tokens[i] \in Digits
      BY <1>1
    <3>2. ASSUME x > m PROVE FALSE
      <4>1. m = z /\ z + 1 \in 1 .. x /\ z + 1 \in 1 .. l
        BY <3>1, <3>2
      <4>2. tokens[z + 1] \in Digits
        BY <3>1, <4>1
      <4> QED BY <1>6, <1>7, <4>1, <4>2, CrlfFacts
    <3> HIDE DEF m, S
    <3>3. m \in Int
      BY DEF m
    <3> QED BY <3>1, <3>2, <3>3
  <2>3. S \in SUBSET Int
    BY <1>1
  <2> HIDE DEF m, S
  <2>4. n = m
    BY <2>1, <2>2, <2>3, MaxIs
  <2> QED BY <2>4 DEF m
<1>10. over = Behind(tokens, n) /\ SubSeq(tokens, 1, n) = Upto(tokens, n)
  BY Zenon DEF Behind, Upto
<1> HIDE DEF S, n, over, fails, ends
<1>f. /\ ExecuteChunk(tokens).error = fails /\ ExecuteChunk(tokens).finished = ends
      /\ ExecuteChunk(tokens).nparse = n + 2
      /\ ExecuteChunk(tokens).value = Number(Upto(tokens, n))
  <2>1. SubSeq(tokens, 1, n) = Upto(tokens, n)
    BY <1>10
  <2> DEFINE v == Number(SubSeq(tokens, 1, n))
             two == n + 2
  <2>2. ExecuteChunk(tokens) = [error |-> fails, finished |-> ends, nparse |-> two, value |-> v]
    BY <1>e, Zenon
  <2> HIDE DEF v, two
  <2>3. /\ ExecuteChunk(tokens).error = fails /\ ExecuteChunk(tokens).finished = ends
        /\ ExecuteChunk(tokens).nparse = two /\ ExecuteChunk(tokens).value = v
    BY <2>2, ChunkRecord
  <2> QED BY <2>1, <2>3, Zenon DEF v, two
<1>11. CASE l <= z
  <2>1. over = <<>>
    BY <1>1, <1>9, <1>10, <1>11, CutNone
  <2>2. ~ IsPrefix(CRLF, over)
    <3>1. Len(over) = 0
      BY <2>1
    <3>2. ~ (Len(CRLF) <= Len(over))
      BY <3>1, CrlfFacts
    <3> QED BY <3>2, PrefixIs, Zenon
  <2>3. ~ ExecuteChunk(tokens).error /\ ~ ExecuteChunk(tokens).finished
    <3>1. ~ fails
      BY <2>1, Zenon DEF fails
    <3>2. ~ ends
      BY <2>2, Zenon DEF ends
    <3> QED BY <1>f, <3>1, <3>2, Zenon
  <2> QED BY <1>1, <1>3, <1>11, <2>3
<1>12. CASE l > z
  <2>1. n = z /\ n # 0 /\ n > 0 /\ n \in Nat /\ n <= Len(tokens)
    BY <1>1, <1>3, <1>9, <1>12
  <2>2. /\ over \in Seq(Tokens) /\ Len(over) = l - z
        /\ \A i \in 1 .. l - z : over[i] = tokens[z + i]
    BY <1>1, <1>10, <2>1, CutAt
  <2>3. 1 \in 1 .. l - z /\ z + 1 \in 1 .. l
    BY <1>12
  <2>4. over[1] = "CR"
    BY <1>6, <1>7, <2>2, <2>3
  <2>5. CASE l = z + 1
    <3>0. Len(over) = 1 /\ l - z = 1
      BY <2>2, <2>5
    <3>1. Upto(over, 1) = Upto(CRLF, 1)
      <4>1. Upto(over, 1) \in Seq(Tokens) /\ Len(Upto(over, 1)) = 1 /\ Upto(over, 1)[1] = over[1]
        BY <2>2, <3>0, CutAt
      <4>2. Upto(CRLF, 1) \in Seq(Tokens) /\ Len(Upto(CRLF, 1)) = 1 /\ Upto(CRLF, 1)[1] = CRLF[1]
        <5>1. CRLF \in Seq(Tokens) /\ 1 \in Nat /\ 1 <= Len(CRLF) /\ 1 \in 1 .. 1
          BY CrlfFacts
        <5> QED BY <5>1, CutAt
      <4>3. \A i \in 1 .. Len(Upto(over, 1)) : Upto(over, 1)[i] = Upto(CRLF, 1)[i]
        BY <2>4, <4>1, <4>2, CrlfFacts
      <4> QED BY <4>1, <4>2, <4>3, SeqEqual
    <3>2. IsPrefix(over, CRLF)
      <4>1. Len(over) <= Len(CRLF)
        BY <3>0, CrlfFacts
      <4> QED BY <3>0, <3>1, <4>1, PrefixIs, Zenon
    <3>3. ~ IsPrefix(CRLF, over)
      <4>1. ~ (Len(CRLF) <= Len(over))
        BY <3>0, CrlfFacts
      <4> QED BY <4>1, PrefixIs, Zenon
    <3>4. ~ ExecuteChunk(tokens).error /\ ~ ExecuteChunk(tokens).finished
      <4>1. ~ fails /\ ~ ends
        BY <2>1, <3>2, <3>3, Zenon DEF fails, ends
      <4> QED BY <1>f, <4>1, Zenon
    <3> QED BY <1>1, <1>3, <2>5, <3>4
  <2>6. CASE l # z + 1
    <3>0. l >= z + 2 /\ Len(size) <= Len(tokens) /\ l - z >= 2
      BY <1>1, <1>3, <1>12, <2>6
    <3>1. Upto(tokens, z) = size /\ Join(over, behind) = Join(CRLF, rest)
      <4>1. Join(tokens, behind) = Join(size, t)
        BY DEF t
      <4>2. Upto(tokens, Len(size)) = size /\ Join(Behind(tokens, Len(size)), behind) = t
        BY <1>5, <3>0, <4>1, Overlap
      <4> QED BY <1>3, <1>10, <2>1, <4>2, Zenon DEF t
    <3>2. Upto(over, 2) = CRLF
      <4>1. Len(CRLF) <= Len(over)
        BY <2>2, <3>0, CrlfFacts
      <4>2. Upto(over, Len(CRLF)) = CRLF
        <5>1. CRLF \in Seq(Tokens) /\ over \in Seq(Tokens)
          BY <2>2, CrlfFacts
        <5> QED BY <3>1, <4>1, <5>1, Overlap
      <4> QED BY <4>2, CrlfFacts
    <3>3. IsPrefix(CRLF, over)
      <4>1. Len(CRLF) <= Len(over) /\ Len(CRLF) = 2
        BY <2>2, <3>0, CrlfFacts
      <4>2. Upto(CRLF, Len(CRLF)) = CRLF
        BY CrlfFacts, CutNone
      <4> QED BY <3>2, <4>1, <4>2, PrefixIs, Zenon
    <3>4. /\ ~ ExecuteChunk(tokens).error /\ ExecuteChunk(tokens).finished
          /\ ExecuteChunk(tokens).nparse = n + 2
          /\ ExecuteChunk(tokens).value = Number(Upto(tokens, n))
      <4>1. ~ fails /\ ends
        BY <2>1, <3>3, Zenon DEF fails, ends
      <4> QED BY <1>f, <4>1, Zenon
    <3>5. ExecuteChunk(tokens).value = Number(size) /\ ExecuteChunk(tokens).nparse = Len(size) + 2
      BY <1>3, <2>1, <3>1, <3>4
    <3>6. Len(tokens) >= Len(size) + 2
      BY <1>1, <1>3, <3>0
    <3> QED BY <3>4, <3>5, <3>6, Zenon
  <2> QED BY <2>5, <2>6
<1> QED BY <1>11, <1>12

\* Behind a chunk-size line, over is read and after is still to arrive: the chunk is
\* there with its CRLF, or the part of both that is more long is not.
ChunkIn(over, more, after, bytes, flat) ==
    /\ over \in Seq(Tokens)
    /\ Len(bytes) + 2 <= Len(over) =>
         /\ Upto(over, Len(bytes)) = bytes
         /\ Behind(over, Len(bytes) + 2) \in Seq(Tokens)
         /\ Join(Behind(over, Len(bytes) + 2), after) = flat
    /\ Len(bytes) + 2 > Len(over) =>
         /\ more \in 1 .. Len(after)
         /\ Upto(after, more) \in Seq(Tokens)
         /\ Join(over, Upto(after, more)) = Join(bytes, CRLF)
         /\ Behind(after, more) = flat

\* The tokens of a chunk-size line, of its chunk and of what follows, cut behind the
\* line.
LEMMA ChunkTaken ==
    ASSUME NEW tokens \in Seq(Tokens), NEW after \in Seq(Tokens), NEW size \in Seq(Tokens),
           NEW bytes \in Seq(Tokens), NEW flat \in Seq(Tokens),
           Join(tokens, after) = Join(size, Join(CRLF, Join(bytes, Join(CRLF, flat)))),
           Len(tokens) >= Len(size) + 2,
           NEW over, over = Behind(tokens, Len(size) + 2),
           NEW more, more = Len(bytes) - Len(over) + 2
    PROVE  ChunkIn(over, more, after, bytes, flat)
<1> DEFINE x == Join(CRLF, flat)
           y == Join(bytes, x)
           line == Join(size, CRLF)
           end == Join(bytes, CRLF)
<1>1. x \in Seq(Tokens)
  BY CrlfFacts, JoinFacts
<1>2. y \in Seq(Tokens)
  <2> HIDE DEF x
  <2> QED BY <1>1, JoinFacts
<1>3. /\ line \in Seq(Tokens) /\ Len(line) = Len(size) + 2
      /\ end \in Seq(Tokens) /\ Len(end) = Len(bytes) + 2
  <2>1. CRLF \in Seq(Tokens) /\ Len(CRLF) = 2
    BY CrlfFacts
  <2>2. line \in Seq(Tokens) /\ Len(line) = Len(size) + Len(CRLF)
    BY <2>1, JoinFacts
  <2>3. end \in Seq(Tokens) /\ Len(end) = Len(bytes) + Len(CRLF)
    BY <2>1, JoinFacts
  <2> HIDE DEF line, end
  <2> QED BY <2>1, <2>2, <2>3
<1>4. y = Join(end, flat)
  <2>1. CRLF \in Seq(Tokens)
    BY CrlfFacts
  <2>2. Join(Join(bytes, CRLF), flat) = Join(bytes, Join(CRLF, flat))
    BY <2>1, JoinThree
  <2> QED BY <2>2
<1>5. Join(tokens, after) = Join(line, y)
  <2> HIDE DEF y
  <2>1. Join(line, y) = Join(size, Join(CRLF, y))
    BY <1>2, CrlfFacts, JoinThree
  <2> QED BY <2>1 DEF y
<1> HIDE DEF x, y, line, end
<1>6. /\ over \in Seq(Tokens) /\ Len(over) = Len(tokens) - (Len(size) + 2)
      /\ Join(over, after) = y
  <2>1. Len(line) <= Len(tokens)
    BY <1>3
  <2> QED BY <1>2, <1>3, <1>5, <2>1, Overlap
<1>7. Len(over) \in Nat /\ Len(bytes) \in Nat /\ Len(after) \in Nat /\ Len(flat) \in Nat
  BY <1>6, LenProperties
<1>8. ASSUME Len(bytes) + 2 <= Len(over)
      PROVE  /\ Upto(over, Len(bytes)) = bytes
             /\ Behind(over, Len(bytes) + 2) \in Seq(Tokens)
             /\ Join(Behind(over, Len(bytes) + 2), after) = flat
  <2>1. Len(end) <= Len(over) /\ Len(bytes) <= Len(over)
    BY <1>3, <1>7, <1>8
  <2>2. Behind(over, Len(end)) \in Seq(Tokens) /\ Join(Behind(over, Len(end)), after) = flat
    BY <1>3, <1>4, <1>6, <2>1, Overlap
  <2>3. Join(over, after) = Join(bytes, x)
    BY <1>6 DEF y
  <2>4. Upto(over, Len(bytes)) = bytes
    BY <1>1, <1>6, <2>1, <2>3, Overlap
  <2> QED BY <1>3, <2>2, <2>4
<1>9. ASSUME Len(bytes) + 2 > Len(over)
      PROVE  /\ more \in 1 .. Len(after)
             /\ Upto(after, more) \in Seq(Tokens)
             /\ Join(over, Upto(after, more)) = Join(bytes, CRLF)
             /\ Behind(after, more) = flat
  <2> DEFINE z == Behind(end, Len(over))
  <2>1. Len(over) <= Len(end)
    BY <1>3, <1>7, <1>9
  <2>2. Join(end, flat) = Join(over, after)
    BY <1>4, <1>6
  <2>3. /\ z \in Seq(Tokens) /\ Len(z) = Len(end) - Len(over)
        /\ Join(z, flat) = after /\ end = Join(over, z)
    BY <1>3, <1>6, <2>1, <2>2, Overlap
  <2> HIDE DEF z
  <2>4. Len(z) = more /\ more >= 1
    <3>1. Len(z) = (Len(bytes) + 2) - Len(over)
      BY <1>3, <2>3, Zenon
    <3> QED BY <1>7, <1>9, <3>1
  <2>5. Upto(after, more) = z /\ Behind(after, more) = flat
    BY <2>3, <2>4, CutJoin
  <2>6. Len(after) = more + Len(flat)
    <3>1. Len(Join(z, flat)) = Len(z) + Len(flat)
      BY <2>3, JoinFacts
    <3> QED BY <2>3, <2>4, <3>1, Zenon
  <2>7. more \in 1 .. Len(after)
    BY <1>7, <2>4, <2>6
  <2> QED BY <2>3, <2>5, <2>7 DEF end
<1> QED BY <1>6, <1>8, <1>9 DEF ChunkIn
-----------------------------------------------------------------------------
(* HttpConnection: the response.                                           *)

\* The parts of a chunked response, and what follows the header on the wire.
SizeOf(r, k) == r.chunks[k].size
DataOf(r, k) == r.chunks[k].data
Coded(r)     == [k \in DOMAIN r.chunks |->
                     r.chunks[k].size \o CRLF \o r.chunks[k].data \o CRLF]
Datas(r)     == [k \in DOMAIN r.chunks |-> r.chunks[k].data]
Rest(r)      == IF IsChunked(r) THEN FlattenSeq(Coded(r)) ELSE r.content

\* A response that is not chunked.
LEMMA PlainFacts ==
    ASSUME NEW r \in Responses, ~ IsChunked(r)
    PROVE  Content(r) \in Seq(Tokens) /\ Rest(r) = Content(r)
<1>1. r.content \in Seq(STRING)
  BY HttpConnectionConstants, Zenon DEF WellFormed
<1>2. r.content \in Seq(Tokens)
  BY <1>1, CrlfFacts, SeqOfMore
<1> QED BY <1>2, Zenon DEF Content, Rest

\* The chunks.
LEMMA ChunkFacts ==
    ASSUME NEW r \in Responses, IsChunked(r)
    PROVE  /\ Len(r.chunks) \in Nat /\ Len(r.chunks) >= 1 /\ DOMAIN r.chunks = 1 .. Len(r.chunks)
           /\ \A k \in 1 .. Len(r.chunks) :
                /\ SizeOf(r, k) \in Seq(Tokens) /\ SizeOf(r, k) # <<>>
                /\ \A i \in 1 .. Len(SizeOf(r, k)) : SizeOf(r, k)[i] \in Digits
                /\ DataOf(r, k) \in Seq(Tokens)
                /\ Number(SizeOf(r, k)) = Len(DataOf(r, k))
                /\ Len(DataOf(r, k)) = 0 <=> k = Len(r.chunks)
<1> DEFINE c == r.chunks
           Chunks == [size : Seq(Digits), data : Seq(STRING)]
<1>1. /\ c \in Seq(Chunks) /\ c # <<>>
      /\ \A k \in DOMAIN c :
           /\ c[k].size # <<>>
           /\ Number(c[k].size) = Len(c[k].data)
           /\ c[k].data = <<>> <=> k = Len(c)
  BY HttpConnectionConstants, Zenon DEF WellFormed
<1> HIDE DEF c
<1>2. /\ Len(c) \in Nat /\ Len(c) # 0 /\ DOMAIN c = 1 .. Len(c)
      /\ \A k \in 1 .. Len(c) : c[k] \in Chunks
  <2> HIDE DEF Chunks
  <2> QED BY <1>1, LenProperties, EmptySeq
<1>3. ASSUME NEW k \in 1 .. Len(c)
      PROVE  /\ SizeOf(r, k) \in Seq(Tokens) /\ SizeOf(r, k) # <<>>
             /\ \A i \in 1 .. Len(SizeOf(r, k)) : SizeOf(r, k)[i] \in Digits
             /\ DataOf(r, k) \in Seq(Tokens)
             /\ Number(SizeOf(r, k)) = Len(DataOf(r, k))
             /\ Len(DataOf(r, k)) = 0 <=> k = Len(c)
  <2> DEFINE z == c[k].size
             d == c[k].data
  <2>1. z \in Seq(Digits) /\ d \in Seq(STRING)
    BY <1>2
  <2>2. /\ z # <<>> /\ Number(z) = Len(d) /\ (d = <<>> <=> k = Len(c))
    BY <1>1, <1>2
  <2>3. SizeOf(r, k) = z /\ DataOf(r, k) = d
    BY DEF SizeOf, DataOf, c
  <2> HIDE DEF z, d
  <2>4. z \in Seq(Tokens) /\ d \in Seq(Tokens)
    BY <2>1, CrlfFacts, SeqOfMore
  <2>5. \A i \in 1 .. Len(z) : z[i] \in Digits
    BY <2>1, LenProperties
  <2>6. Len(d) = 0 <=> d = <<>>
    BY <2>1, EmptySeq
  <2> QED BY <2>2, <2>3, <2>4, <2>5, <2>6
<1>4. Len(c) >= 1
  BY <1>2
<1> QED BY <1>2, <1>3, <1>4 DEF c

\* The coded chunks and their data.
LEMMA CodedFacts ==
    ASSUME NEW r \in Responses, IsChunked(r)
    PROVE  /\ Coded(r) \in Seq(Seq(Tokens)) /\ Len(Coded(r)) = Len(r.chunks)
           /\ Datas(r) \in Seq(Seq(Tokens)) /\ Len(Datas(r)) = Len(r.chunks)
           /\ \A k \in 1 .. Len(r.chunks) :
                /\ Coded(r)[k] = Join(Join(Join(SizeOf(r, k), CRLF), DataOf(r, k)), CRLF)
                /\ Datas(r)[k] = DataOf(r, k)
           /\ Rest(r) = FlattenSeq(Coded(r)) /\ Content(r) = FlattenSeq(Datas(r))
<1>1. PICK n \in Nat : n = Len(r.chunks) /\ DOMAIN r.chunks = 1 .. n
  BY ChunkFacts
<1> DEFINE code(k) == Join(Join(Join(SizeOf(r, k), CRLF), DataOf(r, k)), CRLF)
<1>2. Coded(r) = [k \in 1 .. n |-> code(k)]
  BY <1>1, Zenon DEF Coded, Join, SizeOf, DataOf
<1>3. Datas(r) = [k \in 1 .. n |-> DataOf(r, k)]
  BY <1>1, Zenon DEF Datas, DataOf
<1>4. ASSUME NEW k \in 1 .. n PROVE code(k) \in Seq(Tokens) /\ DataOf(r, k) \in Seq(Tokens)
  <2>1. SizeOf(r, k) \in Seq(Tokens) /\ DataOf(r, k) \in Seq(Tokens)
    BY <1>1, ChunkFacts
  <2>2. Join(SizeOf(r, k), CRLF) \in Seq(Tokens)
    BY <2>1, CrlfFacts, JoinFacts
  <2>3. Join(Join(SizeOf(r, k), CRLF), DataOf(r, k)) \in Seq(Tokens)
    BY <2>1, <2>2, JoinFacts
  <2>4. code(k) \in Seq(Tokens)
    BY <2>3, CrlfFacts, JoinFacts
  <2> QED BY <2>1, <2>4
<1> HIDE DEF code
<1>5. /\ Coded(r) \in [1 .. n -> Seq(Tokens)] /\ \A k \in 1 .. n : Coded(r)[k] = code(k)
  BY <1>2, <1>4
<1>6. /\ Datas(r) \in [1 .. n -> Seq(Tokens)] /\ \A k \in 1 .. n : Datas(r)[k] = DataOf(r, k)
  BY <1>3, <1>4
<1>7. /\ Coded(r) \in Seq(Seq(Tokens)) /\ Len(Coded(r)) = n
      /\ Datas(r) \in Seq(Seq(Tokens)) /\ Len(Datas(r)) = n
  BY <1>5, <1>6, SeqFromFunction
<1>8. Rest(r) = FlattenSeq(Coded(r)) /\ Content(r) = FlattenSeq(Datas(r))
  BY Zenon DEF Rest, Content, Datas
<1> QED BY <1>1, <1>5, <1>6, <1>7, <1>8 DEF code

\* What is on the wire from the k-th chunk on, and the data up to it.
LEMMA ChunkOf ==
    ASSUME NEW r \in Responses, IsChunked(r), NEW k \in 1 .. Len(r.chunks)
    PROVE  /\ FlattenSeq(Behind(Coded(r), k)) \in Seq(Tokens)
           /\ FlattenSeq(Behind(Coded(r), k - 1)) =
                Join(SizeOf(r, k), Join(CRLF, Join(DataOf(r, k),
                     Join(CRLF, FlattenSeq(Behind(Coded(r), k))))))
           /\ FlattenSeq(Upto(Datas(r), k - 1)) \in Seq(Tokens)
           /\ FlattenSeq(Upto(Datas(r), k)) =
                Join(FlattenSeq(Upto(Datas(r), k - 1)), DataOf(r, k))
<1>1. /\ SizeOf(r, k) \in Seq(Tokens) /\ DataOf(r, k) \in Seq(Tokens) /\ CRLF \in Seq(Tokens)
  BY ChunkFacts, CrlfFacts
<1>2. /\ Coded(r) \in Seq(Seq(Tokens)) /\ k \in 1 .. Len(Coded(r))
      /\ Datas(r) \in Seq(Seq(Tokens)) /\ k \in 1 .. Len(Datas(r))
      /\ Coded(r)[k] = Join(Join(Join(SizeOf(r, k), CRLF), DataOf(r, k)), CRLF)
      /\ Datas(r)[k] = DataOf(r, k)
  BY CodedFacts
<1>3. /\ FlattenSeq(Upto(Datas(r), k - 1)) \in Seq(Tokens)
      /\ FlattenSeq(Upto(Datas(r), k)) = Join(FlattenSeq(Upto(Datas(r), k - 1)), Datas(r)[k])
  BY <1>2, FlattenNext
<1>4. /\ FlattenSeq(Behind(Coded(r), k)) \in Seq(Tokens)
      /\ FlattenSeq(Behind(Coded(r), k - 1)) = Join(Coded(r)[k], FlattenSeq(Behind(Coded(r), k)))
  BY <1>2, FlattenRest
<1> DEFINE s == SizeOf(r, k)
           d == DataOf(r, k)
           f == FlattenSeq(Behind(Coded(r), k))
<1>5. s \in Seq(Tokens) /\ d \in Seq(Tokens) /\ f \in Seq(Tokens)
  BY <1>1, <1>4
<1> HIDE DEF s, d, f
<1>6. Join(Join(Join(Join(s, CRLF), d), CRLF), f) = Join(s, Join(CRLF, Join(d, Join(CRLF, f))))
  <2>1. Join(s, CRLF) \in Seq(Tokens) /\ Join(CRLF, f) \in Seq(Tokens)
    BY <1>1, <1>5, JoinFacts
  <2>2. Join(Join(s, CRLF), d) \in Seq(Tokens) /\ Join(d, Join(CRLF, f)) \in Seq(Tokens)
    BY <1>5, <2>1, JoinFacts
  <2>3. Join(Join(Join(Join(s, CRLF), d), CRLF), f) = Join(Join(Join(s, CRLF), d), Join(CRLF, f))
    BY <1>1, <1>5, <2>2, JoinThree
  <2>4. Join(Join(Join(s, CRLF), d), Join(CRLF, f)) = Join(Join(s, CRLF), Join(d, Join(CRLF, f)))
    BY <1>5, <2>1, JoinThree
  <2>5. Join(Join(s, CRLF), Join(d, Join(CRLF, f))) = Join(s, Join(CRLF, Join(d, Join(CRLF, f))))
    BY <1>1, <1>5, <2>2, JoinThree
  <2> QED BY <2>3, <2>4, <2>5, Zenon
<1>7. FlattenSeq(Behind(Coded(r), k - 1)) = Join(Join(Join(Join(s, CRLF), d), CRLF), f)
  BY <1>2, <1>4, Zenon DEF s, d, f
<1>8. FlattenSeq(Behind(Coded(r), k - 1)) = Join(s, Join(CRLF, Join(d, Join(CRLF, f))))
  BY <1>6, <1>7, Zenon
<1> QED BY <1>2, <1>3, <1>4, <1>8, Zenon DEF s, d, f

\* Before the first chunk and behind the last.
LEMMA ChunkEnds ==
    ASSUME NEW r \in Responses, IsChunked(r)
    PROVE  /\ FlattenSeq(Behind(Coded(r), 0)) = Rest(r)
           /\ FlattenSeq(Upto(Datas(r), 0)) = <<>>
           /\ FlattenSeq(Upto(Datas(r), Len(r.chunks))) = Content(r)
<1>1. /\ Coded(r) \in Seq(Seq(Tokens))
      /\ Datas(r) \in Seq(Seq(Tokens)) /\ Len(Datas(r)) = Len(r.chunks)
      /\ Rest(r) = FlattenSeq(Coded(r)) /\ Content(r) = FlattenSeq(Datas(r))
  BY CodedFacts
<1>2. Behind(Coded(r), 0) = Coded(r)
  BY <1>1, CutNone
<1>3. Upto(Datas(r), 0) = <<>> /\ Upto(Datas(r), Len(Datas(r))) = Datas(r)
  BY <1>1, CutNone
<1> QED BY <1>1, <1>2, <1>3, FlattenNone, Zenon

\* The parts of the header.
LEMMA HeaderIs ==
    ASSUME NEW chunked \in BOOLEAN
    PROVE  Join(Join(<<"HTTP", "/1.1_2", "00_OK", "LF">>,
                     IF chunked THEN <<"Transfer-", "Encoding:chunked", "LF">>
                                ELSE <<"Content-", "Length:n", "LF">>), CRLF) = Header(chunked)
<1> DEFINE first == <<"HTTP", "/1.1_2", "00_OK", "LF">>
           second == IF chunked THEN <<"Transfer-", "Encoding:chunked", "LF">>
                                ELSE <<"Content-", "Length:n", "LF">>
           h == Header(chunked)
           lines == Upto(h, 7)
<1>1. /\ first \in Seq(Tokens) /\ Len(first) = 4
      /\ first[1] = "HTTP" /\ first[2] = "/1.1_2" /\ first[3] = "00_OK" /\ first[4] = "LF"
  BY DEF Tokens
<1>2. /\ second \in Seq(Tokens) /\ Len(second) = 3
      /\ second[1] = IF chunked THEN "Transfer-" ELSE "Content-"
      /\ second[2] = IF chunked THEN "Encoding:chunked" ELSE "Length:n"
      /\ second[3] = "LF"
  <2>1. CASE chunked
    <3>1. second = <<"Transfer-", "Encoding:chunked", "LF">>
      BY <2>1
    <3> HIDE DEF second
    <3> QED BY <2>1, <3>1 DEF Tokens
  <2>2. CASE ~ chunked
    <3>1. second = <<"Content-", "Length:n", "LF">>
      BY <2>2
    <3> HIDE DEF second
    <3> QED BY <2>2, <3>1 DEF Tokens
  <2> QED BY <2>1, <2>2
<1>3. /\ h \in Seq(Tokens) /\ Len(h) = 9
      /\ h[1] = "HTTP" /\ h[2] = "/1.1_2" /\ h[3] = "00_OK" /\ h[4] = "LF"
      /\ h[5] = IF chunked THEN "Transfer-" ELSE "Content-"
      /\ h[6] = IF chunked THEN "Encoding:chunked" ELSE "Length:n"
      /\ h[7] = "LF" /\ h[8] = "CR" /\ h[9] = "LF"
  BY HeaderTokens
<1> HIDE DEF first, second, h
<1>4. lines \in Seq(Tokens) /\ Len(lines) = 7 /\ \A i \in 1 .. 7 : lines[i] = h[i]
  <2>1. 7 \in Nat /\ 7 <= Len(h)
    BY <1>3
  <2> QED BY <1>3, <2>1, CutAt
<1> HIDE DEF lines
<1>5. Join(first, second) = lines
  <2>1. \A i \in 1 .. Len(first) : lines[i] = first[i]
    BY <1>1, <1>3, <1>4
  <2>2. \A i \in 1 .. Len(second) : lines[Len(first) + i] = second[i]
    BY <1>1, <1>2, <1>3, <1>4
  <2>3. Len(lines) = Len(first) + Len(second)
    BY <1>1, <1>2, <1>4
  <2> QED BY <1>1, <1>2, <1>4, <2>1, <2>2, <2>3, JoinIs
<1>6. Join(lines, CRLF) = h
  <2>1. \A i \in 1 .. Len(lines) : h[i] = lines[i]
    BY <1>4
  <2>2. \A i \in 1 .. Len(CRLF) : h[Len(lines) + i] = CRLF[i]
    <3>1. 7 + 1 = 8 /\ 7 + 2 = 9 /\ 1 .. 2 = {1, 2}
      OBVIOUS
    <3>2. h[Len(lines) + 1] = CRLF[1] /\ h[Len(lines) + 2] = CRLF[2]
      BY <1>3, <1>4, <3>1, CrlfFacts, Zenon
    <3>3. \A i \in 1 .. Len(CRLF) : i = 1 \/ i = 2
      BY CrlfFacts
    <3> QED BY <3>2, <3>3, Zenon
  <2>3. Len(h) = Len(lines) + Len(CRLF) /\ CRLF \in Seq(Tokens)
    BY <1>3, <1>4, CrlfFacts
  <2> QED BY <1>3, <1>4, <2>1, <2>2, <2>3, JoinIs
<1>7. Join(Join(first, second), CRLF) = h
  BY <1>5, <1>6, Zenon
<1> QED BY <1>7, Zenon DEF first, second, h

\* The header comes first on the wire.
LEMMA WireIs ==
    ASSUME NEW r \in Responses
    PROVE  /\ Wire(r) = Join(Header(IsChunked(r)), Rest(r)) /\ IsChunked(r) \in BOOLEAN
           /\ Rest(r) \in Seq(Tokens)
<1>1. IsChunked(r) \in BOOLEAN
  BY DEF IsChunked
<1>2. Rest(r) \in Seq(Tokens)
  <2>1. CASE IsChunked(r)
    BY <2>1, CodedFacts, FlattenJoin, CrlfFacts
  <2>2. CASE ~ IsChunked(r)
    BY <2>2, PlainFacts
  <2> QED BY <2>1, <2>2
<1> DEFINE first == <<"HTTP", "/1.1_2", "00_OK", "LF">>
           second == IF IsChunked(r) THEN <<"Transfer-", "Encoding:chunked", "LF">>
                                     ELSE <<"Content-", "Length:n", "LF">>
<1>3. Wire(r) = Join(Join(Join(first, second), CRLF), Rest(r))
  <2>1. Rest(r) = IF IsChunked(r)
                    THEN FlattenSeq([k \in DOMAIN r.chunks |->
                             r.chunks[k].size \o CRLF \o r.chunks[k].data \o CRLF])
                    ELSE r.content
    BY Zenon DEF Rest, Coded
  <2> QED BY <2>1, Zenon DEF Wire, Join
<1>4. Join(Join(first, second), CRLF) = Header(IsChunked(r))
  BY <1>1, HeaderIs, Zenon
<1> QED BY <1>1, <1>2, <1>3, <1>4, Zenon
-----------------------------------------------------------------------------
(* HttpConnection: the invariant.                                          *)

\* In the header: how far the parser is, and what is still to arrive.
HeaderInv ==
    /\ parser \in Parsers /\ data = <<>> /\ body = <<>>
    /\ \E k \in 0 .. 8 :
         /\ arriving = Join(Behind(Header(IsChunked(response)), k), Rest(response))
         /\ ReadTo([parser EXCEPT !.marked = FALSE], k, IsChunked(response), cut)

\* In the content: what was read and what is still to arrive.
ContentInv ==
    /\ ~ IsChunked(response) /\ "length" \notin cut
    /\ body \in Seq(Tokens) /\ arriving \in Seq(Tokens)
    /\ Join(body, arriving) = Content(response)
    /\ left = Len(arriving) /\ left > 0

\* Before the k-th chunk-size line.
SizeInv ==
    /\ data \in Seq(Tokens) /\ arriving \in Seq(Tokens)
    /\ \E k \in 1 .. Len(response.chunks) :
         /\ Join(data, arriving) = FlattenSeq(Behind(Coded(response), k - 1))
         /\ body = FlattenSeq(Upto(Datas(response), k - 1))

\* In the k-th chunk and its CRLF.
DataInv ==
    /\ data = <<>> /\ body \in Seq(Tokens) /\ arriving \in Seq(Tokens)
    /\ left \in 1 .. Len(arriving)
    /\ \E k \in 1 .. Len(response.chunks) :
         /\ Join(body, Upto(arriving, left)) = Join(FlattenSeq(Upto(Datas(response), k)), CRLF)
         /\ Behind(arriving, left) = FlattenSeq(Behind(Coded(response), k))
         /\ content_len = Len(DataOf(response, k))

ConnectionInv ==
    /\ response \in Responses
    /\ recv \in {"header", "content", "size", "data", "response", "null"}
    /\ recv = "header" => HeaderInv
    /\ recv = "content" => ContentInv
    /\ recv \in {"size", "data"} =>
         /\ IsChunked(response) /\ "length" \notin cut
         /\ "size" \in cut \/ (recv = "size" /\ SizeInv) \/ (recv = "data" /\ DataInv)
    /\ recv \in {"content", "size", "data"} => parser.status = "200" \/ "status" \in cut
    /\ ResponseExact

\* Nothing is read yet.
LEMMA InitConnectionInv == ConnectionInit => ConnectionInv
<1> SUFFICES ASSUME ConnectionInit PROVE ConnectionInv
  OBVIOUS
<1>1. /\ response \in Responses /\ arriving = Wire(response) /\ recv = "header"
      /\ parser = NewParser /\ data = <<>> /\ body = <<>> /\ cut = {}
  BY DEF ConnectionInit
<1>2. /\ arriving = Join(Header(IsChunked(response)), Rest(response))
      /\ IsChunked(response) \in BOOLEAN
  BY <1>1, WireIs
<1>3. Behind(Header(IsChunked(response)), 0) = Header(IsChunked(response))
  <2>1. Header(IsChunked(response)) \in Seq(Tokens)
    BY <1>2, HeaderTokens
  <2> QED BY <2>1, CutNone
<1>4. /\ NewParser \in Parsers /\ NewParser.marked = FALSE /\ NewParser.last = "none"
      /\ NewParser.length = FALSE /\ NewParser.chunked = FALSE /\ NewParser.error = FALSE
      /\ NewParser.finished = FALSE
  BY DEF NewParser, Parsers, Tokens
<1> DEFINE q == [NewParser EXCEPT !.marked = FALSE]
<1>5. /\ q.marked = FALSE /\ q.last = "none" /\ q.length = FALSE /\ q.chunked = FALSE
      /\ q.error = FALSE /\ q.finished = FALSE
  <2> HIDE DEF q
  <2>1. q = [NewParser EXCEPT !.marked = FALSE]
    BY DEF q
  <2> QED BY <1>4, <2>1 DEF Parsers
<1>6. ReadTo(q, 0, IsChunked(response), {})
  <2> HIDE DEF q
  <2> QED BY <1>2, <1>5 DEF ReadTo
<1>7. HeaderInv
  <2>1. 0 \in 0 .. 8
    OBVIOUS
  <2> QED BY <1>1, <1>2, <1>3, <1>4, <1>6, <2>1, Zenon DEF HeaderInv
<1> QED BY <1>1, <1>7 DEF ConnectionInv, ResponseExact

\* A turn of the first loop of recvResponse().
LEMMA HeaderAction ==
    ASSUME NEW n, ReadHeader(n), NEW p, p = Execute(parser, Upto(arriving, n)),
           NEW rest, rest = SubSeq(Upto(arriving, n), p.nparse + 1, n)
    PROVE  /\ arriving' = Behind(arriving, n) /\ parser' = p /\ cut' = Noted(p, cut)
           /\ recv = "header" /\ response' = response
           /\ \/ p.error /\ recv' = "null"
              \/ ~ p.error /\ ~ p.finished /\ recv' = recv /\ data' = data /\ body' = body
              \/ p.finished /\ p.chunked /\ recv' = "size" /\ data' = rest /\ body' = body
              \/ /\ p.finished /\ ~ p.chunked
                 /\ body' = SubSeq(rest, 1,
                              Min({IF p.length THEN Len(Content(response)) ELSE 0, Len(rest)}))
                 /\ left' = (IF p.length THEN Len(Content(response)) ELSE 0) - Len(body')
                 /\ recv' = IF left' > 0 THEN "content" ELSE "response"
  BY Zenon DEF ReadHeader, Reads, Fails, Upto, Behind, Noted

\* A read in the header.
LEMMA HeaderStep ==
    ASSUME ConnectionInv, NEW n \in 1 .. Len(arriving), ReadHeader(n)
    PROVE  ConnectionInv'
<1> DEFINE p == Execute(parser, Upto(arriving, n))
           all == SubSeq(Upto(arriving, n), p.nparse + 1, n)
           ch == IsChunked(response)
           h == Header(ch)
           end == Rest(response)
<1>1. /\ response \in Responses /\ recv = "header" /\ HeaderInv /\ response' = response
      /\ arriving' = Behind(arriving, n) /\ parser' = p /\ cut' = Noted(p, cut)
      /\ \/ p.error /\ recv' = "null"
         \/ ~ p.error /\ ~ p.finished /\ recv' = recv /\ data' = data /\ body' = body
         \/ p.finished /\ p.chunked /\ recv' = "size" /\ data' = all /\ body' = body
         \/ /\ p.finished /\ ~ p.chunked
            /\ body' = SubSeq(all, 1,
                         Min({IF p.length THEN Len(Content(response)) ELSE 0, Len(all)}))
            /\ left' = (IF p.length THEN Len(Content(response)) ELSE 0) - Len(body')
            /\ recv' = IF left' > 0 THEN "content" ELSE "response"
  BY HeaderAction, Zenon DEF ConnectionInv
<1> HIDE DEF p, all
<1>2. /\ parser \in Parsers /\ data = <<>> /\ body = <<>>
      /\ \E k \in 0 .. 8 : /\ arriving = Join(Behind(h, k), end)
                           /\ ReadTo([parser EXCEPT !.marked = FALSE], k, ch, cut)
  BY <1>1, Zenon DEF HeaderInv
<1>3. PICK k \in 0 .. 8 : /\ arriving = Join(Behind(h, k), end)
                          /\ ReadTo([parser EXCEPT !.marked = FALSE], k, ch, cut)
  BY <1>2
<1>4. ch \in BOOLEAN /\ end \in Seq(Tokens)
  BY <1>1, WireIs
<1>5. h \in Seq(Tokens) /\ Len(h) = 9
  BY <1>4, HeaderTokens
<1> HIDE DEF h, end
<1> DEFINE b == Behind(h, k)
<1>6. /\ b \in Seq(Tokens) /\ Len(b) = 9 - k /\ \A i \in 1 .. 9 - k : b[i] = h[k + i]
  <2>1. k \in Nat /\ k <= Len(h)
    BY <1>5
  <2>2. /\ b \in Seq(Tokens) /\ Len(b) = Len(h) - k
        /\ \A i \in 1 .. Len(h) - k : b[i] = h[k + i]
    BY <1>5, <2>1, CutAt
  <2> HIDE DEF b
  <2> QED BY <1>5, <2>2
<1> HIDE DEF b
<1>7. /\ arriving = Join(b, end) /\ arriving \in Seq(Tokens) /\ Len(arriving) \in Nat
      /\ \A i \in 1 .. 9 - k : arriving[i] = h[k + i]
  <2>1. arriving = Join(b, end)
    BY <1>3 DEF b
  <2>2. /\ Join(b, end) \in Seq(Tokens) /\ Len(Join(b, end)) \in Nat
        /\ \A i \in 1 .. Len(b) : Join(b, end)[i] = b[i]
    BY <1>4, <1>6, JoinFacts, LenProperties
  <2> QED BY <1>6, <2>1, <2>2
<1>8. n \in Nat /\ n >= 1 /\ n <= Len(arriving)
  BY <1>7
<1> DEFINE tokens == Upto(arriving, n)
<1>9. /\ tokens \in Seq(Tokens) /\ Len(tokens) = n /\ \A i \in 1 .. n : tokens[i] = arriving[i]
      /\ Behind(arriving, n) \in Seq(Tokens) /\ Join(tokens, Behind(arriving, n)) = arriving
  BY <1>7, <1>8, CutAt, ZenonT(60)
<1> HIDE DEF tokens
<1>10. \A i \in 1 .. Len(tokens) : k + i <= 9 => tokens[i] = h[k + i]
  BY <1>7, <1>8, <1>9
<1> DEFINE j == IF k + n <= 9 THEN k + n ELSE 9
<1>11. /\ p \in Parsers /\ ReadTo(p, j, ch, cut)
       /\ p.error \/ p.nparse = IF k + n <= 9 THEN n ELSE 9 - k
  <2>1. p = Execute(parser, tokens)
    BY DEF p, tokens
  <2>2. /\ Execute(parser, tokens) \in Parsers
        /\ ReadTo(Execute(parser, tokens),
                  IF k + Len(tokens) <= 9 THEN k + Len(tokens) ELSE 9, ch, cut)
        /\ \/ Execute(parser, tokens).error
           \/ Execute(parser, tokens).nparse = IF k + Len(tokens) <= 9 THEN Len(tokens) ELSE 9 - k
    <3> HIDE DEF ch
    <3>1. \A i \in 1 .. Len(tokens) : k + i <= 9 => tokens[i] = Header(ch)[k + i]
      BY <1>10 DEF h
    <3>2. parser \in Parsers /\ tokens \in Seq(Tokens) /\ ReadTo([parser EXCEPT !.marked = FALSE], k, ch, cut)
      BY <1>2, <1>3, <1>9, Zenon
    <3> QED BY <1>4, <3>1, <3>2, ExecuteReads, Zenon
  <2> HIDE DEF ch
  <2> QED BY <1>9, <2>1, <2>2, Zenon DEF j
<1>12. j \in 0 .. 9
  BY <1>8
<1>13. /\ ReadTo([p EXCEPT !.marked = FALSE], j, ch, Noted(p, cut))
       /\ p.error => "status" \in Noted(p, cut)
       /\ ~ p.error /\ j = 9 => Noted(p, cut) = cut
  <2> HIDE DEF ch, j
  <2> QED BY <1>4, <1>11, <1>12, MarkLost
<1>14. CASE p.error
  <2>1. "status" \in cut'
    BY <1>1, <1>13, <1>14
  <2>2. ~ p.finished
    <3> HIDE DEF ch, j
    <3> QED BY <1>11, <1>14 DEF ReadTo
  <2>3. recv' = "null"
    BY <1>1, <1>14, <2>2
  <2> QED BY <1>1, <2>1, <2>3 DEF ConnectionInv, ResponseExact
<1>15. CASE ~ p.error /\ k + n < 9
  <2>1. j = k + n /\ j # 9 /\ k + n \in 0 .. 8
    BY <1>8, <1>15
  <2>2. ~ p.finished
    <3> HIDE DEF ch, j
    <3> QED BY <1>11, <1>15, <2>1 DEF ReadTo
  <2>3. recv' = "header" /\ data' = <<>> /\ body' = <<>>
    BY <1>1, <1>2, <1>15, <2>2
  <2>4. arriving' = Join(Behind(h, k + n), end)
    <3>1. n <= Len(b) /\ k + n <= Len(h)
      BY <1>5, <1>6, <2>1
    <3>2. Behind(Join(b, end), n) = Join(Behind(b, n), end)
      BY <1>4, <1>6, <1>8, <3>1, BehindJoin
    <3>3. Behind(Behind(h, k), n) = Behind(h, k + n)
      <4>1. k \in Nat
        OBVIOUS
      <4> QED BY <1>5, <1>8, <3>1, <4>1, BehindBehind
    <3> QED BY <1>1, <1>7, <3>2, <3>3, Zenon DEF b
  <2>5. HeaderInv'
    <3>1. /\ parser' \in Parsers /\ data' = <<>> /\ body' = <<>> /\ k + n \in 0 .. 8
          /\ arriving' = Join(Behind(h, k + n), end)
          /\ ReadTo([parser' EXCEPT !.marked = FALSE], k + n, ch, cut')
      BY <1>1, <1>11, <1>13, <2>1, <2>3, <2>4, Zenon
    <3> QED BY <1>1, <3>1, Zenon DEF HeaderInv, h, end
  <2> QED BY <1>1, <2>3, <2>5 DEF ConnectionInv, ResponseExact
<1>16. CASE ~ p.error /\ k + n >= 9
  <2>1. j = 9 /\ p.nparse = 9 - k /\ 9 - k \in Nat /\ 9 - k <= n
    BY <1>8, <1>11, <1>16
  <2>2. /\ p.finished /\ (p.chunked <=> ch)
        /\ p.status = "200" \/ "status" \in cut
        /\ ch => "length" \notin cut
        /\ ~ ch => (p.length <=> "length" \notin cut)
    <3> HIDE DEF ch, j
    <3> QED BY <1>11, <1>16, <2>1 DEF ReadTo
  <2>3. cut' = cut
    BY <1>1, <1>13, <1>16, <2>1, Zenon
  <2>4. /\ all \in Seq(Tokens) /\ Len(all) \in Nat
        /\ Join(all, arriving') = end /\ arriving' \in Seq(Tokens)
    <3>1. all = Behind(tokens, 9 - k)
      BY <1>9, <2>1, Zenon DEF all, tokens, Behind
    <3>2. Join(tokens, arriving') = Join(b, end) /\ arriving' \in Seq(Tokens)
      BY <1>1, <1>7, <1>9
    <3>3. Len(b) <= Len(tokens)
      BY <1>6, <1>9, <2>1
    <3>4. Behind(tokens, Len(b)) \in Seq(Tokens) /\ Join(Behind(tokens, Len(b)), arriving') = end
      BY <1>4, <1>6, <1>9, <3>2, <3>3, Overlap
    <3> QED BY <1>6, <3>1, <3>2, <3>4, LenProperties
  <2>5. CASE ch
    <3>1. recv' = "size" /\ data' = all /\ body' = <<>>
      BY <1>1, <1>2, <1>16, <2>2, <2>5
    <3>2. 1 \in 1 .. Len(response.chunks) /\ 1 - 1 = 0
      BY <1>1, <2>5, ChunkFacts
    <3>3. /\ FlattenSeq(Behind(Coded(response), 1 - 1)) = end
          /\ FlattenSeq(Upto(Datas(response), 1 - 1)) = <<>>
      BY <1>1, <2>5, <3>2, ChunkEnds, Zenon DEF end
    <3>4. SizeInv'
      BY <1>1, <2>4, <3>1, <3>2, <3>3, Zenon DEF SizeInv
    <3>5. /\ IsChunked(response)' /\ "length" \notin cut'
          /\ parser'.status = "200" \/ "status" \in cut'
      BY <1>1, <2>2, <2>3, <2>5
    <3> QED BY <1>1, <3>1, <3>4, <3>5 DEF ConnectionInv, ResponseExact
  <2>6. CASE ~ ch /\ "length" \notin cut
    <3> DEFINE c == Content(response)
    <3>1. end = c
      BY <1>1, <2>6, PlainFacts DEF end
    <3> HIDE DEF c
    <3>2. /\ body' = SubSeq(all, 1, Min({Len(c), Len(all)}))
          /\ left' = Len(c) - Len(body')
          /\ recv' = IF left' > 0 THEN "content" ELSE "response"
      BY <1>1, <1>16, <2>2, <2>6, Zenon DEF c
    <3>3. Len(c) = Len(all) + Len(arriving') /\ Len(arriving') \in Nat /\ Len(c) \in Nat
      <4>1. Len(Join(all, arriving')) = Len(all) + Len(arriving')
        BY <2>4, JoinFacts
      <4>2. Len(arriving') \in Nat
        BY <2>4, LenProperties
      <4> QED BY <2>4, <3>1, <4>1, <4>2
    <3>4. Min({Len(c), Len(all)}) = Len(all)
      BY <2>4, <3>3, MinOfTwo
    <3>5. body' = all
      <4>1. Upto(all, Len(all)) = all
        BY <2>4, CutNone
      <4> QED BY <3>2, <3>4, <4>1, Zenon DEF Upto
    <3>6. left' = Len(arriving')
      <4>1. left' = Len(c) - Len(all)
        BY <3>2, <3>5, Zenon
      <4> QED BY <2>4, <3>3, <4>1
    <3>7. parser'.status = "200" \/ "status" \in cut'
      BY <1>1, <2>2, <2>3
    <3>8. CASE left' > 0
      <4>1. recv' = "content"
        BY <3>2, <3>8
      <4>2. ContentInv'
        BY <1>1, <2>3, <2>4, <2>6, <3>1, <3>5, <3>6, <3>8, Zenon DEF ContentInv, c
      <4> QED BY <1>1, <3>7, <4>1, <4>2 DEF ConnectionInv, ResponseExact
    <3>9. CASE ~ (left' > 0)
      <4>1. recv' = "response" /\ Len(arriving') = 0
        <5>1. recv' = "response"
          BY <3>2, <3>9, Zenon
        <5>2. Len(arriving') = 0
          BY <3>3, <3>6, <3>9
        <5> QED BY <5>1, <5>2
      <4>2. arriving' = <<>>
        BY <2>4, <4>1, EmptySeq
      <4>3. body' = Content(response)'
        <5>1. Join(all, <<>>) = all
          BY <2>4, JoinEmpty
        <5> QED BY <1>1, <2>4, <3>1, <3>5, <4>2, <5>1, Zenon DEF c
      <4>4. "length" \notin cut'
        BY <2>3, <2>6
      <4> QED BY <1>1, <3>7, <4>1, <4>3, <4>4 DEF ConnectionInv, ResponseExact
    <3> QED BY <3>8, <3>9
  <2>7. CASE ~ ch /\ "length" \in cut
    <3>1. /\ body' = SubSeq(all, 1, Min({0, Len(all)}))
          /\ left' = 0 - Len(body')
          /\ recv' = IF left' > 0 THEN "content" ELSE "response"
      BY <1>1, <1>16, <2>2, <2>7, Zenon
    <3>2. Min({0, Len(all)}) = 0
      BY <2>4, MinOfTwo
    <3>3. body' = <<>>
      <4>1. Upto(all, 0) = <<>>
        BY <2>4, CutNone
      <4> QED BY <3>1, <3>2, <4>1, Zenon DEF Upto
    <3>4. recv' = "response"
      <4>1. Len(body') = 0
        BY <3>3
      <4>2. left' = 0
        <5>1. left' = 0 - Len(body')
          BY <3>1
        <5>2. left' = 0 - 0
          BY <4>1, <5>1, Zenon
        <5> QED BY <5>2
      <4>3. ~ (left' > 0)
        BY <4>2
      <4> QED BY <3>1, <4>3, Zenon
    <3>5. "length" \in cut'
      BY <2>3, <2>7
    <3> QED BY <1>1, <3>3, <3>4, <3>5 DEF ConnectionInv, ResponseExact
  <2> QED BY <2>5, <2>6, <2>7
<1>17. k + n < 9 \/ k + n >= 9
  BY <1>8
<1> QED BY <1>14, <1>15, <1>16, <1>17

\* A read in the content.
LEMMA ContentStep ==
    ASSUME ConnectionInv, NEW n \in 1 .. Len(arriving), ReadContent(n)
    PROVE  ConnectionInv'
<1>1. /\ response \in Responses /\ recv = "content" /\ ContentInv
      /\ parser.status = "200" \/ "status" \in cut
      /\ arriving' = Behind(arriving, n) /\ body' = Join(body, Upto(arriving, n))
      /\ left' = left - n /\ recv' = IF left' > 0 THEN "content" ELSE "response"
      /\ response' = response /\ parser' = parser /\ cut' = cut
  <2>1. recv = "content"
    BY Zenon DEF ReadContent
  <2>2. /\ response \in Responses /\ ContentInv
        /\ parser.status = "200" \/ "status" \in cut
    BY <2>1 DEF ConnectionInv
  <2> QED BY <2>1, <2>2, Zenon DEF ReadContent, Reads, Join, Upto, Behind
<1>2. /\ ~ IsChunked(response) /\ "length" \notin cut
      /\ body \in Seq(Tokens) /\ arriving \in Seq(Tokens)
      /\ Join(body, arriving) = Content(response) /\ left = Len(arriving)
  BY <1>1, Zenon DEF ContentInv
<1>3. n \in Nat /\ n >= 1 /\ n <= Len(arriving) /\ Len(arriving) \in Nat
  BY <1>2, LenProperties
<1> DEFINE a == Upto(arriving, n)
           b == Behind(arriving, n)
<1>4. /\ a \in Seq(Tokens) /\ b \in Seq(Tokens) /\ Len(b) = Len(arriving) - n
      /\ Join(a, b) = arriving
  BY <1>2, <1>3, CutAt
<1> HIDE DEF a, b
<1>5. Join(body, a) \in Seq(Tokens) /\ Join(Join(body, a), b) = Join(body, arriving)
  BY <1>2, <1>4, JoinFacts, JoinThree
<1>6. body' = Join(body, a) /\ arriving' = b
  BY <1>1 DEF a, b
<1>7. left' = Len(b) /\ Len(b) \in Nat
  BY <1>1, <1>2, <1>3, <1>4
<1>8. CASE left' > 0
  <2>1. recv' = "content"
    BY <1>1, <1>8
  <2>2. ContentInv'
    BY <1>1, <1>2, <1>4, <1>5, <1>6, <1>7, <1>8, Zenon DEF ContentInv
  <2> QED BY <1>1, <2>1, <2>2 DEF ConnectionInv, ResponseExact
<1>9. CASE ~ (left' > 0)
  <2>1. recv' = "response"
    BY <1>1, <1>9, Zenon
  <2>2. Len(b) = 0
    BY <1>7, <1>9
  <2>3. b = <<>>
    BY <1>4, <2>2, EmptySeq
  <2>4. body' = Content(response)'
    <3>1. Join(Join(body, a), <<>>) = Join(body, a)
      BY <1>5, JoinEmpty
    <3> QED BY <1>1, <1>2, <1>5, <1>6, <2>3, <3>1, Zenon
  <2> QED BY <1>1, <1>2, <2>1, <2>4 DEF ConnectionInv, ResponseExact
<1> QED BY <1>8, <1>9

\* What the tokens of a chunk-size line do.
LEMMA ParseAction ==
    ASSUME NEW tokens, ParseSize(tokens), NEW chunk, chunk = ExecuteChunk(tokens),
           NEW rest, rest = SubSeq(tokens, chunk.nparse + 1, Len(tokens))
    PROVE  /\ response' = response /\ parser' = parser
           /\ cut' = IF chunk.finished \/ chunk.error THEN cut ELSE cut \cup {"size"}
           /\ \/ chunk.error /\ recv' = "null"
              \/ ~ chunk.error /\ ~ chunk.finished /\ recv' = recv
              \/ /\ chunk.finished /\ content_len' = chunk.value
                 /\ \/ /\ chunk.value + 2 <= Len(rest)
                       /\ body' = body \o SubSeq(rest, 1, chunk.value)
                       /\ data' = SubSeq(rest, chunk.value + 3, Len(rest))
                       /\ recv' = IF chunk.value = 0 THEN "response" ELSE "size"
                    \/ /\ ~ (chunk.value + 2 <= Len(rest))
                       /\ body' = body \o rest
                       /\ left' = chunk.value - Len(rest) + 2
                       /\ data' = <<>>
                       /\ recv' = "data"
  BY Zenon DEF ParseSize, Fails, TakeChunk, AfterChunk

\* A chunk-size line after one that was cut.
LEMMA SizeAfterCut ==
    ASSUME ConnectionInv, recv = "size", "size" \in cut, NEW tokens, ParseSize(tokens)
    PROVE  ConnectionInv'
<1> DEFINE chunk == ExecuteChunk(tokens)
           rest == SubSeq(tokens, chunk.nparse + 1, Len(tokens))
<1>1. /\ response' = response /\ parser' = parser
      /\ cut' = IF chunk.finished \/ chunk.error THEN cut ELSE cut \cup {"size"}
      /\ recv' \in {"null", "size", "data", "response"}
  <2> HIDE DEF chunk, rest
  <2>1. /\ response' = response /\ parser' = parser
        /\ cut' = IF chunk.finished \/ chunk.error THEN cut ELSE cut \cup {"size"}
        /\ \/ chunk.error /\ recv' = "null"
           \/ ~ chunk.error /\ ~ chunk.finished /\ recv' = recv
           \/ /\ chunk.finished /\ content_len' = chunk.value
              /\ \/ /\ chunk.value + 2 <= Len(rest)
                    /\ body' = body \o SubSeq(rest, 1, chunk.value)
                    /\ data' = SubSeq(rest, chunk.value + 3, Len(rest))
                    /\ recv' = IF chunk.value = 0 THEN "response" ELSE "size"
                 \/ /\ ~ (chunk.value + 2 <= Len(rest))
                    /\ body' = body \o rest
                    /\ left' = chunk.value - Len(rest) + 2
                    /\ data' = <<>>
                    /\ recv' = "data"
    BY ParseAction, Zenon DEF chunk, rest
  <2> QED BY <2>1
<1> HIDE DEF chunk, rest
<1>2. /\ response \in Responses /\ IsChunked(response) /\ "length" \notin cut
      /\ parser.status = "200" \/ "status" \in cut
  BY DEF ConnectionInv
<1>3. "size" \in cut' /\ "length" \notin cut' /\ ("status" \in cut => "status" \in cut')
  <2>1. cut' = cut \/ cut' = cut \cup {"size"}
    BY <1>1, Zenon
  <2> QED BY <1>2, <2>1
<1>4. IsChunked(response)'
  BY <1>1, <1>2
<1> QED BY <1>1, <1>2, <1>3, <1>4 DEF ConnectionInv, ResponseExact

\* A chunk-size line while none was cut.
LEMMA SizeStep ==
    ASSUME ConnectionInv, recv = "size", "size" \notin cut, NEW tokens \in Seq(Tokens),
           arriving' \in Seq(Tokens), Join(tokens, arriving') = Join(data, arriving),
           ParseSize(tokens)
    PROVE  ConnectionInv'
<1> DEFINE chunk == ExecuteChunk(tokens)
           over == SubSeq(tokens, chunk.nparse + 1, Len(tokens))
<1>1. /\ response' = response /\ parser' = parser
      /\ cut' = IF chunk.finished \/ chunk.error THEN cut ELSE cut \cup {"size"}
      /\ \/ chunk.error /\ recv' = "null"
         \/ ~ chunk.error /\ ~ chunk.finished /\ recv' = recv
         \/ /\ chunk.finished /\ content_len' = chunk.value
            /\ \/ /\ chunk.value + 2 <= Len(over)
                  /\ body' = body \o SubSeq(over, 1, chunk.value)
                  /\ data' = SubSeq(over, chunk.value + 3, Len(over))
                  /\ recv' = IF chunk.value = 0 THEN "response" ELSE "size"
               \/ /\ ~ (chunk.value + 2 <= Len(over))
                  /\ body' = body \o over
                  /\ left' = chunk.value - Len(over) + 2
                  /\ data' = <<>>
                  /\ recv' = "data"
  BY ParseAction, Zenon
<1>2. /\ response \in Responses /\ IsChunked(response) /\ "length" \notin cut
      /\ parser.status = "200" \/ "status" \in cut
      /\ SizeInv
  BY DEF ConnectionInv
<1>3. PICK k \in 1 .. Len(response.chunks) :
        /\ Join(data, arriving) = FlattenSeq(Behind(Coded(response), k - 1))
        /\ body = FlattenSeq(Upto(Datas(response), k - 1))
  BY <1>2, Zenon DEF SizeInv
<1> DEFINE m == Len(response.chunks)
           z == SizeOf(response, k)
           d == DataOf(response, k)
           flat == FlattenSeq(Behind(Coded(response), k))
           before == FlattenSeq(Upto(Datas(response), k - 1))
           upto == FlattenSeq(Upto(Datas(response), k))
<1>4. /\ m \in Nat /\ k \in 1 .. m
      /\ z \in Seq(Tokens) /\ z # <<>> /\ \A i \in 1 .. Len(z) : z[i] \in Digits
      /\ d \in Seq(Tokens) /\ Number(z) = Len(d) /\ (Len(d) = 0 <=> k = m)
  BY <1>2, ChunkFacts
<1>5. /\ flat \in Seq(Tokens) /\ before \in Seq(Tokens) /\ upto = Join(before, d)
      /\ FlattenSeq(Behind(Coded(response), k - 1)) = Join(z, Join(CRLF, Join(d, Join(CRLF, flat))))
  BY <1>2, ChunkOf
<1>6. body = before /\ Join(tokens, arriving') = Join(z, Join(CRLF, Join(d, Join(CRLF, flat))))
  BY <1>3, <1>5, Zenon
<1> HIDE DEF chunk, over, m, z, d, flat, before, upto
<1>7. Join(d, Join(CRLF, flat)) \in Seq(Tokens)
  <2>1. Join(CRLF, flat) \in Seq(Tokens)
    BY <1>5, CrlfFacts, JoinFacts
  <2> QED BY <1>4, <2>1, JoinFacts
<1>8. /\ ~ chunk.error
      /\ chunk.finished <=> Len(tokens) >= Len(z) + 2
      /\ chunk.finished => chunk.nparse = Len(z) + 2 /\ chunk.value = Number(z)
  <2> DEFINE t == Join(d, Join(CRLF, flat))
             a == arriving'
  <2>1. t \in Seq(Tokens) /\ a \in Seq(Tokens) /\ Join(tokens, a) = Join(z, Join(CRLF, t))
    BY <1>6, <1>7
  <2> HIDE DEF t, a
  <2> QED BY <1>4, <2>1, ChunkLine DEF chunk
<1>9. IsChunked(response)'
  BY <1>1, <1>2
<1>10. CASE ~ chunk.finished
  <2>1. recv' = "size" /\ "size" \in cut' /\ "length" \notin cut'
        /\ ("status" \in cut => "status" \in cut')
    <3>1. recv' = "size" /\ cut' = cut \cup {"size"}
      BY <1>1, <1>8, <1>10, Zenon
    <3> QED BY <1>2, <3>1
  <2> QED BY <1>1, <1>2, <1>9, <2>1 DEF ConnectionInv, ResponseExact
<1>11. CASE chunk.finished
  <2>1. /\ chunk.nparse = Len(z) + 2 /\ chunk.value = Len(d) /\ Len(tokens) >= Len(z) + 2
        /\ cut' = cut
    BY <1>1, <1>4, <1>8, <1>11, Zenon
  <2>2. over = Behind(tokens, Len(z) + 2)
    BY <2>1, Zenon DEF over, Behind
  <2>3. /\ content_len' = Len(d)
        /\ \/ /\ Len(d) + 2 <= Len(over)
              /\ body' = body \o SubSeq(over, 1, Len(d))
              /\ data' = SubSeq(over, Len(d) + 3, Len(over))
              /\ recv' = IF Len(d) = 0 THEN "response" ELSE "size"
           \/ /\ ~ (Len(d) + 2 <= Len(over))
              /\ body' = body \o over
              /\ left' = Len(d) - Len(over) + 2
              /\ data' = <<>>
              /\ recv' = "data"
    BY <1>1, <1>8, <1>11, <2>1, Zenon
  <2> DEFINE more == Len(d) - Len(over) + 2
             a == arriving'
  <2>4. /\ over \in Seq(Tokens)
        /\ Len(d) + 2 <= Len(over) =>
             /\ Upto(over, Len(d)) = d
             /\ Behind(over, Len(d) + 2) \in Seq(Tokens)
             /\ Join(Behind(over, Len(d) + 2), a) = flat
        /\ Len(d) + 2 > Len(over) =>
             /\ more \in 1 .. Len(a)
             /\ Upto(a, more) \in Seq(Tokens)
             /\ Join(over, Upto(a, more)) = Join(d, CRLF)
             /\ Behind(a, more) = flat
    <3>1. a \in Seq(Tokens) /\ Join(tokens, a) = Join(z, Join(CRLF, Join(d, Join(CRLF, flat))))
      BY <1>6
    <3> HIDE DEF more, a
    <3>2. more = Len(d) - Len(over) + 2
      BY DEF more
    <3>3. /\ z \in Seq(Tokens) /\ d \in Seq(Tokens) /\ flat \in Seq(Tokens)
          /\ Len(tokens) >= Len(z) + 2
      BY <1>4, <1>5, <2>1
    <3>4. ChunkIn(over, more, a, d, flat)
      BY <2>2, <3>1, <3>2, <3>3, ChunkTaken
    <3> QED BY <3>4, Zenon DEF ChunkIn
  <2>5. Len(d) \in Nat /\ Len(over) \in Nat
    BY <1>4, <2>4, LenProperties
  <2> HIDE DEF more
  <2>6. CASE Len(d) + 2 <= Len(over)
    <3>1. /\ body' = body \o SubSeq(over, 1, Len(d))
          /\ data' = SubSeq(over, Len(d) + 3, Len(over))
          /\ recv' = IF Len(d) = 0 THEN "response" ELSE "size"
      BY <2>3, <2>6, Zenon
    <3>2. body' = upto
      <4>1. body' = Join(body, Upto(over, Len(d)))
        BY <3>1, Zenon DEF Join, Upto
      <4> QED BY <1>5, <1>6, <2>4, <2>6, <4>1, Zenon
    <3>3. data' = Behind(over, Len(d) + 2)
      <4>1. Len(d) + 3 = (Len(d) + 2) + 1
        BY <2>5
      <4> QED BY <3>1, <4>1, Zenon DEF Behind
    <3>4. data' \in Seq(Tokens) /\ Join(data', arriving') = flat
      BY <2>4, <2>6, <3>3, Zenon
    <3>5. CASE Len(d) = 0
      <4>1. recv' = "response"
        BY <3>1, <3>5, Zenon
      <4>2. body' = Content(response)'
        <5>1. k = m
          BY <1>4, <3>5
        <5>2. FlattenSeq(Upto(Datas(response), m)) = Content(response)
          BY <1>2, ChunkEnds DEF m
        <5> QED BY <1>1, <3>2, <5>1, <5>2, Zenon DEF upto
      <4> QED BY <1>1, <1>2, <2>1, <4>1, <4>2 DEF ConnectionInv, ResponseExact
    <3>6. CASE Len(d) # 0
      <4>1. recv' = "size"
        BY <3>1, <3>6, Zenon
      <4>2. k + 1 \in 1 .. m /\ (k + 1) - 1 = k
        BY <1>4, <3>6
      <4>3. SizeInv'
        <5>1. k + 1 \in 1 .. Len(response'.chunks)
          BY <1>1, <4>2, Zenon DEF m
        <5>2. /\ Join(data', arriving') = FlattenSeq(Behind(Coded(response'), (k + 1) - 1))
              /\ body' = FlattenSeq(Upto(Datas(response'), (k + 1) - 1))
          BY <1>1, <3>2, <3>4, <4>2, Zenon DEF flat, upto
        <5> QED BY <3>4, <5>1, <5>2, Zenon DEF SizeInv, Coded, Datas
      <4> QED BY <1>1, <1>2, <1>9, <2>1, <4>1, <4>3 DEF ConnectionInv, ResponseExact
    <3> QED BY <3>5, <3>6
  <2>7. CASE ~ (Len(d) + 2 <= Len(over))
    <3>1. body' = body \o over /\ left' = more /\ data' = <<>> /\ recv' = "data"
      BY <2>3, <2>7, Zenon DEF more
    <3>2. /\ more \in 1 .. Len(a)
          /\ Upto(a, more) \in Seq(Tokens)
          /\ Join(over, Upto(a, more)) = Join(d, CRLF)
          /\ Behind(a, more) = flat
      BY <2>4, <2>5, <2>7
    <3>3. body' = Join(before, over) /\ Join(before, over) \in Seq(Tokens)
      <4>1. body' = Join(body, over)
        BY <3>1, Zenon DEF Join
      <4>2. Join(before, over) \in Seq(Tokens)
        BY <1>5, <2>4, JoinFacts
      <4> QED BY <1>6, <4>1, <4>2, Zenon
    <3>4. Join(Join(before, over), Upto(a, more)) = Join(upto, CRLF)
      <4> DEFINE y == Upto(a, more)
      <4>1. y \in Seq(Tokens) /\ Join(over, y) = Join(d, CRLF)
        BY <3>2
      <4> HIDE DEF y
      <4>2. Join(Join(before, over), y) = Join(before, Join(over, y))
        BY <1>5, <2>4, <4>1, JoinThree
      <4>3. Join(Join(before, d), CRLF) = Join(before, Join(d, CRLF))
        BY <1>4, <1>5, CrlfFacts, JoinThree
      <4> QED BY <1>5, <4>1, <4>2, <4>3, Zenon DEF y
    <3>5. DataInv'
      <4>1. /\ data' = <<>> /\ body' \in Seq(Tokens) /\ arriving' \in Seq(Tokens)
            /\ left' \in 1 .. Len(arriving')
        BY <3>1, <3>2, <3>3
      <4>2. k \in 1 .. Len(response'.chunks)
        BY <1>1, <1>4, Zenon DEF m
      <4>3. /\ Join(body', Upto(arriving', left')) =
                 Join(FlattenSeq(Upto(Datas(response'), k)), CRLF)
            /\ Behind(arriving', left') = FlattenSeq(Behind(Coded(response'), k))
            /\ content_len' = Len(DataOf(response', k))
        BY <1>1, <2>3, <3>1, <3>2, <3>3, <3>4, Zenon DEF upto, flat, d
      <4> QED BY <4>1, <4>2, <4>3, Zenon DEF DataInv, Coded, Datas, DataOf, Upto, Behind
    <3> QED BY <1>1, <1>2, <1>9, <2>1, <3>1, <3>5 DEF ConnectionInv, ResponseExact
  <2> QED BY <2>6, <2>7
<1> QED BY <1>10, <1>11

\* A read in a chunk.
LEMMA DataStep ==
    ASSUME ConnectionInv, NEW n \in 1 .. Len(arriving), ReadData(n)
    PROVE  ConnectionInv'
<1> DEFINE all == body \o SubSeq(arriving, 1, n)
<1>1. /\ recv = "data" /\ n <= Min({Len(arriving), Min({left, buff_size})})
      /\ arriving' = Behind(arriving, n) /\ left' = left - n
      /\ body' = IF left' > 0 THEN all ELSE SubSeq(all, 1, Len(all) - 2)
      /\ recv' = IF left' > 0 THEN "data" ELSE IF content_len = 0 THEN "response" ELSE "size"
      /\ response' = response /\ parser' = parser /\ data' = data
      /\ content_len' = content_len /\ cut' = cut
  BY Zenon DEF ReadData, Reads, AfterChunk, Behind
<1>2. /\ response \in Responses /\ IsChunked(response) /\ "length" \notin cut
      /\ parser.status = "200" \/ "status" \in cut
      /\ "size" \in cut \/ DataInv
  BY <1>1 DEF ConnectionInv
<1>3. IsChunked(response)'
  BY <1>1, <1>2
<1>4. CASE "size" \in cut
  <2>1. recv' \in {"data", "response", "size"}
    BY <1>1
  <2>2. "size" \in cut' /\ "length" \notin cut'
    BY <1>1, <1>2, <1>4
  <2> QED BY <1>1, <1>2, <1>3, <2>1, <2>2 DEF ConnectionInv, ResponseExact
<1>5. CASE DataInv
  <2>1. /\ data = <<>> /\ body \in Seq(Tokens) /\ arriving \in Seq(Tokens)
        /\ left \in 1 .. Len(arriving)
        /\ \E k \in 1 .. Len(response.chunks) :
             /\ Join(body, Upto(arriving, left)) = Join(FlattenSeq(Upto(Datas(response), k)), CRLF)
             /\ Behind(arriving, left) = FlattenSeq(Behind(Coded(response), k))
             /\ content_len = Len(DataOf(response, k))
    BY <1>5, Zenon DEF DataInv
  <2>2. PICK k \in 1 .. Len(response.chunks) :
          /\ Join(body, Upto(arriving, left)) = Join(FlattenSeq(Upto(Datas(response), k)), CRLF)
          /\ Behind(arriving, left) = FlattenSeq(Behind(Coded(response), k))
          /\ content_len = Len(DataOf(response, k))
    BY <2>1
  <2> DEFINE m == Len(response.chunks)
             d == DataOf(response, k)
             flat == FlattenSeq(Behind(Coded(response), k))
             before == FlattenSeq(Upto(Datas(response), k - 1))
             upto == FlattenSeq(Upto(Datas(response), k))
  <2>3. /\ m \in Nat /\ k \in 1 .. m /\ d \in Seq(Tokens) /\ (Len(d) = 0 <=> k = m)
    BY <1>2, ChunkFacts
  <2>4. flat \in Seq(Tokens) /\ upto \in Seq(Tokens)
    <3>1. flat \in Seq(Tokens) /\ before \in Seq(Tokens) /\ upto = Join(before, d)
      BY <1>2, ChunkOf
    <3> HIDE DEF flat, before, upto, d
    <3> QED BY <2>3, <3>1, JoinFacts
  <2>5. /\ Join(body, Upto(arriving, left)) = Join(upto, CRLF)
        /\ Behind(arriving, left) = flat /\ content_len = Len(d)
    BY <2>2
  <2> HIDE DEF m, d, flat, before, upto
  <2>6. n \in Nat /\ left \in Nat /\ left <= Len(arriving) /\ n <= left
    <3>1. Len(arriving) \in Nat /\ left \in Nat /\ left <= Len(arriving) /\ n \in Nat /\ buff_size \in Nat
      BY <2>1, LenProperties, HttpConnectionConstants
    <3>2. Min({left, buff_size}) \in Nat /\ Min({left, buff_size}) <= left
      BY <3>1, MinOfTwo
    <3>3. Min({Len(arriving), Min({left, buff_size})}) <= Min({left, buff_size})
          /\ Min({Len(arriving), Min({left, buff_size})}) \in Nat
      <4> DEFINE q == Min({left, buff_size})
      <4>1. q \in Nat
        BY <3>2
      <4> HIDE DEF q
      <4>2. Min({Len(arriving), q}) <= q /\ Min({Len(arriving), q}) \in Nat
        BY <3>1, <4>1, MinOfTwo
      <4> QED BY <4>2 DEF q
    <3> QED BY <1>1, <3>1, <3>2, <3>3
  <2> DEFINE a == Upto(arriving, n)
             b == Behind(arriving, n)
             u == Upto(b, left - n)
  <2>7. a \in Seq(Tokens) /\ b \in Seq(Tokens) /\ Len(b) = Len(arriving) - n
    <3>1. n <= Len(arriving)
      BY <2>1, <2>6, LenProperties
    <3> QED BY <2>1, <2>6, <3>1, CutAt
  <2>8. /\ Upto(arriving, left) = Join(a, u) /\ flat = Behind(b, left - n) /\ u \in Seq(Tokens)
    <3>1. Behind(arriving, left) = Behind(b, left - n)
      BY <2>1, <2>6, CutTwice
    <3> QED BY <2>1, <2>5, <2>6, <3>1, CutTwice
  <2> HIDE DEF a, b, u
  <2>9. /\ Join(body, a) \in Seq(Tokens) /\ Join(Join(body, a), u) = Join(upto, CRLF)
    <3>1. Join(Join(body, a), u) = Join(body, Join(a, u))
      BY <2>1, <2>7, <2>8, JoinThree
    <3>2. Join(body, a) \in Seq(Tokens)
      BY <2>1, <2>7, JoinFacts
    <3> QED BY <2>5, <2>8, <3>1, <3>2, Zenon
  <2>10. all = Join(body, a) /\ arriving' = b
    BY <1>1, Zenon DEF a, b, Join, Upto
  <2> HIDE DEF all
  <2>11. CASE n < left
    <3>1. left' > 0 /\ left - n \in 1 .. Len(b) /\ left' = left - n
      <4>1. Len(arriving) \in Nat
        BY <2>1, LenProperties
      <4> QED BY <1>1, <2>6, <2>7, <2>11, <4>1
    <3>2. body' = Join(body, a) /\ recv' = "data"
      BY <1>1, <2>10, <3>1, Zenon
    <3>3. DataInv'
      <4>1. /\ data' = <<>> /\ body' \in Seq(Tokens) /\ arriving' \in Seq(Tokens)
            /\ left' \in 1 .. Len(arriving')
        BY <1>1, <2>1, <2>7, <2>9, <2>10, <3>1, <3>2
      <4>2. k \in 1 .. Len(response'.chunks)
        BY <1>1, <2>3, Zenon DEF m
      <4>3. /\ Join(body', Upto(arriving', left')) =
                 Join(FlattenSeq(Upto(Datas(response'), k)), CRLF)
            /\ Behind(arriving', left') = FlattenSeq(Behind(Coded(response'), k))
            /\ content_len' = Len(DataOf(response', k))
        BY <1>1, <2>5, <2>8, <2>9, <2>10, <3>1, <3>2, Zenon DEF upto, flat, d, u
      <4> QED BY <4>1, <4>2, <4>3, Zenon DEF DataInv, Coded, Datas, DataOf, Upto, Behind
    <3> QED BY <1>1, <1>2, <1>3, <3>2, <3>3 DEF ConnectionInv, ResponseExact
  <2>12. CASE n = left
    <3>1. ~ (left' > 0) /\ left - n = 0
      <4>1. left' = 0
        BY <1>1, <2>6, <2>12
      <4> QED BY <2>6, <2>12, <4>1
    <3>2. arriving' = flat /\ Join(body, a) = Join(upto, CRLF)
      <4>1. arriving' = flat
        BY <2>5, <2>10, <2>12 DEF b
      <4>2. Join(body, a) = Join(upto, CRLF)
        BY <2>5, <2>12 DEF a
      <4> QED BY <4>1, <4>2
    <3>3. body' = upto
      <4>1. Len(Join(upto, CRLF)) = Len(upto) + Len(CRLF) /\ Len(upto) \in Nat
        BY <2>4, CrlfFacts, JoinFacts, LenProperties, ZenonT(30)
      <4>2. Len(all) - 2 = Len(upto)
        BY <2>10, <3>2, <4>1, CrlfFacts
      <4>3. body' = Upto(all, Len(all) - 2)
        BY <1>1, <3>1, Zenon DEF Upto
      <4>4. Upto(Join(upto, CRLF), Len(upto)) = upto
        BY <2>4, CrlfFacts, CutJoin
      <4> QED BY <2>10, <3>2, <4>2, <4>3, <4>4, Zenon
    <3>4. CASE Len(d) = 0
      <4>1. recv' = "response"
        BY <1>1, <2>5, <3>1, <3>4, Zenon
      <4>2. body' = Content(response)'
        <5>1. k = m
          BY <2>3, <3>4
        <5>2. FlattenSeq(Upto(Datas(response), m)) = Content(response)
          BY <1>2, ChunkEnds DEF m
        <5> QED BY <1>1, <3>3, <5>1, <5>2, Zenon DEF upto
      <4> QED BY <1>1, <1>2, <4>1, <4>2 DEF ConnectionInv, ResponseExact
    <3>5. CASE Len(d) # 0
      <4>1. recv' = "size"
        BY <1>1, <2>5, <3>1, <3>5, Zenon
      <4>2. k + 1 \in 1 .. m /\ (k + 1) - 1 = k
        BY <2>3, <3>5
      <4>3. SizeInv'
        <5>1. k + 1 \in 1 .. Len(response'.chunks)
          BY <1>1, <4>2, Zenon DEF m
        <5>2. data' \in Seq(Tokens) /\ arriving' \in Seq(Tokens) /\ Join(data', arriving') = flat
          <6>1. Join(<<>>, flat) = flat
            BY <2>4, JoinEmpty
          <6>2. data' = <<>>
            BY <1>1, <2>1
          <6> QED BY <2>4, <3>2, <6>1, <6>2, EmptySeq
        <5>3. /\ Join(data', arriving') = FlattenSeq(Behind(Coded(response'), (k + 1) - 1))
              /\ body' = FlattenSeq(Upto(Datas(response'), (k + 1) - 1))
          BY <1>1, <3>3, <4>2, <5>2, Zenon DEF flat, upto
        <5> QED BY <5>1, <5>2, <5>3, Zenon DEF SizeInv, Coded, Datas
      <4> QED BY <1>1, <1>2, <1>3, <4>1, <4>3 DEF ConnectionInv, ResponseExact
    <3> QED BY <3>4, <3>5
  <2> QED BY <2>6, <2>11, <2>12
<1> QED BY <1>2, <1>4, <1>5

\* A chunk-size line, in the buffer or read.
LEMMA SizeSteps ==
    ASSUME ConnectionInv, SizeInBuffer \/ \E n \in 1 .. Len(arriving) : ReadChunkSize(n)
    PROVE  ConnectionInv'
<1>1. recv = "size"
  BY Zenon DEF SizeInBuffer, ReadChunkSize
<1>2. \E tokens : ParseSize(tokens)
  BY Zenon DEF SizeInBuffer, ReadChunkSize
<1>3. CASE "size" \in cut
  BY <1>1, <1>2, <1>3, SizeAfterCut, Zenon
<1>4. CASE "size" \notin cut
  <2>1. SizeInv
    BY <1>1, <1>4 DEF ConnectionInv
  <2>2. data \in Seq(Tokens) /\ arriving \in Seq(Tokens)
    BY <2>1 DEF SizeInv
  <2>3. CASE SizeInBuffer
    <3>1. ParseSize(data) /\ arriving' = arriving
      BY <2>3, Zenon DEF SizeInBuffer
    <3>2. Join(data, arriving') = Join(data, arriving) /\ arriving' \in Seq(Tokens)
      BY <2>2, <3>1
    <3> QED BY <1>1, <1>4, <2>2, <3>1, <3>2, SizeStep
  <2>4. ASSUME NEW n \in 1 .. Len(arriving), ReadChunkSize(n) PROVE ConnectionInv'
    <3>1. ParseSize(Upto(arriving, n)) /\ arriving' = Behind(arriving, n) /\ data = <<>>
      BY <2>4, Zenon DEF ReadChunkSize, Reads, Upto, Behind
    <3>2. n \in Nat /\ n <= Len(arriving)
      BY <2>2, LenProperties
    <3>3. /\ Upto(arriving, n) \in Seq(Tokens) /\ Behind(arriving, n) \in Seq(Tokens)
          /\ Join(Upto(arriving, n), Behind(arriving, n)) = arriving
      BY <2>2, <3>2, CutAt
    <3>4. Join(<<>>, arriving) = arriving
      BY <2>2, JoinEmpty
    <3>5. Join(Upto(arriving, n), arriving') = Join(data, arriving) /\ arriving' \in Seq(Tokens)
      BY <3>1, <3>3, <3>4, Zenon
    <3> QED BY <1>1, <1>4, <3>1, <3>3, <3>5, SizeStep
  <2> QED BY <2>3, <2>4
<1> QED BY <1>3, <1>4

\* Every step keeps the invariant.
LEMMA NextConnectionInv == ConnectionInv /\ [ConnectionNext]_connectionVars => ConnectionInv'
<1> SUFFICES ASSUME ConnectionInv, [ConnectionNext]_connectionVars PROVE ConnectionInv'
  OBVIOUS
<1>1. CASE PeerCloses
  <2>1. recv' = "null" /\ response' = response /\ "peer" \in cut'
    BY <1>1 DEF PeerCloses, Fails
  <2>2. response \in Responses
    BY DEF ConnectionInv
  <2> QED BY <2>1, <2>2 DEF ConnectionInv, ResponseExact
<1>2. CASE SizeInBuffer
  BY <1>2, SizeSteps
<1>3. ASSUME NEW n \in 1 .. Len(arriving),
             ReadHeader(n) \/ ReadContent(n) \/ ReadChunkSize(n) \/ ReadData(n)
      PROVE  ConnectionInv'
  <2>1. CASE ReadChunkSize(n)
    BY <2>1, SizeSteps
  <2> QED BY <1>3, <2>1, HeaderStep, ContentStep, DataStep
<1>4. CASE UNCHANGED connectionVars
  BY <1>4 DEF connectionVars, ConnectionInv, HeaderInv, ContentInv, SizeInv, DataInv, ResponseExact,
              IsChunked, Content, Rest, Coded, Datas, DataOf
<1> QED BY <1>1, <1>2, <1>3, <1>4 DEF ConnectionNext

\* However a response is cut into reads, recvResponse() returns it with the body that
\* the server has sent as long as no read ends inside a line that it cannot resume.
THEOREM ResponseExactHolds == ConnectionSpec => []ResponseExact
<1>1. ConnectionInv => ResponseExact
  BY DEF ConnectionInv
<1> QED BY <1>1, InitConnectionInv, NextConnectionInv, PTL DEF ConnectionSpec
-----------------------------------------------------------------------------
(* LogFormatter: init().                                                   *)

\* The elements behind the a-th, up to the b-th.
Between(s, a, b) == SubSeq(s, a + 1, b)

LEMMA BetweenFacts ==
    ASSUME NEW D, NEW s \in Seq(D), NEW a \in Nat, NEW b \in Nat, a <= b, b <= Len(s)
    PROVE  /\ Between(s, a, b) \in Seq(D) /\ Len(Between(s, a, b)) = b - a
           /\ \A i \in 1 .. b - a : Between(s, a, b)[i] = s[a + i]
<1>1. /\ SubSeq(s, a + 1, b) \in Seq(D) /\ Len(SubSeq(s, a + 1, b)) = b - a
      /\ \A i \in 1 .. b - a : SubSeq(s, a + 1, b)[i] = s[a + i]
  BY PartOfSeq
<1> QED BY <1>1, Zenon DEF Between

\* Two parts that meet.
LEMMA BetweenJoin ==
    ASSUME NEW D, NEW s \in Seq(D), NEW a \in Nat, NEW b \in Nat, NEW c \in Nat,
           a <= b, b <= c, c <= Len(s)
    PROVE  Join(Between(s, a, b), Between(s, b, c)) = Between(s, a, c)
<1>1. a + 1 \in 1 .. Len(s) + 1 /\ b \in (a + 1) - 1 .. Len(s) /\ c \in b .. Len(s)
  BY LenProperties
<1>2. \A x \in 1 .. Len(s) + 1 : \A y \in x - 1 .. Len(s) : \A z \in y .. Len(s) :
         SubSeq(s, x, y) \o SubSeq(s, y + 1, z) = SubSeq(s, x, z)
  BY ConcatAdjacentSubSeq
<1> QED BY <1>1, <1>2, Zenon DEF Join, Between

\* A part of one element.
LEMMA BetweenOne ==
    ASSUME NEW D, NEW s \in Seq(D), NEW i \in 1 .. Len(s)
    PROVE  Between(s, i - 1, i) = <<s[i]>> /\ s[i] \in D
<1>1. i - 1 \in Nat /\ i \in Nat /\ i - 1 <= i /\ i <= Len(s) /\ i - (i - 1) = 1 /\ (i - 1) + 1 = i
  BY LenProperties
<1> DEFINE t == Between(s, i - 1, i)
<1>2. t \in Seq(D) /\ Len(t) = 1 /\ t[1] = s[i]
  <2>1. /\ t \in Seq(D) /\ Len(t) = i - (i - 1)
        /\ \A k \in 1 .. i - (i - 1) : t[k] = s[(i - 1) + k]
    BY <1>1, BetweenFacts
  <2> HIDE DEF t
  <2>2. 1 \in 1 .. i - (i - 1)
    BY <1>1
  <2> QED BY <1>1, <2>1, <2>2
<1> HIDE DEF t
<1>3. s[i] \in D
  BY LenProperties
<1>4. t = <<s[i]>>
  BY <1>2, <1>3
<1> QED BY <1>3, <1>4 DEF t

\* A part of the pattern.
LEMMA PartFacts ==
    ASSUME m_pattern \in Seq(Chars), NEW a \in Nat, NEW b \in Nat, a <= b, b <= Len(m_pattern)
    PROVE  /\ Between(m_pattern, a, b) \in Seq(Chars) /\ Len(Between(m_pattern, a, b)) = b - a
           /\ \A i \in 1 .. b - a : Between(m_pattern, a, b)[i] = m_pattern[a + i]
BY BetweenFacts

Entries == [kind : {"text", "item", "error"}, str : Seq(Chars), fmt : Seq(Chars)]

\* What a character of a text is written as.
Twice(c) == IF c = "%" THEN <<"%", "%">> ELSE <<c>>

\* What the items stand for, one after the other.
Written(items) == FlattenSeq([k \in DOMAIN items |-> Source(items[k])])

\* No item is a text with a "%".
Plain(items) == \A k \in DOMAIN items : items[k].kind = "text" => ~ Contains(items[k].str, "%")

LEMMA TwiceFacts ==
    ASSUME NEW c \in Chars
    PROVE  Twice(c) \in Seq(Chars) /\ Len(Twice(c)) = IF c = "%" THEN 2 ELSE 1
<1>1. "%" \in Chars
  BY DEF Chars
<1> QED BY <1>1 DEF Twice

\* A text.
LEMMA TextSource ==
    ASSUME NEW s \in Seq(Chars)
    PROVE  /\ TextItem(s) \in Entries /\ Source(TextItem(s)) \in Seq(Chars)
           /\ Source(TextItem(s)) = FlattenSeq([k \in DOMAIN s |-> Twice(s[k])])
           /\ [k \in DOMAIN s |-> Twice(s[k])] \in Seq(Seq(Chars))
<1>1. TextItem(s) \in Entries /\ TextItem(s).kind = "text" /\ TextItem(s).str = s
  <2>1. <<>> \in Seq(Chars)
    BY EmptySeq
  <2> QED BY <2>1 DEF TextItem, Entries, NoFmt
<1> DEFINE t == [k \in DOMAIN s |-> Twice(s[k])]
<1>2. Source(TextItem(s)) = FlattenSeq(t)
  BY <1>1, Zenon DEF Source, Twice
<1>3. t \in Seq(Seq(Chars))
  <2>1. DOMAIN s = 1 .. Len(s) /\ Len(s) \in Nat /\ \A k \in DOMAIN s : s[k] \in Chars
    BY LenProperties
  <2>2. \A k \in DOMAIN s : Twice(s[k]) \in Seq(Chars)
    BY <2>1, TwiceFacts
  <2>3. t \in [1 .. Len(s) -> Seq(Chars)]
    BY <2>1, <2>2
  <2> HIDE DEF t
  <2> QED BY <2>1, <2>3, SeqFromFunction
<1> HIDE DEF t
<1>4. FlattenSeq(t) \in Seq(Chars)
  <2>1. <<>> \in Seq(Chars)
    BY EmptySeq
  <2> QED BY <1>3, <2>1, FlattenJoin
<1> QED BY <1>1, <1>2, <1>3, <1>4 DEF t

\* A text with a character more.
LEMMA TextLonger ==
    ASSUME NEW s \in Seq(Chars), NEW c \in Chars
    PROVE  /\ Append(s, c) \in Seq(Chars)
           /\ Source(TextItem(Append(s, c))) = Join(Source(TextItem(s)), Twice(c))
           /\ Contains(Append(s, c), "%") <=> Contains(s, "%") \/ c = "%"
<1> DEFINE u == Append(s, c)
<1>1. /\ u \in Seq(Chars) /\ Len(u) = Len(s) + 1 /\ u[Len(s) + 1] = c
      /\ \A k \in 1 .. Len(s) : u[k] = s[k]
  BY AppendProperties
<1>2. /\ DOMAIN s = 1 .. Len(s) /\ Len(s) \in Nat /\ \A k \in DOMAIN s : s[k] \in Chars
      /\ DOMAIN u = 1 .. Len(s) + 1 /\ \A k \in DOMAIN u : u[k] \in Chars
  <2>1. DOMAIN s = 1 .. Len(s) /\ Len(s) \in Nat /\ \A k \in DOMAIN s : s[k] \in Chars
    BY LenProperties
  <2>2. DOMAIN u = 1 .. Len(u) /\ Len(u) \in Nat /\ \A k \in DOMAIN u : u[k] \in Chars
    <3> HIDE DEF u
    <3> QED BY <1>1, LenProperties
  <2> QED BY <1>1, <2>1, <2>2
<1> HIDE DEF u
<1> DEFINE t == [k \in DOMAIN s |-> Twice(s[k])]
           v == [k \in DOMAIN u |-> Twice(u[k])]
<1>3. t \in Seq(Seq(Chars)) /\ Twice(c) \in Seq(Chars) /\ v \in Seq(Seq(Chars))
  BY <1>1, TextSource, TwiceFacts
<1>4. Len(t) = Len(s) /\ Len(v) = Len(s) + 1
  <2>1. DOMAIN t = 1 .. Len(s) /\ DOMAIN v = 1 .. Len(s) + 1
    BY <1>2
  <2>2. DOMAIN t = 1 .. Len(t) /\ DOMAIN v = 1 .. Len(v) /\ Len(t) \in Nat /\ Len(v) \in Nat
    <3> HIDE DEF t, v
    <3> QED BY <1>3, LenProperties
  <2> HIDE DEF t, v
  <2> QED BY <1>2, <2>1, <2>2
<1>5. /\ \A k \in 1 .. Len(s) : t[k] = Twice(s[k]) /\ v[k] = Twice(s[k])
      /\ v[Len(s) + 1] = Twice(c)
  BY <1>1, <1>2
<1> HIDE DEF t, v
<1> DEFINE w == Append(t, Twice(c))
<1>6. /\ w \in Seq(Seq(Chars)) /\ Len(w) = Len(t) + 1 /\ w[Len(t) + 1] = Twice(c)
      /\ \A k \in 1 .. Len(t) : w[k] = t[k]
  BY <1>3, AppendProperties
<1> HIDE DEF w
<1>7. v = w
  <2>1. Len(v) = Len(w) /\ Len(s) \in Nat
    BY <1>2, <1>4, <1>6
  <2>2. ASSUME NEW k \in 1 .. Len(v) PROVE v[k] = w[k]
    <3>1. k \in 1 .. Len(s) \/ k = Len(s) + 1
      BY <1>4, <2>1
    <3> QED BY <1>4, <1>5, <1>6, <3>1
  <2> QED BY <1>3, <1>6, <2>1, <2>2, SeqEqual
<1>8. FlattenSeq(v) = Join(FlattenSeq(t), Twice(c))
  BY <1>3, <1>7, FlattenJoin DEF w
<1>9. Source(TextItem(s)) = FlattenSeq(t) /\ Source(TextItem(u)) = FlattenSeq(v)
  BY <1>1, TextSource DEF t, v
<1>10. Contains(u, "%") <=> Contains(s, "%") \/ c = "%"
  <2>1. ASSUME NEW k \in 1 .. Len(u), u[k] = "%" PROVE Contains(s, "%") \/ c = "%"
    <3>1. k \in 1 .. Len(s) \/ k = Len(s) + 1
      BY <1>1, <1>2
    <3> QED BY <1>1, <2>1, <3>1 DEF Contains
  <2>2. ASSUME NEW k \in 1 .. Len(s), s[k] = "%" PROVE Contains(u, "%")
    <3>1. k \in 1 .. Len(u)
      BY <1>1, <1>2
    <3> QED BY <1>1, <2>2, <3>1 DEF Contains
  <2>3. ASSUME c = "%" PROVE Contains(u, "%")
    <3>1. Len(s) + 1 \in 1 .. Len(u)
      BY <1>1, <1>2
    <3> QED BY <1>1, <2>3, <3>1 DEF Contains
  <2> QED BY <2>1, <2>2, <2>3 DEF Contains
<1> QED BY <1>1, <1>8, <1>9, <1>10 DEF u

\* A sequence of one.
LEMMA OneElement ==
    ASSUME NEW D, NEW x \in D
    PROVE  <<x>> \in Seq(D) /\ Len(<<x>>) = 1
OBVIOUS

\* Every item stands for characters.
LEMMA EntrySource ==
    ASSUME NEW x \in Entries
    PROVE  Source(x) \in Seq(Chars)
<1>1. x.kind \in {"text", "item", "error"} /\ x.str \in Seq(Chars) /\ x.fmt \in Seq(Chars)
  BY DEF Entries
<1>2. CASE x.kind = "text"
  <2> DEFINE t == [k \in DOMAIN x.str |-> Twice(x.str[k])]
  <2>1. Source(x) = FlattenSeq(t)
    BY <1>2, Zenon DEF Source, Twice
  <2>2. Source(TextItem(x.str)) = FlattenSeq(t) /\ Source(TextItem(x.str)) \in Seq(Chars)
    BY <1>1, TextSource
  <2> QED BY <2>1, <2>2
<1>3. CASE x.kind = "item"
  <2> DEFINE fmt == IF x.fmt = NoFmt THEN <<>> ELSE <<"{">> \o x.fmt \o <<"}">>
  <2>1. x.kind # "text" /\ x.kind # "error"
    BY <1>3
  <2>2. Source(x) = <<"%">> \o x.str \o fmt
    BY <1>3, <2>1, Zenon DEF Source
  <2>3. <<"%">> \in Seq(Chars) /\ <<"{">> \in Seq(Chars) /\ <<"}">> \in Seq(Chars) /\ <<>> \in Seq(Chars)
    <3>1. "%" \in Chars /\ "{" \in Chars /\ "}" \in Chars
      BY Zenon DEF Chars
    <3> QED BY <3>1, OneElement, EmptySeq
  <2>4. fmt \in Seq(Chars)
    <3>1. <<"{">> \o x.fmt \in Seq(Chars)
      BY <1>1, <2>3, ConcatProperties
    <3>2. <<"{">> \o x.fmt \o <<"}">> \in Seq(Chars)
      BY <2>3, <3>1, ConcatProperties
    <3> QED BY <2>3, <3>2
  <2> HIDE DEF fmt
  <2>5. <<"%">> \o x.str \in Seq(Chars)
    BY <1>1, <2>3, ConcatProperties
  <2>6. <<"%">> \o x.str \o fmt \in Seq(Chars)
    BY <2>4, <2>5, ConcatProperties
  <2> QED BY <2>2, <2>6
<1>4. CASE x.kind = "error"
  <2>1. x.kind # "text" /\ x.kind # "item"
    BY <1>4
  <2>2. Source(x) = <<>>
    BY <1>4, <2>1, Zenon DEF Source
  <2> QED BY <2>2, EmptySeq
<1> QED BY <1>1, <1>2, <1>3, <1>4

\* No item is an error.
Faultless(items) == \A k \in DOMAIN items : items[k] # PatternError

\* An item more.
LEMMA WrittenLonger ==
    ASSUME NEW items \in Seq(Entries), NEW x \in Entries
    PROVE  /\ Append(items, x) \in Seq(Entries)
           /\ Written(items) \in Seq(Chars)
           /\ Written(Append(items, x)) = Join(Written(items), Source(x))
           /\ Plain(Append(items, x))
                <=> Plain(items) /\ (x.kind = "text" => ~ Contains(x.str, "%"))
           /\ Faultless(Append(items, x)) <=> Faultless(items) /\ x # PatternError
<1> DEFINE u == Append(items, x)
<1>1. /\ u \in Seq(Entries) /\ Len(u) = Len(items) + 1 /\ u[Len(items) + 1] = x
      /\ \A k \in 1 .. Len(items) : u[k] = items[k]
  BY AppendProperties
<1>2. /\ DOMAIN items = 1 .. Len(items) /\ Len(items) \in Nat
      /\ DOMAIN u = 1 .. Len(items) + 1
      /\ \A k \in DOMAIN items : Source(items[k]) \in Seq(Chars)
      /\ \A k \in DOMAIN u : Source(u[k]) \in Seq(Chars)
  <2>1. DOMAIN items = 1 .. Len(items) /\ Len(items) \in Nat /\ \A k \in DOMAIN items : items[k] \in Entries
    BY LenProperties
  <2>2. DOMAIN u = 1 .. Len(u) /\ \A k \in DOMAIN u : u[k] \in Entries
    <3> HIDE DEF u
    <3> QED BY <1>1, LenProperties
  <2> HIDE DEF u
  <2> QED BY <1>1, <2>1, <2>2, EntrySource
<1> HIDE DEF u
<1> DEFINE t == [k \in DOMAIN items |-> Source(items[k])]
           v == [k \in DOMAIN u |-> Source(u[k])]
<1>3. t \in Seq(Seq(Chars)) /\ Len(t) = Len(items)
  <2>1. t \in [1 .. Len(items) -> Seq(Chars)]
    BY <1>2
  <2> HIDE DEF t
  <2> QED BY <1>2, <2>1, SeqFromFunction
<1>5. v \in Seq(Seq(Chars)) /\ Len(v) = Len(items) + 1
  <2>1. v \in [1 .. Len(items) + 1 -> Seq(Chars)]
    BY <1>2
  <2> HIDE DEF v
  <2> QED BY <1>2, <2>1, SeqFromFunction
<1>6. /\ \A k \in 1 .. Len(items) : t[k] = Source(items[k]) /\ v[k] = Source(items[k])
      /\ v[Len(items) + 1] = Source(x)
  BY <1>1, <1>2
<1>9. FlattenSeq(v) = Join(FlattenSeq(t), Source(x)) /\ FlattenSeq(t) \in Seq(Chars)
  <2> HIDE DEF t, v
  <2> DEFINE w == Append(t, Source(x))
  <2>0. Source(x) \in Seq(Chars)
    BY EntrySource
  <2>1. /\ w \in Seq(Seq(Chars)) /\ Len(w) = Len(t) + 1 /\ w[Len(t) + 1] = Source(x)
        /\ \A k \in 1 .. Len(t) : w[k] = t[k]
    BY <1>3, <2>0, AppendProperties
  <2>2. FlattenSeq(w) = Join(FlattenSeq(t), Source(x)) /\ FlattenSeq(t) \in Seq(Chars)
    BY <1>3, <2>0, FlattenJoin
  <2> HIDE DEF w
  <2>3. ASSUME NEW k \in 1 .. Len(v) PROVE v[k] = w[k]
    <3>1. k \in 1 .. Len(items) \/ k = Len(items) + 1
      BY <1>2, <1>5
    <3> QED BY <1>3, <1>6, <2>1, <3>1
  <2>4. Len(v) = Len(w)
    BY <1>3, <1>5, <2>1
  <2>5. v = w
    BY <1>5, <2>1, <2>3, <2>4, SeqEqual
  <2> QED BY <2>2, <2>5
<1>10. Written(items) = FlattenSeq(t) /\ Written(u) = FlattenSeq(v)
  BY Zenon DEF Written
<1> HIDE DEF t, v
<1>11. ASSUME NEW S
       PROVE  (\A k \in DOMAIN u : u[k] \in S) <=> (\A k \in DOMAIN items : items[k] \in S) /\ x \in S
  <2>1. \A k \in DOMAIN items : k \in DOMAIN u /\ u[k] = items[k]
    BY <1>1, <1>2
  <2>2. Len(items) + 1 \in DOMAIN u /\ u[Len(items) + 1] = x
    BY <1>1, <1>2
  <2>3. \A k \in DOMAIN u : k \in DOMAIN items \/ u[k] = x
    BY <1>1, <1>2
  <2> QED BY <2>1, <2>2, <2>3, Zenon
<1>12. \A k \in DOMAIN u : u[k] \in Entries
  BY <1>1, LenProperties
<1>13. \A k \in DOMAIN items : items[k] \in Entries
  BY LenProperties
<1>14. Plain(u) <=> Plain(items) /\ (x.kind = "text" => ~ Contains(x.str, "%"))
  <2> DEFINE S == {e \in Entries : e.kind = "text" => ~ Contains(e.str, "%")}
  <2>1. Plain(u) <=> \A k \in DOMAIN u : u[k] \in S
    BY <1>12, Zenon DEF Plain
  <2>2. Plain(items) <=> \A k \in DOMAIN items : items[k] \in S
    BY <1>13, Zenon DEF Plain
  <2>3. x \in S <=> (x.kind = "text" => ~ Contains(x.str, "%"))
    BY Zenon
  <2> HIDE DEF S
  <2> QED BY <1>11, <2>1, <2>2, <2>3
<1>15. Faultless(u) <=> Faultless(items) /\ x # PatternError
  <2> DEFINE S == {e \in Entries : e # PatternError}
  <2>1. Faultless(u) <=> \A k \in DOMAIN u : u[k] \in S
    BY <1>12, Zenon DEF Faultless
  <2>2. Faultless(items) <=> \A k \in DOMAIN items : items[k] \in S
    BY <1>13, Zenon DEF Faultless
  <2>3. x \in S <=> x # PatternError
    BY Zenon
  <2> HIDE DEF S
  <2> QED BY <1>11, <2>1, <2>2, <2>3
<1> QED BY <1>1, <1>9, <1>10, <1>14, <1>15 DEF u

\* No text, no characters.
LEMMA NoText == Source(TextItem(<<>>)) = <<>> /\ ~ Contains(<<>>, "%")
<1>0. <<>> \in Seq(Chars) /\ Len(<<>>) = 0
  BY EmptySeq
<1> DEFINE t == [k \in DOMAIN <<>> |-> Twice(<<>>[k])]
<1>1. Source(TextItem(<<>>)) = FlattenSeq(t) /\ t \in Seq(Seq(Chars))
  BY <1>0, TextSource
<1>2. t = <<>>
  BY <1>0
<1>3. Source(TextItem(<<>>)) = <<>>
  BY <1>1, <1>2, FlattenNone
<1>4. ~ Contains(<<>>, "%")
  BY <1>0 DEF Contains
<1> QED BY <1>3, <1>4

\* The items with the text so far.
LEMMA FlushFacts ==
    ASSUME NEW out \in Seq(Entries), NEW s \in Seq(Chars)
    PROVE  /\ Flush(out, s) \in Seq(Entries)
           /\ Written(out) \in Seq(Chars) /\ Source(TextItem(s)) \in Seq(Chars)
           /\ Written(Flush(out, s)) = Join(Written(out), Source(TextItem(s)))
           /\ Plain(Flush(out, s)) <=> Plain(out) /\ ~ Contains(s, "%")
           /\ Faultless(Flush(out, s)) <=> Faultless(out)
<1>0. /\ TextItem(s) \in Entries /\ Source(TextItem(s)) \in Seq(Chars)
      /\ TextItem(s).kind = "text" /\ TextItem(s).str = s
  BY TextSource DEF TextItem
<1>1. Written(out) \in Seq(Chars)
  BY <1>0, WrittenLonger
<1>2. TextItem(s) # PatternError
  <2>1. PatternError.kind = "error" /\ "error" # "text"
    BY DEF PatternError
  <2> QED BY <1>0, <2>1
<1>3. CASE s = <<>>
  <2>1. Flush(out, s) = out
    BY <1>3, Zenon DEF Flush
  <2>2. Source(TextItem(s)) = <<>> /\ ~ Contains(s, "%")
    BY <1>3, NoText, Zenon
  <2>3. Join(Written(out), <<>>) = Written(out)
    BY <1>1, JoinEmpty
  <2> QED BY <1>0, <1>1, <2>1, <2>2, <2>3
<1>4. CASE s # <<>>
  <2>1. Flush(out, s) = Append(out, TextItem(s))
    BY <1>4, Zenon DEF Flush
  <2> QED BY <1>0, <1>1, <1>2, <2>1, WrittenLonger
<1> QED BY <1>3, <1>4

\* Where a search from i ends.
LEMMA FirstFromFacts ==
    ASSUME m_pattern \in Seq(Chars), NEW i \in Nat, i <= Len(m_pattern) + 1, NEW C
    PROVE  LET f == Min({j \in i .. Len(m_pattern) : m_pattern[j] \in C} \cup {Len(m_pattern) + 1})
           IN  f \in i .. Len(m_pattern) + 1 /\ (f <= Len(m_pattern) => m_pattern[f] \in C)
<1> DEFINE S == {j \in i .. Len(m_pattern) : m_pattern[j] \in C} \cup {Len(m_pattern) + 1}
<1>1. Len(m_pattern) \in Nat
  BY LenProperties
<1>2. S \in SUBSET Nat /\ S # {}
  BY <1>1
<1>3. \A j \in S : j \in i .. Len(m_pattern) + 1 /\ (j <= Len(m_pattern) => m_pattern[j] \in C)
  BY <1>1
<1>4. Min(S) \in S
  <2> HIDE DEF S
  <2> QED BY <1>2, LowestFree
<1> HIDE DEF S
<1>5. Min(S) \in i .. Len(m_pattern) + 1 /\ (Min(S) <= Len(m_pattern) => m_pattern[Min(S)] \in C)
  BY <1>3, <1>4
<1> QED BY <1>5, Zenon DEF S

\* The name of an item and its format.
LEMMA ItemEnds ==
    ASSUME m_pattern \in Seq(Chars), NEW i \in 1 .. Len(m_pattern)
    PROVE  /\ NameEnd(i) \in i + 1 .. Len(m_pattern) + 1
           /\ NameEnd(i) <= Len(m_pattern) =>
                /\ FmtEnd(i) \in NameEnd(i) + 1 .. Len(m_pattern) + 1
                /\ FmtEnd(i) <= Len(m_pattern) => IsAt(FmtEnd(i), "}")
<1>1. Len(m_pattern) \in Nat /\ \A j \in 1 .. Len(m_pattern) : m_pattern[j] \in Chars
  BY LenProperties
<1> DEFINE C == {c \in Chars : c \notin Letters \cup {"}"}}
           D == {c \in Chars : c = "}"}
<1>2. i + 1 \in Nat /\ i + 1 <= Len(m_pattern) + 1
  BY <1>1
<1>3. NameEnd(i) = Min({j \in i + 1 .. Len(m_pattern) : m_pattern[j] \in C} \cup {Len(m_pattern) + 1})
  <2>1. NameEnd(i) = Min({j \in i + 1 .. Len(m_pattern) : m_pattern[j] \notin Letters \cup {"}"}}
                            \cup {Len(m_pattern) + 1})
    BY Zenon DEF NameEnd, FirstFrom
  <2>2. {j \in i + 1 .. Len(m_pattern) : m_pattern[j] \notin Letters \cup {"}"}}
          = {j \in i + 1 .. Len(m_pattern) : m_pattern[j] \in C}
    <3>1. \A j \in i + 1 .. Len(m_pattern) : m_pattern[j] \in Chars
      <4>1. \A j \in i + 1 .. Len(m_pattern) : j \in 1 .. Len(m_pattern)
        BY <1>1
      <4> QED BY <1>1, <4>1, Zenon
    <3> QED BY <3>1, Zenon
  <2> QED BY <2>1, <2>2, Zenon
<1>4. NameEnd(i) \in i + 1 .. Len(m_pattern) + 1
  <2> HIDE DEF C
  <2> QED BY <1>2, <1>3, FirstFromFacts
<1>5. ASSUME NameEnd(i) <= Len(m_pattern)
      PROVE  /\ FmtEnd(i) \in NameEnd(i) + 1 .. Len(m_pattern) + 1
             /\ FmtEnd(i) <= Len(m_pattern) => IsAt(FmtEnd(i), "}")
  <2>1. PICK n \in Nat : n = NameEnd(i) + 1
    BY <1>1, <1>4
  <2>2. FmtEnd(i) = Min({j \in n .. Len(m_pattern) : m_pattern[j] \in D} \cup {Len(m_pattern) + 1})
    <3>1. FmtEnd(i) = Min({j \in n .. Len(m_pattern) : m_pattern[j] = "}"}
                              \cup {Len(m_pattern) + 1})
      BY <2>1, Zenon DEF FmtEnd, FirstFrom
    <3>2. {j \in n .. Len(m_pattern) : m_pattern[j] = "}"}
            = {j \in n .. Len(m_pattern) : m_pattern[j] \in D}
      <4>1. \A j \in n .. Len(m_pattern) : j \in 1 .. Len(m_pattern)
        BY <1>1, <1>4, <2>1
      <4> QED BY <1>1, <4>1
    <3> QED BY <3>1, <3>2, Zenon
  <2>3. n <= Len(m_pattern) + 1
    BY <1>1, <1>4, <1>5, <2>1
  <2>4. FmtEnd(i) \in n .. Len(m_pattern) + 1
          /\ (FmtEnd(i) <= Len(m_pattern) => m_pattern[FmtEnd(i)] \in D)
    <3> HIDE DEF D
    <3> QED BY <2>2, <2>3, FirstFromFacts
  <2>5. FmtEnd(i) <= Len(m_pattern) => IsAt(FmtEnd(i), "}")
    BY <2>4, Zenon DEF IsAt
  <2> QED BY <2>1, <2>4, <2>5, Zenon
<1> QED BY <1>4, <1>5

\* An item stands for the characters from its "%" to where the next turn is.
LEMMA ItemFacts ==
    ASSUME m_pattern \in Seq(Chars), ~ EmptyFmt,
           NEW i \in 1 .. Len(m_pattern), IsAt(i, "%"), ~ Unclosed(i)
    PROVE  /\ ItemAt(i) \in Entries /\ ItemAt(i).kind = "item"
           /\ ItemNext(i) \in i + 1 .. Len(m_pattern) + 1
           /\ Source(ItemAt(i)) = Between(m_pattern, i - 1, ItemNext(i) - 1)
<1>0. /\ Len(m_pattern) \in Nat /\ i \in Nat /\ i - 1 \in Nat /\ i - 1 <= i
      /\ DOMAIN m_pattern = 1 .. Len(m_pattern)
  BY LenProperties
<1>1. PICK n \in Nat : n = NameEnd(i) /\ n \in i + 1 .. Len(m_pattern) + 1
  <2>1. NameEnd(i) \in i + 1 .. Len(m_pattern) + 1
    BY ItemEnds
  <2> QED BY <1>0, <2>1
<1>2. n - 1 \in Nat /\ i <= n - 1 /\ n - 1 <= Len(m_pattern) /\ n - 1 <= n
  BY <1>0, <1>1
<1>3. Between(m_pattern, i - 1, i) = <<"%">>
  <2>1. m_pattern[i] = "%"
    BY Zenon DEF IsAt
  <2>2. Between(m_pattern, i - 1, i) = <<m_pattern[i]>>
    BY BetweenOne
  <2> QED BY <2>1, <2>2, Zenon
<1> DEFINE name == Between(m_pattern, i, n - 1)
<1>4. name \in Seq(Chars)
  BY <1>0, <1>2, BetweenFacts
<1>5. <<"%">> \o name = Between(m_pattern, i - 1, n - 1)
  <2>1. Join(Between(m_pattern, i - 1, i), Between(m_pattern, i, n - 1))
          = Between(m_pattern, i - 1, n - 1)
    BY <1>0, <1>2, BetweenJoin
  <2> QED BY <1>3, <2>1, Zenon DEF Join
<1>6. SubSeq(m_pattern, i + 1, NameEnd(i) - 1) = name
  BY <1>1, Zenon DEF Between
<1> HIDE DEF name
<1>7. CASE ~ IsAt(n, "{")
  <2>1. ItemAt(i) = [kind |-> "item", str |-> name, fmt |-> NoFmt] /\ ItemNext(i) = n
    BY <1>1, <1>6, <1>7, Zenon DEF ItemAt, ItemNext
  <2>2. ItemAt(i).kind = "item" /\ ItemAt(i).str = name /\ ItemAt(i).fmt = NoFmt
    BY <2>1
  <2>3. ItemAt(i) \in Entries
    <3>1. NoFmt \in Seq(Chars)
      BY EmptySeq DEF NoFmt
    <3> QED BY <1>4, <2>1, <3>1 DEF Entries
  <2>4. Source(ItemAt(i)) = <<"%">> \o name \o <<>>
    <3>1. "item" # "text"
      OBVIOUS
    <3> QED BY <2>2, <3>1, Zenon DEF Source
  <2>5. Between(m_pattern, i - 1, n - 1) \in Seq(Chars)
    <3>1. i - 1 <= n - 1
      BY <1>0, <1>2
    <3> QED BY <1>0, <1>2, <3>1, BetweenFacts
  <2>6. Source(ItemAt(i)) = Between(m_pattern, i - 1, n - 1)
    <3> DEFINE b == Between(m_pattern, i - 1, n - 1)
    <3>1. Join(b, <<>>) = b
      BY <2>5, JoinEmpty
    <3> QED BY <1>5, <2>4, <3>1, Zenon DEF Join
  <2> QED BY <1>1, <2>1, <2>2, <2>3, <2>6
<1>8. CASE IsAt(n, "{")
  <2>1. n \in 1 .. Len(m_pattern)
    <3>1. n <= Len(m_pattern)
      BY <1>8, Zenon DEF IsAt
    <3> QED BY <1>0, <1>1, <3>1
  <2>a. FmtEnd(i) \in n + 1 .. Len(m_pattern) + 1
          /\ (FmtEnd(i) <= Len(m_pattern) => IsAt(FmtEnd(i), "}"))
    <3>1. n <= Len(m_pattern)
      BY <1>0, <2>1
    <3> QED BY <1>1, <3>1, ItemEnds
  <2>b. FmtEnd(i) \in n + 1 .. Len(m_pattern) + 1 /\ ~ (FmtEnd(i) > Len(m_pattern))
    BY <1>1, <1>8, <2>a, Zenon DEF Unclosed
  <2>2. PICK f \in Nat : f = FmtEnd(i) /\ f \in n + 1 .. Len(m_pattern)
    BY <1>0, <2>b
  <2>c. IsAt(f, "}")
    <3>1. f <= Len(m_pattern)
      BY <1>0, <2>2
    <3> QED BY <2>2, <2>a, <3>1, Zenon
  <2>3. f # n + 1
    <3>1. SUFFICES ASSUME f = n + 1 PROVE FALSE
      OBVIOUS
    <3>2. IsAt(n + 1, "}") /\ n \in DOMAIN m_pattern /\ m_pattern[n] = "{"
      BY <1>0, <1>8, <2>1, <2>c, <3>1, Zenon DEF IsAt
    <3> QED BY <3>2, Zenon DEF EmptyFmt
  <2>4. n <= f - 1 /\ f - 1 \in Nat /\ f - 1 <= f /\ f <= Len(m_pattern) /\ f - 1 <= Len(m_pattern)
          /\ f \in 1 .. Len(m_pattern)
    BY <1>0, <2>1, <2>2
  <2> DEFINE fmt == Between(m_pattern, n, f - 1)
  <2>5. fmt \in Seq(Chars) /\ fmt # <<>>
    <3>1. fmt \in Seq(Chars) /\ Len(fmt) = (f - 1) - n
      BY <2>4, PartFacts, Zenon
    <3>2. Len(fmt) # 0
      BY <1>0, <2>2, <2>3, <3>1
    <3> HIDE DEF fmt
    <3> QED BY <3>1, <3>2, EmptySeq
  <2>6. SubSeq(m_pattern, NameEnd(i) + 1, FmtEnd(i) - 1) = fmt
    BY <1>1, <2>2, Zenon DEF Between
  <2>7. <<"{">> \o fmt \o <<"}">> = Between(m_pattern, n - 1, f)
    <3>0. m_pattern[n] = "{" /\ m_pattern[f] = "}"
      BY <1>8, <2>c, Zenon DEF IsAt
    <3>a. Between(m_pattern, n - 1, n) = <<m_pattern[n]>>
            /\ Between(m_pattern, f - 1, f) = <<m_pattern[f]>>
      BY <2>1, <2>4, BetweenOne
    <3>1. Between(m_pattern, n - 1, n) = <<"{">> /\ Between(m_pattern, f - 1, f) = <<"}">>
      BY <3>0, <3>a, Zenon
    <3>2. Join(Between(m_pattern, n - 1, n), Between(m_pattern, n, f - 1))
            = Between(m_pattern, n - 1, f - 1)
      BY <1>2, <2>4, BetweenJoin
    <3>3. n - 1 <= f - 1
      BY <1>0, <2>2
    <3>4. Join(Between(m_pattern, n - 1, f - 1), Between(m_pattern, f - 1, f))
            = Between(m_pattern, n - 1, f)
      BY <1>2, <2>4, <3>3, BetweenJoin
    <3> QED BY <3>1, <3>2, <3>4, Zenon DEF Join
  <2> HIDE DEF fmt
  <2>8. ItemAt(i) = [kind |-> "item", str |-> name, fmt |-> fmt] /\ ItemNext(i) = f + 1
    BY <1>1, <1>6, <1>8, <2>2, <2>6, Zenon DEF ItemAt, ItemNext
  <2>9. ItemAt(i).kind = "item" /\ ItemAt(i).str = name /\ ItemAt(i).fmt = fmt
    BY <2>8
  <2>10. ItemAt(i) \in Entries
    BY <1>4, <2>5, <2>8 DEF Entries
  <2>11. Source(ItemAt(i)) = <<"%">> \o name \o (<<"{">> \o fmt \o <<"}">>)
    <3>1. "item" # "text"
      OBVIOUS
    <3> QED BY <2>5, <2>9, <3>1, Zenon DEF Source, NoFmt
  <2>12. Join(Between(m_pattern, i - 1, n - 1), Between(m_pattern, n - 1, f))
           = Between(m_pattern, i - 1, f)
    <3>1. i - 1 <= n - 1 /\ n - 1 <= f
      BY <1>0, <1>1, <1>2, <2>2
    <3> QED BY <1>0, <1>2, <2>4, <3>1, BetweenJoin
  <2>13. Source(ItemAt(i)) = Between(m_pattern, i - 1, f)
    BY <1>5, <2>7, <2>11, <2>12, Zenon DEF Join
  <2>14. (f + 1) - 1 = f /\ f + 1 \in i + 1 .. Len(m_pattern) + 1
    BY <1>0, <1>1, <2>2
  <2> QED BY <2>8, <2>9, <2>10, <2>13, <2>14
<1> QED BY <1>7, <1>8

\* What has been told of the pattern when the loop is at i.
Told(items, i) ==
    Faultless(items) =>
        IF Plain(items) THEN Written(items) = Between(m_pattern, 0, i - 1)
                        ELSE Len(Written(items)) >= i

\* A character becomes text.
LEMMA TextTold ==
    ASSUME m_pattern \in Seq(Chars), NEW i \in 1 .. Len(m_pattern),
           NEW out \in Seq(Entries), NEW s \in Seq(Chars), NEW c \in Chars,
           Told(Flush(out, s), i), c # "%" => m_pattern[i] = c
    PROVE  Told(Flush(out, Append(s, c)), i + 1)
<1>0. /\ Len(m_pattern) \in Nat /\ i \in Nat /\ i - 1 \in Nat /\ 0 <= i - 1 /\ i - 1 <= i
      /\ i <= Len(m_pattern) /\ i - 1 <= Len(m_pattern) /\ (i + 1) - 1 = i /\ (i - 1) - 0 = i - 1
  BY LenProperties
<1> DEFINE a == Flush(out, s)
           b == Flush(out, Append(s, c))
<1>1. /\ a \in Seq(Entries) /\ Written(out) \in Seq(Chars) /\ Source(TextItem(s)) \in Seq(Chars)
      /\ Written(a) = Join(Written(out), Source(TextItem(s)))
      /\ Plain(a) <=> Plain(out) /\ ~ Contains(s, "%")
      /\ Faultless(a) <=> Faultless(out)
  BY FlushFacts
<1>2. /\ Append(s, c) \in Seq(Chars)
      /\ Source(TextItem(Append(s, c))) = Join(Source(TextItem(s)), Twice(c))
      /\ Contains(Append(s, c), "%") <=> Contains(s, "%") \/ c = "%"
      /\ Twice(c) \in Seq(Chars) /\ Len(Twice(c)) = IF c = "%" THEN 2 ELSE 1
  BY TextLonger, TwiceFacts
<1>3. /\ Written(b) = Join(Written(out), Source(TextItem(Append(s, c))))
      /\ Plain(b) <=> Plain(out) /\ ~ Contains(Append(s, c), "%")
      /\ Faultless(b) <=> Faultless(out)
  BY <1>2, FlushFacts
<1>4. Join(Join(Written(out), Source(TextItem(s))), Twice(c))
        = Join(Written(out), Join(Source(TextItem(s)), Twice(c)))
  BY <1>1, <1>2, JoinThree
<1>5. Written(b) = Join(Written(a), Twice(c))
  BY <1>1, <1>2, <1>3, <1>4, Zenon
<1>6. Plain(b) <=> Plain(a) /\ c # "%"
  BY <1>1, <1>2, <1>3, Zenon
<1>7. Faultless(b) <=> Faultless(a)
  BY <1>1, <1>3
<1>8. Written(a) \in Seq(Chars) /\ Len(Written(a)) \in Nat
      /\ Len(Written(b)) = Len(Written(a)) + Len(Twice(c))
  <2>1. Written(a) \in Seq(Chars)
    BY <1>1, WrittenLonger, TextSource
  <2>2. Len(Written(a)) \in Nat
    <3> HIDE DEF a
    <3> QED BY <2>1, LenProperties
  <2>3. Len(Join(Written(a), Twice(c))) = Len(Written(a)) + Len(Twice(c))
    <3> HIDE DEF a
    <3> QED BY <1>2, <2>1, JoinFacts
  <2> QED BY <1>5, <2>1, <2>2, <2>3, Zenon
<1> HIDE DEF a, b
<1>9. CASE ~ Faultless(a)
  BY <1>7, <1>9, Zenon DEF Told, b
<1>10. CASE Faultless(a) /\ Plain(a) /\ c # "%"
  <2>1. Written(a) = Between(m_pattern, 0, i - 1)
    BY <1>10, Zenon DEF Told, a
  <2>2. Twice(c) = <<m_pattern[i]>>
    BY <1>10, Zenon DEF Twice
  <2>3. Between(m_pattern, i - 1, i) = <<m_pattern[i]>>
    BY BetweenOne
  <2>4. Join(Between(m_pattern, 0, i - 1), Between(m_pattern, i - 1, i)) = Between(m_pattern, 0, i)
    BY <1>0, BetweenJoin
  <2>5. Written(b) = Between(m_pattern, 0, i)
    BY <1>5, <2>1, <2>2, <2>3, <2>4, Zenon
  <2>6. Told(b, i + 1)
    BY <1>0, <1>6, <1>10, <2>5, Zenon DEF Told
  <2> QED BY <2>6 DEF b
<1>11. CASE Faultless(a) /\ ~ (Plain(a) /\ c # "%")
  <2>1. Len(Written(b)) >= i + 1
    <3>1. CASE Plain(a)
      <4>1. Written(a) = Between(m_pattern, 0, i - 1)
        BY <1>11, <3>1, Zenon DEF Told, a
      <4>2. PICK k \in Nat : k = i - 1 /\ 0 <= k /\ k <= Len(m_pattern) /\ k - 0 = k
                                /\ 0 \in Nat
        BY <1>0
      <4>a. Len(Between(m_pattern, 0, k)) = k - 0
        BY <4>2, PartFacts, Zenon
      <4>3. Len(Written(a)) = i - 1
        BY <4>1, <4>2, <4>a, Zenon
      <4>4. Len(Twice(c)) = 2
        BY <1>2, <1>11, <3>1, Zenon
      <4> QED BY <1>0, <1>8, <4>3, <4>4
    <3>2. CASE ~ Plain(a)
      <4>1. Len(Written(a)) >= i
        BY <1>11, <3>2, Zenon DEF Told, a
      <4>2. PICK d \in {1, 2} : Len(Twice(c)) = d
        BY <1>2
      <4>3. PICK m \in Nat : m = Len(Written(a))
        BY <1>8
      <4>4. Len(Written(b)) = m + d
        BY <1>8, <4>2, <4>3, Zenon
      <4> QED BY <1>0, <4>1, <4>2, <4>3, <4>4
    <3> QED BY <3>1, <3>2
  <2>2. Told(b, i + 1)
    BY <1>6, <1>11, <2>1, Zenon DEF Told
  <2> QED BY <2>2 DEF b
<1> QED BY <1>9, <1>10, <1>11, Zenon

\* An item.
LEMMA ItemTold ==
    ASSUME m_pattern \in Seq(Chars), ~ EmptyFmt,
           NEW i \in 1 .. Len(m_pattern), IsAt(i, "%"), ~ Unclosed(i),
           NEW a \in Seq(Entries), Told(a, i)
    PROVE  Told(Append(a, ItemAt(i)), ItemNext(i))
<1>0. Len(m_pattern) \in Nat /\ i \in Nat /\ i - 1 \in Nat
  BY LenProperties
<1> DEFINE x == ItemAt(i)
           b == Append(a, x)
<1>1. /\ x \in Entries /\ x.kind = "item"
      /\ ItemNext(i) \in i + 1 .. Len(m_pattern) + 1
      /\ Source(x) = Between(m_pattern, i - 1, ItemNext(i) - 1)
  BY ItemFacts
<1>2. PICK n \in Nat : n = ItemNext(i) - 1 /\ i - 1 <= n /\ n <= Len(m_pattern) /\ n + 1 = ItemNext(i)
                          /\ 0 <= i - 1 /\ (i - 1) - 0 = i - 1
  <2>1. ItemNext(i) \in i + 1 .. Len(m_pattern) + 1
    BY <1>1
  <2> QED BY <1>0, <2>1
<1>3. Source(x) = Between(m_pattern, i - 1, n)
  BY <1>1, <1>2, Zenon
<1> HIDE DEF x
<1>4. /\ Written(a) \in Seq(Chars) /\ Written(b) = Join(Written(a), Source(x))
      /\ Plain(b) <=> Plain(a) /\ (x.kind = "text" => ~ Contains(x.str, "%"))
      /\ Faultless(b) <=> Faultless(a) /\ x # PatternError
  BY <1>1, WrittenLonger
<1>5. Plain(b) <=> Plain(a)
  <2>1. "item" # "text"
    OBVIOUS
  <2> QED BY <1>1, <1>4, <2>1, Zenon
<1> HIDE DEF b
<1>6. CASE ~ Faultless(b)
  BY <1>6, Zenon DEF Told, b, x
<1>7. CASE Faultless(b) /\ Plain(b)
  <2>1. Written(a) = Between(m_pattern, 0, i - 1)
    BY <1>4, <1>5, <1>7, Zenon DEF Told
  <2>2. Join(Between(m_pattern, 0, i - 1), Between(m_pattern, i - 1, n)) = Between(m_pattern, 0, n)
    BY <1>0, <1>2, BetweenJoin
  <2>3. Written(b) = Between(m_pattern, 0, ItemNext(i) - 1)
    BY <1>2, <1>3, <1>4, <2>1, <2>2, Zenon
  <2>4. Told(b, ItemNext(i))
    BY <1>7, <2>3, Zenon DEF Told
  <2> QED BY <2>4 DEF b, x
<1>8. CASE Faultless(b) /\ ~ Plain(b)
  <2>1. Len(Written(a)) >= i
    BY <1>4, <1>5, <1>8, Zenon DEF Told
  <2>2. Between(m_pattern, i - 1, n) \in Seq(Chars) /\ Len(Between(m_pattern, i - 1, n)) = n - (i - 1)
    <3>1. i - 1 \in Nat /\ i - 1 <= n /\ n <= Len(m_pattern)
      BY <1>0, <1>2
    <3> QED BY <3>1, PartFacts, Zenon
  <2>3. Len(Written(a)) \in Nat
    BY <1>4, LenProperties
  <2>4. Len(Join(Written(a), Between(m_pattern, i - 1, n)))
          = Len(Written(a)) + Len(Between(m_pattern, i - 1, n))
    BY <1>4, <2>2, JoinFacts
  <2>5. Len(Join(Written(a), Between(m_pattern, i - 1, n))) >= n + 1
    BY <1>0, <1>2, <2>1, <2>2, <2>3, <2>4
  <2>6. Len(Written(b)) >= ItemNext(i)
    BY <1>2, <1>3, <1>4, <2>5, Zenon
  <2>7. Told(b, ItemNext(i))
    BY <1>8, <2>6, Zenon DEF Told
  <2> QED BY <2>7 DEF b, x
<1> QED BY <1>6, <1>7, <1>8, Zenon

FirstItemTurn == AtChar(1, <<>>, <<>>)

ItemTurns == [i : Nat, nstr : Seq(Chars), out : Seq(Entries)]

\* Before a turn.
Reached ==
    {at \in ItemTurns : at.i \in 1 .. Len(m_pattern) + 1 /\ Told(Flush(at.out, at.nstr), at.i)}

LEMMA AtCharFacts ==
    ASSUME m_pattern \in Seq(Chars), NEW j \in 1 .. Len(m_pattern) + 1,
           NEW s \in Seq(Chars), NEW o \in Seq(Entries), Told(Flush(o, s), j)
    PROVE  AtChar(j, s, o) \in Reached /\ AtChar(j, s, o).i = j
<1>1. j \in Nat
  <2>1. Len(m_pattern) \in Nat
    BY LenProperties
  <2> QED BY <2>1
<1>2. /\ AtChar(j, s, o) \in ItemTurns /\ AtChar(j, s, o).i = j
      /\ AtChar(j, s, o).nstr = s /\ AtChar(j, s, o).out = o
  BY <1>1 DEF AtChar, ItemTurns
<1>3. Told(Flush(AtChar(j, s, o).out, AtChar(j, s, o).nstr), AtChar(j, s, o).i)
  BY <1>2, Zenon
<1> QED BY <1>2, <1>3, Zenon DEF Reached

\* A turn leaves less to do, if there is anything.
LEMMA TurnTaken ==
    ASSUME m_pattern \in Seq(Chars), ~ EmptyFmt, NEW at \in Reached
    PROVE  /\ ItemTurn(at) \in Reached
           /\ at.i <= Len(m_pattern) => ItemTurn(at).i > at.i
           /\ at.i > Len(m_pattern) => ItemTurn(at) = at
<1>0. Len(m_pattern) \in Nat /\ \A j \in 1 .. Len(m_pattern) : m_pattern[j] \in Chars
  BY LenProperties
<1>1. at \in ItemTurns /\ at.i \in 1 .. Len(m_pattern) + 1 /\ Told(Flush(at.out, at.nstr), at.i)
  BY Zenon DEF Reached
<1>2. at.i \in Nat /\ at.nstr \in Seq(Chars) /\ at.out \in Seq(Entries)
  BY <1>1 DEF ItemTurns
<1>3. PICK i \in 1 .. Len(m_pattern) + 1 : i = at.i
  BY <1>1, Zenon
<1>4. PICK s \in Seq(Chars) : s = at.nstr
  BY <1>2, Zenon
<1>5. PICK o \in Seq(Entries) : o = at.out
  BY <1>2, Zenon
<1>6. Told(Flush(o, s), i)
  BY <1>1, <1>3, <1>4, <1>5, Zenon
<1>7. CASE i > Len(m_pattern)
  <2>1. ItemTurn(at) = at
    BY <1>3, <1>7, Zenon DEF ItemTurn
  <2>2. ~ (i <= Len(m_pattern))
    BY <1>0, <1>7
  <2> QED BY <1>3, <2>1, <2>2, Zenon
<1>8. CASE ~ (i > Len(m_pattern))
  <2>0. /\ i \in 1 .. Len(m_pattern) /\ i <= Len(m_pattern)
        /\ i + 1 \in 1 .. Len(m_pattern) + 1 /\ i + 1 > i
    BY <1>0, <1>8
  <2>a. at.i <= Len(m_pattern) /\ ~ (at.i > Len(m_pattern))
    BY <1>3, <1>8, <2>0, Zenon
  <2>1. ASSUME NEW j \in 1 .. Len(m_pattern) + 1, NEW t \in Seq(Chars), NEW p \in Seq(Entries),
               j > i, Told(Flush(p, t), j), ItemTurn(at) = AtChar(j, t, p)
        PROVE  ItemTurn(at) \in Reached /\ ItemTurn(at).i > at.i
    <3>1. AtChar(j, t, p) \in Reached /\ AtChar(j, t, p).i = j
      BY <2>1, AtCharFacts
    <3> QED BY <1>3, <2>1, <3>1, Zenon
  <2>2. ASSUME NEW c \in Chars, c # "%" => m_pattern[i] = c,
               ItemTurn(at) = AtChar(i + 1, Append(s, c), o)
        PROVE  ItemTurn(at) \in Reached /\ ItemTurn(at).i > at.i
    <3>1. Told(Flush(o, Append(s, c)), i + 1)
      BY <1>6, <2>0, <2>2, TextTold, Zenon
    <3>2. Append(s, c) \in Seq(Chars)
      BY <2>2, AppendProperties
    <3> QED BY <2>0, <2>1, <2>2, <3>1, <3>2
  <2>3. CASE m_pattern[i] # "%"
    <3>1. PICK c \in Chars : c = m_pattern[i]
      BY <1>0, <2>0, Zenon
    <3>2. ItemTurn(at) = AtChar(i + 1, Append(s, c), o)
      BY <1>3, <1>4, <1>5, <1>8, <2>3, <3>1, Zenon DEF ItemTurn
    <3> QED BY <2>a, <2>2, <3>1, <3>2, Zenon
  <2>4. CASE m_pattern[i] = "%" /\ IsAt(i + 1, "%")
    <3>1. PICK c \in Chars : c = "%"
      BY Zenon DEF Chars
    <3>2. ItemTurn(at) = AtChar(i + 1, Append(s, c), o)
      BY <1>3, <1>4, <1>5, <1>8, <2>4, <3>1, Zenon DEF ItemTurn
    <3> QED BY <2>a, <2>2, <3>1, <3>2, Zenon
  <2>5. CASE m_pattern[i] = "%" /\ ~ IsAt(i + 1, "%") /\ Unclosed(i)
    <3>1. ItemTurn(at) = AtChar(i + 1, s, Append(o, PatternError))
      BY <1>3, <1>4, <1>5, <1>8, <2>5, Zenon DEF ItemTurn
    <3>3. PatternError \in Entries
      BY EmptySeq DEF PatternError, Entries, NoFmt
    <3>4. Append(o, PatternError) \in Seq(Entries) /\ ~ Faultless(Append(o, PatternError))
      BY <3>3, WrittenLonger, Zenon
    <3>5. ~ Faultless(Flush(Append(o, PatternError), s))
      BY <3>4, FlushFacts, Zenon
    <3>6. Told(Flush(Append(o, PatternError), s), i + 1)
      BY <3>5, Zenon DEF Told
    <3> QED BY <2>a, <2>0, <2>1, <3>1, <3>4, <3>6
  <2>6. CASE m_pattern[i] = "%" /\ ~ IsAt(i + 1, "%") /\ ~ Unclosed(i)
    <3> DEFINE a == Flush(o, s)
    <3>0. IsAt(i, "%")
      BY <2>0, <2>6, Zenon DEF IsAt
    <3>1. ItemTurn(at) = AtChar(ItemNext(i), <<>>, Append(a, ItemAt(i)))
      BY <1>3, <1>4, <1>5, <1>8, <2>6, Zenon DEF ItemTurn
    <3>2. a \in Seq(Entries)
      BY FlushFacts, Zenon
    <3>3. ItemAt(i) \in Entries /\ ItemNext(i) \in i + 1 .. Len(m_pattern) + 1
      BY <2>0, <2>6, <3>0, ItemFacts, Zenon
    <3>4. Told(Append(a, ItemAt(i)), ItemNext(i))
      BY <1>6, <2>0, <2>6, <3>0, <3>2, ItemTold, Zenon
    <3> HIDE DEF a
    <3>5. Append(a, ItemAt(i)) \in Seq(Entries)
      BY <3>2, <3>3, AppendProperties
    <3>6. Flush(Append(a, ItemAt(i)), <<>>) = Append(a, ItemAt(i)) /\ <<>> \in Seq(Chars)
      BY EmptySeq, Zenon DEF Flush
    <3>7. ItemNext(i) \in 1 .. Len(m_pattern) + 1 /\ ItemNext(i) > i
      BY <1>0, <2>0, <3>3
    <3>8. Told(Flush(Append(a, ItemAt(i)), <<>>), ItemNext(i))
      BY <3>4, <3>6, Zenon
    <3> QED BY <2>a, <2>1, <3>1, <3>5, <3>6, <3>7, <3>8
  <2> QED BY <2>3, <2>4, <2>5, <2>6, Zenon
<1> QED BY <1>7, <1>8, Zenon

ItemTurnsWithin(X) == \A at \in X : ItemTurn(at) \in X

\* The turns of the loop, one after the other.
LEMMA ItemLoop ==
    ASSUME m_pattern \in Seq(Chars), NEW X, FirstItemTurn \in X, ItemTurnsWithin(X)
    PROVE  \E f \in [0 .. Len(m_pattern) -> X] :
             /\ f[0] = FirstItemTurn
             /\ \A k \in 1 .. Len(m_pattern) : f[k] = ItemTurn(f[k - 1])
             /\ Items = Flush(f[Len(m_pattern)].out, f[Len(m_pattern)].nstr)
<1>1. PICK n \in Nat : n = Len(m_pattern)
  BY LenProperties
<1> DEFINE F == [k \in 1 .. n |-> [x \in X |-> ItemTurn(x)]]
<1>2. F \in [1 .. n -> [X -> X]]
  BY Zenon DEF ItemTurnsWithin
<1>3. \A k \in 1 .. n, x \in X : F[k][x] = ItemTurn(x)
  OBVIOUS
<1> HIDE DEF F
<1>4. \E f \in [0 .. n -> X] : Stepwise(n, FirstItemTurn, F, f)
  BY <1>2, StepByStep, Zenon
<1>5. PICK f \in [0 .. n -> X] : f[0] = FirstItemTurn /\ \A k \in 1 .. n : f[k] = F[k][f[k - 1]]
  BY <1>4, Zenon DEF Stepwise
<1>6. \A k \in 1 .. n : f[k] = ItemTurn(f[k - 1])
  <2> SUFFICES ASSUME NEW k \in 1 .. n PROVE f[k] = ItemTurn(f[k - 1])
    OBVIOUS
  <2>1. k - 1 \in 0 .. n
    OBVIOUS
  <2>2. f[k - 1] \in X
    BY <2>1
  <2> QED BY <1>3, <1>5, <2>2
<1>7. Items = Flush(f[n].out, f[n].nstr)
  <2> DEFINE E(g) == g = [k \in 0 .. n |-> IF k = 0 THEN FirstItemTurn ELSE ItemTurn(g[k - 1])]
             after == CHOOSE g : E(g)
  <2>1. Items = Flush(after[n].out, after[n].nstr)
    BY <1>1, Zenon DEF Items, FirstItemTurn
  <2>2. E(f)
    <3>1. ASSUME NEW k \in 0 .. n PROVE f[k] = IF k = 0 THEN FirstItemTurn ELSE ItemTurn(f[k - 1])
      <4>1. CASE k = 0
        BY <1>5, <4>1
      <4>2. CASE k # 0
        <5>1. k \in 1 .. n
          BY <4>2
        <5> QED BY <1>6, <4>2, <5>1
      <4> QED BY <4>1, <4>2
    <3> QED BY <3>1
  <2>3. E(after)
    <3> HIDE DEF E
    <3> QED BY <2>2, Zenon
  <2>4. \A k \in 0 .. n : after[k] = IF k = 0 THEN FirstItemTurn ELSE ItemTurn(after[k - 1])
    <3> HIDE DEF after
    <3> QED BY <2>3, Zenon
  <2> HIDE DEF after, E
  <2>5. PICK g : g = after
    OBVIOUS
  <2>6. f[0] = g[0]
    <3>1. 0 \in 0 .. n
      OBVIOUS
    <3> QED BY <1>5, <2>4, <2>5, <3>1, Zenon
  <2>7. ASSUME NEW k \in 1 .. n, f[k - 1] = g[k - 1] PROVE f[k] = g[k]
    <3>1. k \in 0 .. n /\ k # 0
      OBVIOUS
    <3>2. g[k] = ItemTurn(g[k - 1])
      BY <2>4, <2>5, <3>1, Zenon
    <3> QED BY <1>6, <2>7, <3>2
  <2>8. \A k \in 0 .. n : f[k] = g[k]
    <3> DEFINE S == {k \in 0 .. n : f[k] = g[k]}
    <3>1. 0 \in S
      BY <2>6
    <3>2. ASSUME NEW k \in 0 .. n - 1, k \in S PROVE k + 1 \in S
      <4>1. k + 1 \in 1 .. n /\ k + 1 \in 0 .. n /\ (k + 1) - 1 = k /\ f[k] = g[k]
        BY <3>2
      <4>2. f[(k + 1) - 1] = g[(k + 1) - 1] => f[k + 1] = g[k + 1]
        BY <2>7, <4>1, Zenon
      <4>3. f[k + 1] = g[k + 1]
        BY <4>1, <4>2
      <4> QED BY <4>1, <4>3
    <3>3. \A k \in 0 .. n : k \in S
      <4> HIDE DEF S
      <4> QED BY <3>1, <3>2, CountingTo
    <3> QED BY <3>3
  <2>9. f[n] = after[n]
    <3>1. n \in 0 .. n
      OBVIOUS
    <3> QED BY <2>5, <2>8, <3>1, Zenon
  <2> QED BY <2>1, <2>9, Zenon
<1> QED BY <1>1, <1>5, <1>6, <1>7, Zenon

\* Nothing has been looked at yet.
LEMMA FirstTold ==
    ASSUME m_pattern \in Seq(Chars)
    PROVE  FirstItemTurn \in Reached
<1>0. Len(m_pattern) \in Nat /\ <<>> \in Seq(Chars) /\ <<>> \in Seq(Entries)
      /\ DOMAIN <<>> = {} /\ <<>> \in Seq(Seq(Chars))
  BY LenProperties, EmptySeq
<1>1. Flush(<<>>, <<>>) = <<>>
  BY Zenon DEF Flush
<1>2. Plain(<<>>)
  BY <1>0 DEF Plain
<1>3. Written(<<>>) = <<>>
  <2> DEFINE t == [k \in DOMAIN <<>> |-> Source(<<>>[k])]
  <2>1. t = <<>>
    BY <1>0
  <2> QED BY <1>0, <2>1, FlattenNone, Zenon DEF Written
<1>4. Between(m_pattern, 0, 1 - 1) = <<>>
  <2>1. /\ 0 \in Nat /\ 1 - 1 \in Nat /\ 0 <= 1 - 1 /\ 1 - 1 <= Len(m_pattern)
        /\ (1 - 1) - 0 = 0
    BY <1>0
  <2> DEFINE b == Between(m_pattern, 0, 1 - 1)
  <2>2. b \in Seq(Chars) /\ Len(b) = 0
    BY <2>1, PartFacts, Zenon
  <2> HIDE DEF b
  <2>3. b = <<>>
    BY <2>2, EmptySeq
  <2> QED BY <2>3 DEF b
<1>5. Told(Flush(<<>>, <<>>), 1)
  BY <1>1, <1>2, <1>3, <1>4, Zenon DEF Told
<1>6. AtChar(1, <<>>, <<>>) \in Reached
  <2>1. 1 \in 1 .. Len(m_pattern) + 1
    BY <1>0
  <2> QED BY <1>0, <1>5, <2>1, AtCharFacts, Zenon
<1> QED BY <1>6, Zenon DEF AtChar, FirstItemTurn

\* The loop gets to the end.
LEMMA ItemsTold ==
    ASSUME m_pattern \in Seq(Chars), ~ EmptyFmt
    PROVE  Told(Items, Len(m_pattern) + 1)
<1>1. PICK n \in Nat : n = Len(m_pattern)
  BY LenProperties
<1>2. ItemTurnsWithin(Reached)
  BY TurnTaken, Zenon DEF ItemTurnsWithin
<1>3. PICK f \in [0 .. Len(m_pattern) -> Reached] :
        /\ f[0] = FirstItemTurn
        /\ \A k \in 1 .. Len(m_pattern) : f[k] = ItemTurn(f[k - 1])
        /\ Items = Flush(f[Len(m_pattern)].out, f[Len(m_pattern)].nstr)
  BY <1>2, FirstTold, ItemLoop, Zenon
<1>4. \A k \in 0 .. n : f[k] \in Reached
  BY <1>1, <1>3
<1>5. ASSUME NEW at \in Reached
      PROVE  at.i \in 1 .. n + 1 /\ Told(Flush(at.out, at.nstr), at.i)
  BY <1>1, <1>5, Zenon DEF Reached
<1> DEFINE S == {k \in 0 .. n : f[k].i > k}
<1>6. 0 \in S
  <2>1. FirstItemTurn.i = 1
    BY DEF FirstItemTurn, AtChar
  <2>2. f[0].i = 1
    BY <1>3, <2>1, Zenon
  <2> QED BY <2>2
<1>7. ASSUME NEW k \in 0 .. n - 1, k \in S PROVE k + 1 \in S
  <2>1. k \in 0 .. n /\ k + 1 \in 1 .. n /\ k + 1 \in 0 .. n /\ (k + 1) - 1 = k
    BY <1>1
  <2>2. f[k] \in Reached /\ f[k + 1] = ItemTurn(f[k])
    <3>1. f[k + 1] = ItemTurn(f[(k + 1) - 1])
      BY <1>1, <1>3, <2>1, Zenon
    <3> QED BY <1>4, <2>1, <3>1
  <2>3. f[k].i \in 1 .. n + 1 /\ f[k].i > k
    BY <1>5, <1>7, <2>2
  <2>4. /\ f[k].i <= n => f[k + 1].i > f[k].i
        /\ f[k].i > n => f[k + 1] = f[k]
    BY <1>1, <2>2, TurnTaken, Zenon
  <2>5. f[k + 1].i \in 1 .. n + 1
    BY <1>4, <1>5, <2>1, Zenon
  <2>6. f[k + 1].i > k + 1
    BY <2>1, <2>3, <2>4, <2>5
  <2> QED BY <2>1, <2>6
<1>8. \A k \in 0 .. n : k \in S
  <2> HIDE DEF S
  <2> QED BY <1>6, <1>7, CountingTo
<1>9. f[n].i = n + 1
  <2>1. n \in 0 .. n
    OBVIOUS
  <2>2. f[n].i > n
    BY <1>8, <2>1
  <2>3. f[n].i \in 1 .. n + 1
    BY <1>4, <1>5, <2>1, Zenon
  <2> QED BY <2>2, <2>3
<1>10. Told(Flush(f[n].out, f[n].nstr), f[n].i)
  <2>1. n \in 0 .. n
    OBVIOUS
  <2> QED BY <1>4, <1>5, <2>1, Zenon
<1> QED BY <1>1, <1>3, <1>9, <1>10, Zenon

LEMMA ItemsExact ==
    ASSUME m_pattern \in Seq(Chars)
    PROVE  PatternExact
<1> SUFFICES ASSUME ~ EmptyFmt, Faultless(Items) PROVE Written(Items) = m_pattern <=> Plain(Items)
  BY Zenon DEF PatternExact, Faultless, Written, Plain
<1>1. PICK n \in Nat : n = Len(m_pattern)
  BY LenProperties
<1>2. Told(Items, n + 1) /\ (n + 1) - 1 = n /\ 0 \in Nat /\ 0 <= n /\ n <= n
  BY <1>1, ItemsTold
<1>3. CASE Plain(Items)
  <2>1. Written(Items) = Between(m_pattern, 0, n)
    BY <1>2, <1>3, Zenon DEF Told
  <2>2. Between(m_pattern, 0, n) = m_pattern
    <3> DEFINE b == Between(m_pattern, 0, n)
    <3>1. /\ b \in Seq(Chars) /\ Len(b) = n - 0
          /\ \A i \in 1 .. n - 0 : b[i] = m_pattern[0 + i]
      BY <1>1, <1>2, PartFacts, Zenon
    <3> HIDE DEF b
    <3>2. Len(b) = Len(m_pattern) /\ \A i \in 1 .. Len(b) : b[i] = m_pattern[i]
      BY <1>1, <3>1
    <3>3. b = m_pattern
      BY <3>1, <3>2, SeqEqual
    <3> QED BY <3>3 DEF b
  <2> QED BY <1>3, <2>1, <2>2, Zenon
<1>4. CASE ~ Plain(Items)
  <2>1. Len(Written(Items)) >= n + 1
    BY <1>2, <1>4, Zenon DEF Told
  <2>2. Written(Items) # m_pattern
    <3>1. SUFFICES ASSUME Written(Items) = m_pattern PROVE FALSE
      OBVIOUS
    <3>2. n >= n + 1
      BY <1>1, <2>1, <3>1, Zenon
    <3> QED BY <3>2
  <2> QED BY <1>4, <2>2, Zenon
<1> QED BY <1>3, <1>4, Zenon

\* Nothing of a pattern is lost, doubled or moved by LogFormatter::init(), but for "%%"
\* and for an item without its "}", whatever the characters and the length.
THEOREM PatternExactHolds == PatternSpec => []PatternExact
<1>1. PatternInit => m_pattern \in Seq(Chars)
  BY EmptySeq DEF PatternInit
<1>2. m_pattern \in Seq(Chars) /\ [PatternNext]_m_pattern => (m_pattern \in Seq(Chars))'
  BY AppendProperties DEF PatternNext, LengthenPattern
<1>3. m_pattern \in Seq(Chars) => PatternExact
  BY ItemsExact
<1> QED BY <1>1, <1>2, <1>3, PTL DEF PatternSpec
-----------------------------------------------------------------------------
(* Address: the bits of a number.                                          *)

\* What is divided by twice as much.
LEMMA HalfQuotient ==
    ASSUME NEW a \in Nat, NEW p \in Nat \ {0}
    PROVE  /\ a \div p \in Nat /\ a \div (2 * p) \in Nat /\ (a \div p) % 2 \in {0, 1}
           /\ a \div p = 2 * (a \div (2 * p)) + ((a \div p) % 2)
<1>1. PICK q \in Nat, r \in 0 .. p - 1 : q = a \div p /\ r = a % p /\ a = q * p + r
  BY Division
<1>2. PICK h \in Nat, b \in 0 .. 1 : h = q \div 2 /\ b = q % 2 /\ q = h * 2 + b
  <2>1. 2 \in Nat \ {0} /\ 2 - 1 = 1
    OBVIOUS
  <2> QED BY <2>1, Division
<1>3. PICK m \in Nat \ {0} : m = 2 * p
  OBVIOUS
<1>4. q * p = h * m + b * p
  <2>1. (h * 2 + b) * p = h * (2 * p) + b * p
    <3>1. b = 0 \/ b = 1
      BY <1>2
    <3>2. (h * 2) * p = h * (2 * p)
      OBVIOUS
    <3>3. CASE b = 0
      BY <3>2, <3>3
    <3>4. CASE b = 1
      BY <3>2, <3>4
    <3> QED BY <3>1, <3>3, <3>4
  <2> QED BY <1>2, <1>3, <2>1
<1>5. PICK t \in 0 .. m - 1 : t = b * p + r
  <2>1. b = 0 \/ b = 1
    BY <1>2
  <2>2. CASE b = 0
    <3>1. b * p = 0
      BY <2>2
    <3> QED BY <1>1, <1>3, <3>1
  <2>3. CASE b = 1
    <3>1. b * p = p
      BY <2>3
    <3> QED BY <1>1, <1>3, <3>1
  <2> QED BY <2>1, <2>2, <2>3
<1>6. a = h * m + t
  <2>1. PICK x \in Nat : x = h * m
    BY <1>3
  <2>2. PICK y \in Nat : y = b * p
    BY <1>2
  <2>3. PICK z \in Nat : z = q * p
    OBVIOUS
  <2>4. z = x + y /\ a = z + r /\ t = y + r
    BY <1>1, <1>4, <1>5, <2>1, <2>2, <2>3, Zenon
  <2>5. a = x + t
    BY <2>4
  <2> QED BY <2>1, <2>5, Zenon
<1>7. a \div m = h
  BY <1>6, DivisionExact
<1>8. b \in {0, 1} /\ q = 2 * h + b
  <2>1. b \in {0, 1} /\ h * 2 = 2 * h
    OBVIOUS
  <2> QED BY <1>2, <2>1, Zenon
<1> QED BY <1>1, <1>2, <1>3, <1>7, <1>8

\* The bits of a number are those by which it is put together.
LEMMA BitsAre ==
    ASSUME NEW w \in Nat, NEW S \in [0 .. w -> Nat], S[0] = 0, NEW bit,
           \A i \in 1 .. w : bit[i] \in {0, 1} /\ S[i] = 2 * S[i - 1] + bit[i]
    PROVE  S[w] \in 0 .. 2 ^ w - 1 /\ \A i \in 1 .. w : BitOf(S[w], w, i) = bit[i]
<1>1. \A i \in 0 .. w : S[i] < 2 ^ i
  <2> DEFINE A == {i \in 0 .. w : S[i] < 2 ^ i}
  <2>1. 0 \in A
    <3>1. 2 ^ 0 = 1
      OBVIOUS
    <3> QED BY <3>1
  <2>2. ASSUME NEW i \in 0 .. w - 1, i \in A PROVE i + 1 \in A
    <3>1. i \in Nat /\ i + 1 \in 1 .. w /\ i + 1 \in 0 .. w /\ (i + 1) - 1 = i /\ i \in 0 .. w
      OBVIOUS
    <3>2. PICK x \in Nat : x = S[i]
      BY <3>1
    <3>3. bit[i + 1] \in {0, 1} /\ S[i + 1] = 2 * x + bit[i + 1]
      BY <3>1, <3>2
    <3>4. PICK p \in Nat : p = 2 ^ i
      BY <3>1, PowerNat
    <3>5. 2 ^ (i + 1) = 2 * p
      BY <3>1, <3>4, PowerNext
    <3>6. x < p
      BY <2>2, <3>2, <3>4
    <3>7. 2 * x + bit[i + 1] < 2 * p
      BY <3>3, <3>6
    <3>8. S[i + 1] < 2 ^ (i + 1)
      BY <3>3, <3>5, <3>7, Zenon
    <3> QED BY <3>1, <3>8
  <2>3. \A i \in 0 .. w : i \in A
    <3> HIDE DEF A
    <3> QED BY <2>1, <2>2, CountingTo
  <2> QED BY <2>3
<1>2. \A j \in 0 .. w : S[w - j] = S[w] \div 2 ^ j
  <2> DEFINE A == {j \in 0 .. w : S[w - j] = S[w] \div 2 ^ j}
  <2>0. S[w] \in Nat
    OBVIOUS
  <2>1. 0 \in A
    <3>1. 2 ^ 0 = 1 /\ w - 0 = w /\ 0 \in 0 .. w
      OBVIOUS
    <3>2. S[w] \div 1 = S[w]
      BY <2>0
    <3>3. S[w - 0] = S[w] \div 2 ^ 0
      BY <3>1, <3>2, Zenon
    <3> QED BY <3>1, <3>3
  <2>2. ASSUME NEW j \in 0 .. w - 1, j \in A PROVE j + 1 \in A
    <3>1. /\ j \in Nat /\ j + 1 \in 0 .. w /\ w - j \in 1 .. w /\ w - (j + 1) = (w - j) - 1
          /\ w - (j + 1) \in 0 .. w
      OBVIOUS
    <3>2. PICK p \in Nat \ {0} : p = 2 ^ j
      BY <3>1, PowerNat
    <3>3. 2 ^ (j + 1) = 2 * p
      BY <3>1, <3>2, PowerNext
    <3>4. PICK a \in Nat : a = S[w]
      BY <2>0
    <3>5. S[w - j] = a \div p
      BY <2>2, <3>2, <3>4
    <3>6. PICK x \in Nat : x = S[w - (j + 1)]
      BY <3>1
    <3>7. PICK d \in {0, 1} : S[w - j] = 2 * x + d
      <4>1. bit[w - j] \in {0, 1} /\ S[w - j] = 2 * S[(w - j) - 1] + bit[w - j]
        BY <3>1
      <4>2. S[(w - j) - 1] = x
        BY <3>1, <3>6
      <4>3. PICK d \in {0, 1} : d = bit[w - j]
        BY <4>1
      <4>4. S[w - j] = 2 * x + d
        BY <4>1, <4>2, <4>3
      <4> QED BY <4>4
    <3>8. PICK h \in Nat, b \in {0, 1} : h = a \div (2 * p) /\ a \div p = 2 * h + b
      <4>1. /\ a \div (2 * p) \in Nat /\ (a \div p) % 2 \in {0, 1}
            /\ a \div p = 2 * (a \div (2 * p)) + ((a \div p) % 2)
        BY HalfQuotient, Zenon
      <4> QED BY <4>1, Zenon
    <3>9. x = h
      <4>1. 2 * x + d = 2 * h + b
        BY <3>5, <3>7, <3>8, Zenon
      <4> QED BY <4>1
    <3>10. S[w - (j + 1)] = S[w] \div 2 ^ (j + 1)
      BY <3>3, <3>4, <3>6, <3>8, <3>9, Zenon
    <3> QED BY <3>1, <3>10
  <2>3. \A j \in 0 .. w : j \in A
    <3> HIDE DEF A
    <3> QED BY <2>1, <2>2, CountingTo
  <2> QED BY <2>3
<1>3. ASSUME NEW i \in 1 .. w PROVE BitOf(S[w], w, i) = bit[i]
  <2>1. w - i \in 0 .. w /\ w - (w - i) = i /\ i - 1 \in 0 .. w
    OBVIOUS
  <2>2. S[i] = S[w] \div 2 ^ (w - i)
    BY <1>2, <2>1
  <2>3. PICK x \in Nat : x = S[i - 1]
    BY <2>1
  <2>4. PICK d \in {0, 1} : d = bit[i] /\ S[i] = 2 * x + d
    BY <2>3
  <2>5. S[i] % 2 = bit[i]
    <3>1. (2 * x + d) % 2 = d
      <4>1. CASE d = 0
        <5>1. (2 * x) % 2 = 0
          OBVIOUS
        <5> QED BY <4>1, <5>1
      <4>2. CASE d = 1
        <5>1. (2 * x + 1) % 2 = 1
          OBVIOUS
        <5> QED BY <4>2, <5>1
      <4> QED BY <4>1, <4>2
    <3> QED BY <2>4, <3>1, Zenon
  <2> QED BY <2>2, <2>5, Zenon DEF BitOf
<1>4. S[w] \in 0 .. 2 ^ w - 1
  <2>1. PICK p \in Nat : p = 2 ^ w
    BY PowerNat
  <2>2. w \in 0 .. w /\ S[w] \in Nat
    OBVIOUS
  <2>3. S[w] < p
    BY <1>1, <2>1, <2>2
  <2>4. S[w] \in 0 .. p - 1
    BY <2>2, <2>3
  <2> QED BY <2>1, <2>4, Zenon
<1> QED BY <1>3, <1>4

\* There is a number of given bits.
LEMMA OfBitsFacts ==
    ASSUME NEW w \in Nat, NEW bit, \A i \in 1 .. w : bit[i] \in {0, 1}
    PROVE  /\ OfBits(w, bit) \in 0 .. 2 ^ w - 1
           /\ \A i \in 1 .. w : BitOf(OfBits(w, bit), w, i) = bit[i]
<1> DEFINE F == [k \in 1 .. w |-> [x \in Nat |-> 2 * x + bit[k]]]
<1>1. F \in [1 .. w -> [Nat -> Nat]]
  OBVIOUS
<1>2. \A k \in 1 .. w, x \in Nat : F[k][x] = 2 * x + bit[k]
  OBVIOUS
<1> HIDE DEF F
<1>3. \E S \in [0 .. w -> Nat] : Stepwise(w, 0, F, S)
  <2>1. 0 \in Nat
    OBVIOUS
  <2> QED BY <1>1, <2>1, StepByStep, Zenon
<1>4. PICK S \in [0 .. w -> Nat] : S[0] = 0 /\ \A k \in 1 .. w : S[k] = F[k][S[k - 1]]
  BY <1>3, Zenon DEF Stepwise
<1>5. \A k \in 1 .. w : bit[k] \in {0, 1} /\ S[k] = 2 * S[k - 1] + bit[k]
  <2> SUFFICES ASSUME NEW k \in 1 .. w PROVE S[k] = 2 * S[k - 1] + bit[k]
    OBVIOUS
  <2>1. k - 1 \in 0 .. w
    OBVIOUS
  <2>2. S[k - 1] \in Nat
    BY <2>1
  <2> QED BY <1>2, <1>4, <2>2
<1>6. S[w] \in 0 .. 2 ^ w - 1 /\ \A i \in 1 .. w : BitOf(S[w], w, i) = bit[i]
  BY <1>4, <1>5, BitsAre, Zenon
<1> QED BY <1>6, Zenon DEF OfBits

\* The bits are bits, and without any there is nothing.
LEMMA BitFacts ==
    ASSUME NEW w \in Nat, NEW a \in Nat
    PROVE  /\ \A i \in 1 .. w : BitOf(a, w, i) \in {0, 1}
           /\ a < 2 ^ w /\ (\A i \in 1 .. w : BitOf(a, w, i) = 0) => a = 0
           /\ a = 0 => \A i \in 1 .. w : BitOf(a, w, i) = 0
<1>0. ASSUME NEW i \in 0 .. w PROVE 2 ^ (w - i) \in Nat \ {0} /\ w - i \in Nat
  <2>1. w - i \in Nat
    OBVIOUS
  <2> QED BY <2>1, PowerNat
<1>1. ASSUME NEW i \in 1 .. w
      PROVE  /\ BitOf(a, w, i) \in {0, 1} /\ a \div 2 ^ (w - (i - 1)) \in Nat
             /\ a \div 2 ^ (w - i) = 2 * (a \div 2 ^ (w - (i - 1))) + BitOf(a, w, i)
  <2>1. i \in 0 .. w /\ w - (i - 1) = (w - i) + 1
    OBVIOUS
  <2>2. PICK p \in Nat \ {0} : p = 2 ^ (w - i)
    BY <1>0, <2>1
  <2>3. 2 ^ (w - (i - 1)) = 2 * p
    <3>1. w - i \in Nat
      BY <1>0, <2>1
    <3> QED BY <2>1, <2>2, <3>1, PowerNext
  <2>4. /\ a \div (2 * p) \in Nat /\ (a \div p) % 2 \in {0, 1}
        /\ a \div p = 2 * (a \div (2 * p)) + ((a \div p) % 2)
    BY HalfQuotient
  <2>5. BitOf(a, w, i) = (a \div p) % 2
    BY <2>2, Zenon DEF BitOf
  <2> QED BY <2>2, <2>3, <2>4, <2>5, Zenon
<1>2. ASSUME a < 2 ^ w, \A i \in 1 .. w : BitOf(a, w, i) = 0 PROVE a = 0
  <2> DEFINE A == {i \in 0 .. w : a \div 2 ^ (w - i) = 0}
  <2>1. 0 \in A
    <3>1. PICK p \in Nat \ {0} : p = 2 ^ w
      BY PowerNat
    <3>2. a \div p = 0
      <4>1. 0 \in Nat /\ a \in 0 .. p - 1 /\ 0 * p + a = a
        BY <1>2, <3>1
      <4>2. (0 * p + a) \div p = 0
        BY <4>1, DivisionExact
      <4> QED BY <4>1, <4>2, Zenon
    <3>3. w - 0 = w
      OBVIOUS
    <3>4. a \div 2 ^ (w - 0) = 0
      BY <3>1, <3>2, <3>3, Zenon
    <3> QED BY <3>4
  <2>2. ASSUME NEW i \in 0 .. w - 1, i \in A PROVE i + 1 \in A
    <3>1. i + 1 \in 1 .. w /\ i + 1 \in 0 .. w /\ (i + 1) - 1 = i
      OBVIOUS
    <3>2. a \div 2 ^ (w - i) = 0
      BY <2>2
    <3>3. a \div 2 ^ (w - (i + 1)) = 2 * (a \div 2 ^ (w - i)) + BitOf(a, w, i + 1)
      BY <1>1, <3>1
    <3>4. BitOf(a, w, i + 1) = 0
      BY <1>2, <3>1
    <3>5. 2 * 0 + 0 = 0
      OBVIOUS
    <3>6. a \div 2 ^ (w - (i + 1)) = 0
      BY <3>2, <3>3, <3>4, <3>5, Zenon
    <3> QED BY <3>1, <3>6
  <2>3. \A i \in 0 .. w : i \in A
    <3> HIDE DEF A
    <3> QED BY <2>1, <2>2, CountingTo
  <2>4. w \in 0 .. w /\ w - w = 0 /\ 2 ^ 0 = 1 /\ a \div 1 = a
    OBVIOUS
  <2>5. a \div 2 ^ (w - w) = 0
    BY <2>3, <2>4
  <2> QED BY <2>4, <2>5, Zenon
<1>3. ASSUME a = 0, NEW i \in 1 .. w PROVE BitOf(a, w, i) = 0
  <2>1. PICK p \in Nat \ {0} : p = 2 ^ (w - i)
    BY <1>0
  <2>2. (0 \div p) % 2 = 0
    <3>1. 0 \in Nat /\ 0 \in 0 .. p - 1 /\ 0 * p + 0 = 0
      OBVIOUS
    <3>2. (0 * p + 0) \div p = 0
      BY <3>1, DivisionExact
    <3> QED BY <3>1, <3>2
  <2> QED BY <1>3, <2>1, <2>2, Zenon DEF BitOf
<1> QED BY <1>1, <1>2, <1>3

\* The bits of a mask, and of what it is not.
LEMMA MaskBits ==
    ASSUME NEW w \in Nat, NEW p \in 0 .. w
    PROVE  /\ CreateMask(w, p) \in Nat
           /\ \A i \in 1 .. w : BitOf(CreateMask(w, p), w, i) = IF i <= p THEN 0 ELSE 1
<1>0. p \in Nat /\ w - p \in Nat /\ \A i \in 0 .. w : i > p => i - p \in Nat
  OBVIOUS
<1> DEFINE S == [i \in 0 .. w |-> IF i <= p THEN 0 ELSE 2 ^ (i - p) - 1]
           bit == [i \in 1 .. w |-> IF i <= p THEN 0 ELSE 1]
<1>1. ASSUME NEW i \in 0 .. w PROVE 2 ^ (i - p) - 1 \in Nat \/ i <= p
  <2>1. i > p => i - p \in Nat
    BY <1>0
  <2>2. i > p => 2 ^ (i - p) \in Nat \ {0}
    BY <2>1, PowerNat
  <2>3. \A x \in Nat \ {0} : x - 1 \in Nat
    OBVIOUS
  <2> QED BY <2>2, <2>3
<1>2. S \in [0 .. w -> Nat]
  <2>1. ASSUME NEW i \in 0 .. w PROVE (IF i <= p THEN 0 ELSE 2 ^ (i - p) - 1) \in Nat
    BY <1>1
  <2> QED BY <2>1
<1>3. \A i \in 0 .. w : S[i] = IF i <= p THEN 0 ELSE 2 ^ (i - p) - 1
  BY Zenon
<1>4. \A i \in 1 .. w : bit[i] = IF i <= p THEN 0 ELSE 1
  BY Zenon
<1> HIDE DEF S, bit
<1>5. S[0] = 0
  <2>1. 0 \in 0 .. w /\ 0 <= p
    OBVIOUS
  <2> QED BY <1>3, <2>1, Zenon
<1>6. ASSUME NEW i \in 1 .. w PROVE bit[i] \in {0, 1} /\ S[i] = 2 * S[i - 1] + bit[i]
  <2>0. i \in 0 .. w /\ i - 1 \in 0 .. w
    OBVIOUS
  <2>1. CASE i <= p
    <3>1. i - 1 <= p
      BY <2>1
    <3>2. S[i] = 0 /\ S[i - 1] = 0 /\ bit[i] = 0
      BY <1>3, <1>4, <2>0, <2>1, <3>1, Zenon
    <3> QED BY <3>2
  <2>2. CASE i = p + 1
    <3>1. ~ (i <= p) /\ i - 1 <= p /\ i - p = 1
      BY <2>2
    <3>2. S[i] = 2 ^ 1 - 1 /\ S[i - 1] = 0 /\ bit[i] = 1
      BY <1>3, <1>4, <2>0, <3>1, Zenon
    <3>3. 2 ^ 1 = 2
      OBVIOUS
    <3> QED BY <3>2, <3>3
  <2>3. CASE i > p + 1
    <3>1. ~ (i <= p) /\ ~ (i - 1 <= p) /\ (i - 1) - p \in Nat /\ i - p = ((i - 1) - p) + 1
      BY <2>3
    <3>2. S[i] = 2 ^ (i - p) - 1 /\ S[i - 1] = 2 ^ ((i - 1) - p) - 1 /\ bit[i] = 1
      BY <1>3, <1>4, <2>0, <3>1, Zenon
    <3>3. PICK x \in Nat : x = 2 ^ ((i - 1) - p)
      BY <3>1, PowerNat
    <3>4. 2 ^ (i - p) = 2 * x
      BY <3>1, <3>3, PowerNext
    <3>5. 2 * x - 1 = 2 * (x - 1) + 1
      OBVIOUS
    <3>6. 1 \in {0, 1}
      OBVIOUS
    <3> QED BY <3>2, <3>3, <3>4, <3>5, <3>6, Zenon
  <2> QED BY <2>1, <2>2, <2>3
<1>7. S[w] = CreateMask(w, p)
  <2>1. w \in 0 .. w
    OBVIOUS
  <2>2. CASE p = w
    <3>1. w <= p /\ w - p = 0 /\ 2 ^ 0 - 1 = 0
      BY <2>2
    <3> QED BY <1>3, <2>1, <3>1, Zenon DEF CreateMask
  <2>3. CASE p # w
    <3>1. ~ (w <= p)
      BY <2>3
    <3> QED BY <1>3, <2>1, <3>1, Zenon DEF CreateMask
  <2> QED BY <2>2, <2>3
<1>8. S[w] \in 0 .. 2 ^ w - 1 /\ \A i \in 1 .. w : BitOf(S[w], w, i) = bit[i]
  BY <1>2, <1>5, <1>6, BitsAre, Zenon
<1>9. S[w] \in Nat
  <2>1. w \in 0 .. w
    OBVIOUS
  <2> QED BY <1>2, <2>1
<1> QED BY <1>4, <1>7, <1>8, <1>9, Zenon

LEMMA ComplementBits ==
    ASSUME NEW w \in Nat, NEW p \in 0 .. w
    PROVE  \A i \in 1 .. w :
              BitOf(Complement(w, CreateMask(w, p)), w, i) = IF i <= p THEN 1 ELSE 0
<1>0. p \in Nat /\ w - p \in Nat
  OBVIOUS
<1>a. PICK ones \in Nat : ones = 2 ^ p - 1
  <2>1. 2 ^ p \in Nat \ {0}
    BY <1>0, PowerNat
  <2> QED BY <2>1
<1> DEFINE S == [i \in 0 .. w |-> IF i <= p THEN 2 ^ i - 1 ELSE ones * 2 ^ (i - p)]
           bit == [i \in 1 .. w |-> IF i <= p THEN 1 ELSE 0]
<1>1. ASSUME NEW i \in 0 .. w PROVE (IF i <= p THEN 2 ^ i - 1 ELSE ones * 2 ^ (i - p)) \in Nat
  <2>1. CASE i <= p
    <3>0. i \in Nat
      OBVIOUS
    <3>1. 2 ^ i \in Nat \ {0}
      BY <3>0, PowerNat
    <3>2. \A x \in Nat \ {0} : x - 1 \in Nat
      OBVIOUS
    <3> QED BY <2>1, <3>1, <3>2
  <2>2. CASE ~ (i <= p)
    <3>1. i - p \in Nat
      BY <1>0, <2>2
    <3>2. PICK x \in Nat : x = 2 ^ (i - p)
      BY <3>1, PowerNat
    <3>3. ones * x \in Nat
      OBVIOUS
    <3> QED BY <2>2, <3>2, <3>3, Zenon
  <2> QED BY <2>1, <2>2, Zenon
<1>2. S \in [0 .. w -> Nat]
  BY <1>1
<1>3. \A i \in 0 .. w : S[i] = IF i <= p THEN 2 ^ i - 1 ELSE ones * 2 ^ (i - p)
  BY Zenon
<1>4. \A i \in 1 .. w : bit[i] = IF i <= p THEN 1 ELSE 0
  BY Zenon
<1> HIDE DEF S, bit
<1>5. S[0] = 0
  <2>1. 0 \in 0 .. w /\ 0 <= p /\ 2 ^ 0 - 1 = 0
    OBVIOUS
  <2> QED BY <1>3, <2>1, Zenon
<1>6. ASSUME NEW i \in 1 .. w PROVE bit[i] \in {0, 1} /\ S[i] = 2 * S[i - 1] + bit[i]
  <2>0. i \in 0 .. w /\ i - 1 \in 0 .. w /\ i - 1 \in Nat /\ (i - 1) + 1 = i /\ 0 \in {0, 1} /\ 1 \in {0, 1}
    OBVIOUS
  <2>1. CASE i <= p
    <3>1. i - 1 <= p
      BY <2>1
    <3>2. S[i] = 2 ^ i - 1 /\ S[i - 1] = 2 ^ (i - 1) - 1 /\ bit[i] = 1
      BY <1>3, <1>4, <2>0, <2>1, <3>1, Zenon
    <3>3. PICK x \in Nat : x = 2 ^ (i - 1)
      BY <2>0, PowerNat
    <3>4. 2 ^ i = 2 * x
      BY <2>0, <3>3, PowerNext
    <3>5. 2 * x - 1 = 2 * (x - 1) + 1
      OBVIOUS
    <3> QED BY <2>0, <3>2, <3>3, <3>4, <3>5, Zenon
  <2>2. CASE ~ (i <= p)
    <3>1. (i - 1) - p \in Nat /\ i - p = ((i - 1) - p) + 1
      BY <1>0, <2>2
    <3>2. PICK x \in Nat : x = 2 ^ ((i - 1) - p)
      BY <3>1, PowerNat
    <3>3. 2 ^ (i - p) = 2 * x
      BY <3>1, <3>2, PowerNext
    <3>4. S[i] = ones * (2 * x) /\ bit[i] = 0
      BY <1>3, <1>4, <2>0, <2>2, <3>3, Zenon
    <3>5. S[i - 1] = ones * x
      <4>1. CASE i = p + 1
        <5>1. i - 1 <= p /\ i - 1 = p /\ (i - 1) - p = 0
          BY <1>0, <4>1
        <5>2. 2 ^ 0 = 1
          OBVIOUS
        <5>3. S[i - 1] = ones
          BY <1>3, <1>a, <2>0, <5>1, Zenon
        <5>4. x = 1
          BY <3>2, <5>1, <5>2, Zenon
        <5>5. ones * 1 = ones
          OBVIOUS
        <5> QED BY <5>3, <5>4, <5>5, Zenon
      <4>2. CASE i # p + 1
        <5>1. ~ (i - 1 <= p)
          BY <1>0, <2>2, <4>2
        <5> QED BY <1>3, <2>0, <3>2, <5>1, Zenon
      <4> QED BY <4>1, <4>2
    <3>6. ones * (2 * x) = 2 * (ones * x) + 0
      <4>1. PICK y \in Nat : y = ones * x
        OBVIOUS
      <4>2. ones * (2 * x) = 2 * (ones * x)
        OBVIOUS
      <4> QED BY <4>1, <4>2
    <3> QED BY <2>0, <3>4, <3>5, <3>6, Zenon
  <2> QED BY <2>1, <2>2
<1>7. S[w] = Complement(w, CreateMask(w, p))
  <2>1. w \in 0 .. w
    OBVIOUS
  <2>2. CASE p = w
    <3>1. w <= p /\ w - p = 0 /\ 2 ^ 0 = 1 /\ 1 - 1 = 0
      BY <2>2
    <3>2. PICK x \in Nat : x = 2 ^ w
      BY PowerNat
    <3>3. x - 1 - 0 = x - 1
      OBVIOUS
    <3>4. CreateMask(w, p) = 0
      BY <3>1, Zenon DEF CreateMask
    <3>5. Complement(w, CreateMask(w, p)) = x - 1
      BY <3>2, <3>3, <3>4, Zenon DEF Complement
    <3> QED BY <1>3, <2>1, <3>1, <3>2, <3>5, Zenon
  <2>3. CASE p # w
    <3>1. ~ (w <= p) /\ p + (w - p) = w
      BY <2>3
    <3>2. PICK y \in Nat : y = 2 ^ (w - p)
      BY <1>0, PowerNat
    <3>3. PICK x \in Nat : x = 2 ^ p
      BY <1>0, PowerNat
    <3>4. 2 ^ w = x * y
      BY <1>0, <3>1, <3>2, <3>3, PowerSum
    <3>5. (x - 1) * y = x * y - y
      OBVIOUS
    <3>6. PICK z \in Nat : z = x * y
      OBVIOUS
    <3>7. z - 1 - (y - 1) = z - y
      OBVIOUS
    <3>8. S[w] = z - y
      BY <1>3, <1>a, <2>1, <3>1, <3>2, <3>3, <3>5, <3>6, Zenon
    <3>9. Complement(w, CreateMask(w, p)) = z - y
      BY <3>2, <3>4, <3>6, <3>7, Zenon DEF Complement, CreateMask
    <3> QED BY <3>8, <3>9
  <2> QED BY <2>2, <2>3
<1>8. \A i \in 1 .. w : BitOf(S[w], w, i) = bit[i]
  BY <1>2, <1>5, <1>6, BitsAre, Zenon
<1> QED BY <1>4, <1>7, <1>8, Zenon

\* What a mask makes of a number.
LEMMA MaskedBits ==
    ASSUME NEW w \in Nat, NEW p \in 0 .. w, NEW a \in Nat
    PROVE  \A i \in 1 .. w :
             /\ BitOf(Or(w, a, CreateMask(w, p)), w, i) = IF i <= p THEN BitOf(a, w, i) ELSE 1
             /\ BitOf(And(w, a, CreateMask(w, p)), w, i) = IF i <= p THEN 0 ELSE BitOf(a, w, i)
<1> DEFINE m == CreateMask(w, p)
           or == [i \in 1 .. w |-> IF BitOf(a, w, i) = 1 \/ BitOf(m, w, i) = 1 THEN 1 ELSE 0]
           and == [i \in 1 .. w |-> IF BitOf(a, w, i) = 1 /\ BitOf(m, w, i) = 1 THEN 1 ELSE 0]
<1>1. /\ \A i \in 1 .. w : BitOf(m, w, i) = IF i <= p THEN 0 ELSE 1
      /\ \A i \in 1 .. w : BitOf(a, w, i) \in {0, 1}
  BY MaskBits, BitFacts
<1>2. Or(w, a, m) = OfBits(w, or) /\ And(w, a, m) = OfBits(w, and)
  BY Zenon DEF Or, And
<1>3. ASSUME NEW i \in 1 .. w
      PROVE  /\ or[i] = IF i <= p THEN BitOf(a, w, i) ELSE 1
             /\ and[i] = IF i <= p THEN 0 ELSE BitOf(a, w, i)
  <2>1. /\ or[i] = IF BitOf(a, w, i) = 1 \/ BitOf(m, w, i) = 1 THEN 1 ELSE 0
        /\ and[i] = IF BitOf(a, w, i) = 1 /\ BitOf(m, w, i) = 1 THEN 1 ELSE 0
    BY Zenon
  <2>2. BitOf(m, w, i) = IF i <= p THEN 0 ELSE 1
    BY <1>1, Zenon
  <2>3. BitOf(a, w, i) \in {0, 1}
    BY <1>1, Zenon
  <2> HIDE DEF or, and, m
  <2> QED BY <2>1, <2>2, <2>3
<1> HIDE DEF or, and
<1>4. (\A i \in 1 .. w : or[i] \in {0, 1}) /\ (\A i \in 1 .. w : and[i] \in {0, 1})
  <2> HIDE DEF m
  <2> QED BY <1>1, <1>3
<1>5. /\ \A i \in 1 .. w : BitOf(OfBits(w, or), w, i) = or[i]
      /\ \A i \in 1 .. w : BitOf(OfBits(w, and), w, i) = and[i]
  BY <1>4, OfBitsFacts
<1> QED BY <1>2, <1>3, <1>5, Zenon

\* Bit by bit.
BitString(n, x) == x = [i \in 1 .. n |-> x[i]]

LEMMA InNetworkBits ==
    ASSUME NEW n, NEW x, BitString(n, x), NEW bit, BitString(n, bit), NEW p, NEW host
    PROVE  x = InNetwork(bit, p, host) <=> \A i \in 1 .. n : x[i] = IF i <= p THEN bit[i] ELSE host
<1> DEFINE y == [i \in 1 .. n |-> IF i <= p THEN bit[i] ELSE host]
<1>1. InNetwork(bit, p, host) = y
  <2>1. DOMAIN bit = 1 .. n
    BY DEF BitString
  <2> QED BY <2>1, Zenon DEF InNetwork
<1>2. \A i \in 1 .. n : y[i] = IF i <= p THEN bit[i] ELSE host
  BY Zenon
<1>3. BitString(n, y)
  BY DEF BitString
<1> HIDE DEF y
<1>4. ASSUME \A i \in 1 .. n : x[i] = y[i] PROVE x = y
  BY <1>3, <1>4 DEF BitString
<1> QED BY <1>1, <1>2, <1>4, Zenon

LEMMA MarkedBits ==
    ASSUME NEW n, NEW x, BitString(n, x), NEW bit, BitString(n, bit), NEW p
    PROVE  x = Marked(bit, p) <=> \A i \in 1 .. n : x[i] = IF i <= p THEN 1 ELSE 0
<1> DEFINE y == [i \in 1 .. n |-> IF i <= p THEN 1 ELSE 0]
<1>1. Marked(bit, p) = y
  <2>1. DOMAIN bit = 1 .. n
    BY DEF BitString
  <2> QED BY <2>1, Zenon DEF Marked
<1>2. \A i \in 1 .. n : y[i] = IF i <= p THEN 1 ELSE 0
  BY Zenon
<1>3. BitString(n, y)
  BY DEF BitString
<1> HIDE DEF y
<1>4. ASSUME \A i \in 1 .. n : x[i] = y[i] PROVE x = y
  BY <1>3, <1>4 DEF BitString
<1> QED BY <1>1, <1>2, <1>4, Zenon

\* IPv4.
LEMMA V4Exact ==
    ASSUME NEW a \in 0 .. 2 ^ V4Bits - 1, NEW p \in 0 .. V4Bits, NEW shifted,
           NEW q, q = IF p = 0 /\ shifted = 1 THEN V4Bits ELSE p
    PROVE  /\ V4Bit(V4Broadcast(a, p, shifted)) = InNetwork(V4Bit(a), q, 1)
           /\ V4Bit(V4Subnet(p, shifted)) = Marked(V4Bit(a), q)
           /\ V4Bit(V4Network(a, p, shifted)) = InNetwork(V4Bit(a), p, 0) <=> q # p \/ a = 0
<1>0. V4Bits \in Nat /\ 2 ^ V4Bits \in Nat
  BY AddressConstants, PowerNat
<1>1. a \in Nat /\ a < 2 ^ V4Bits /\ q \in 0 .. V4Bits
  <2>1. V4Bits \in 0 .. V4Bits
    BY <1>0
  <2> QED BY <1>0, <2>1
<1>a. V4Mask(p, shifted) = CreateMask(V4Bits, q)
  <2>1. CASE p = 0 /\ shifted = 1
    <3>1. q = V4Bits /\ V4Bits - V4Bits = 0 /\ 2 ^ 0 - 1 = 0
      BY <1>0, <2>1
    <3> QED BY <2>1, <3>1, Zenon DEF V4Mask, CreateMask
  <2>2. CASE ~ (p = 0 /\ shifted = 1)
    BY <2>2, Zenon DEF V4Mask
  <2> QED BY <2>1, <2>2
<1>2. ASSUME NEW x
      PROVE  /\ BitString(V4Bits, V4Bit(x))
             /\ \A i \in 1 .. V4Bits : V4Bit(x)[i] = BitOf(x, V4Bits, i)
  BY DEF V4Bit, BitString
<1>3. \A i \in 1 .. V4Bits :
        /\ BitOf(V4Broadcast(a, p, shifted), V4Bits, i) = IF i <= q THEN BitOf(a, V4Bits, i) ELSE 1
        /\ BitOf(V4Network(a, p, shifted), V4Bits, i) = IF i <= q THEN 0 ELSE BitOf(a, V4Bits, i)
  <2>1. /\ V4Broadcast(a, p, shifted) = Or(V4Bits, a, CreateMask(V4Bits, q))
        /\ V4Network(a, p, shifted) = And(V4Bits, a, CreateMask(V4Bits, q))
    BY <1>a, Zenon DEF V4Broadcast, V4Network
  <2>2. V4Bits \in Nat /\ a \in Nat
    BY <1>0, <1>1
  <2>3. \A i \in 1 .. V4Bits :
          /\ BitOf(Or(V4Bits, a, CreateMask(V4Bits, q)), V4Bits, i)
               = IF i <= q THEN BitOf(a, V4Bits, i) ELSE 1
          /\ BitOf(And(V4Bits, a, CreateMask(V4Bits, q)), V4Bits, i)
               = IF i <= q THEN 0 ELSE BitOf(a, V4Bits, i)
    BY <1>1, <2>2, MaskedBits
  <2> QED BY <2>1, <2>3, Zenon
<1>4. \A i \in 1 .. V4Bits : BitOf(V4Subnet(p, shifted), V4Bits, i) = IF i <= q THEN 1 ELSE 0
  BY <1>0, <1>1, <1>a, ComplementBits, Zenon DEF V4Subnet
<1>5. V4Bit(V4Broadcast(a, p, shifted)) = InNetwork(V4Bit(a), q, 1)
  <2> DEFINE x == V4Bit(V4Broadcast(a, p, shifted))
             bit == V4Bit(a)
  <2>1. \A i \in 1 .. V4Bits : x[i] = IF i <= q THEN bit[i] ELSE 1
    BY <1>2, <1>3, Zenon
  <2>2. BitString(V4Bits, x) /\ BitString(V4Bits, bit)
    BY <1>2, Zenon
  <2> HIDE DEF x, bit
  <2>3. x = InNetwork(bit, q, 1)
    BY <2>1, <2>2, InNetworkBits
  <2> QED BY <2>3 DEF x, bit
<1>6. V4Bit(V4Subnet(p, shifted)) = Marked(V4Bit(a), q)
  <2> DEFINE x == V4Bit(V4Subnet(p, shifted))
             bit == V4Bit(a)
  <2>1. \A i \in 1 .. V4Bits : x[i] = IF i <= q THEN 1 ELSE 0
    BY <1>2, <1>4, Zenon
  <2>2. BitString(V4Bits, x) /\ BitString(V4Bits, bit)
    BY <1>2, Zenon
  <2> HIDE DEF x, bit
  <2>3. x = Marked(bit, q)
    BY <2>1, <2>2, MarkedBits
  <2> QED BY <2>3 DEF x, bit
<1>7. V4Bit(V4Network(a, p, shifted)) = InNetwork(V4Bit(a), p, 0)
        <=> q # p \/ \A i \in 1 .. V4Bits : BitOf(a, V4Bits, i) = 0
  <2> DEFINE x == V4Bit(V4Network(a, p, shifted))
             bit == V4Bit(a)
  <2>1. BitString(V4Bits, x) /\ BitString(V4Bits, bit)
    BY <1>2, Zenon
  <2>2. ASSUME NEW i \in 1 .. V4Bits
        PROVE  x[i] = (IF i <= p THEN bit[i] ELSE 0) <=> q # p \/ BitOf(a, V4Bits, i) = 0
    <3>1. /\ x[i] = IF i <= q THEN 0 ELSE BitOf(a, V4Bits, i)
          /\ bit[i] = BitOf(a, V4Bits, i)
      BY <1>2, <1>3, Zenon
    <3>2. q # p => p = 0 /\ q = V4Bits
      OBVIOUS
    <3> HIDE DEF x, bit
    <3> QED BY <1>0, <3>1, <3>2
  <2> HIDE DEF x, bit
  <2>3. x = InNetwork(bit, p, 0) <=> \A i \in 1 .. V4Bits : x[i] = IF i <= p THEN bit[i] ELSE 0
    BY <2>1, InNetworkBits
  <2>4. x = InNetwork(bit, p, 0) <=> q # p \/ \A i \in 1 .. V4Bits : BitOf(a, V4Bits, i) = 0
    BY <2>2, <2>3, Zenon
  <2> QED BY <2>4 DEF x, bit
<1>8. (\A i \in 1 .. V4Bits : BitOf(a, V4Bits, i) = 0) <=> a = 0
  BY <1>0, <1>1, BitFacts, Zenon
<1> QED BY <1>5, <1>6, <1>7, <1>8, Zenon

\* The byte of a bit of an IPv6 address, and its place in the byte.
ByteOf(i)  == (i - 1) \div V6Bits + 1
PlaceOf(i) == ((i - 1) % V6Bits) + 1

LEMMA Places ==
    ASSUME NEW i \in 1 .. V6Bits * V6Bytes, NEW p \in Nat
    PROVE  /\ ByteOf(i) \in 1 .. V6Bytes /\ PlaceOf(i) \in 1 .. V6Bits
           /\ Boundary(p) \in Nat /\ Boundary(p) >= 1 /\ p % V6Bits \in 0 .. V6Bits
           /\ p < V6Bits * V6Bytes <=> Boundary(p) <= V6Bytes
           /\ i <= p <=> ByteOf(i) < Boundary(p) \/ (ByteOf(i) = Boundary(p) /\ PlaceOf(i) <= p % V6Bits)
<1>1. PICK w \in Nat \ {0}, n \in Nat \ {0} : w = V6Bits /\ n = V6Bytes
  BY AddressConstants
<1>2. PICK m \in Nat : m = w * n
  OBVIOUS
<1>3. i \in 1 .. m
  BY <1>1, <1>2, Zenon
<1>4. PICK x \in Nat : x = i - 1 /\ x < m
  BY <1>3
<1>5. PICK b \in Nat, r \in 0 .. w - 1 : b = x \div w /\ r = x % w /\ x = b * w + r
  BY Division
<1>6. PICK c \in Nat, t \in 0 .. w - 1 : c = p \div w /\ t = p % w /\ p = c * w + t
  BY Division
<1>7. ASSUME NEW u \in Nat, NEW v \in Nat, u < v PROVE u * w + w <= v * w
  <2>1. PICK d \in Nat : v = (u + 1) + d
    <3>1. v - (u + 1) \in Nat
      BY <1>7
    <3> QED BY <3>1
  <2>2. v * w = u * w + w + d * w
    <3>1. w * ((u + 1) + d) = w * (u + 1) + w * d /\ w * (u + 1) = w * u + w * 1
      BY Distributive
    <3>2. w * v = v * w /\ w * u = u * w /\ w * d = d * w /\ w * 1 = w
      OBVIOUS
    <3> QED BY <2>1, <3>1, <3>2
  <2>3. PICK y \in Nat : y = d * w
    OBVIOUS
  <2>4. PICK z \in Nat : z = u * w
    OBVIOUS
  <2> QED BY <2>2, <2>3, <2>4
<1>8. ASSUME NEW u \in Nat, NEW y \in Nat, u * w + y < m PROVE u < n
  <2>1. SUFFICES ASSUME ~ (u < n) PROVE FALSE
    OBVIOUS
  <2>2. n * w <= u * w
    <3>1. u = n \/ n < u
      BY <2>1
    <3>2. n < u => n * w + w <= u * w
      BY <1>7
    <3>3. PICK k \in Nat : k = n * w
      OBVIOUS
    <3>4. PICK l \in Nat : l = u * w
      OBVIOUS
    <3>5. CASE u = n
      BY <3>3, <3>5
    <3>6. CASE n < u
      BY <3>2, <3>3, <3>4, <3>6
    <3> QED BY <3>1, <3>5, <3>6
  <2>3. n * w = m
    BY <1>2
  <2>4. PICK l \in Nat : l = u * w
    OBVIOUS
  <2> QED BY <1>8, <2>2, <2>3, <2>4
<1>9. b < n /\ (p < m <=> c < n)
  <2>1. b * w + r < m /\ r \in Nat /\ t \in Nat
    BY <1>4, <1>5
  <2>2. p < m => c < n
    BY <1>6, <1>8, <2>1
  <2>3. ASSUME c < n PROVE p < m
    <3>1. c * w + w <= n * w
      BY <1>7, <2>3
    <3>2. n * w = m
      BY <1>2
    <3>3. PICK l \in Nat : l = c * w
      OBVIOUS
    <3> QED BY <1>6, <3>1, <3>2, <3>3
  <2> QED BY <1>8, <2>1, <2>2, <2>3
<1>10. x < p <=> b < c \/ (b = c /\ r < t)
  <2>1. PICK k \in Nat : k = b * w
    OBVIOUS
  <2>2. PICK l \in Nat : l = c * w
    OBVIOUS
  <2>3. x = k + r /\ p = l + t
    BY <1>5, <1>6, <2>1, <2>2, Zenon
  <2>4. CASE b < c
    <3>1. k + w <= l
      BY <1>7, <2>1, <2>2, <2>4
    <3> QED BY <2>3, <2>4, <3>1
  <2>5. CASE c < b
    <3>1. l + w <= k
      BY <1>7, <2>1, <2>2, <2>5
    <3> QED BY <2>3, <2>5, <3>1
  <2>6. CASE b = c
    <3>1. k = l
      BY <2>1, <2>2, <2>6
    <3> QED BY <2>3, <2>6, <3>1
  <2> QED BY <2>4, <2>5, <2>6
<1>11. ByteOf(i) = b + 1 /\ PlaceOf(i) = r + 1 /\ Boundary(p) = c + 1 /\ p % V6Bits = t
  BY <1>1, <1>4, <1>5, <1>6, Zenon DEF ByteOf, PlaceOf, Boundary
<1>12. /\ b + 1 \in 1 .. n /\ r + 1 \in 1 .. w /\ c + 1 \in Nat /\ c + 1 >= 1 /\ t \in 0 .. w
       /\ p < m <=> c + 1 <= n
       /\ i <= p <=> b + 1 < c + 1 \/ (b + 1 = c + 1 /\ r + 1 <= t)
  <2>1. i <= p <=> x < p
    BY <1>3, <1>4
  <2> QED BY <1>9, <1>10, <2>1
<1> QED BY <1>1, <1>2, <1>11, <1>12, Zenon

\* The bits of a byte.
LEMMA BitIn ==
    ASSUME NEW b \in 1 .. V6Bytes, NEW r \in 1 .. V6Bits
    PROVE  \E i \in 1 .. V6Bits * V6Bytes : ByteOf(i) = b /\ PlaceOf(i) = r
<1>1. PICK w \in Nat \ {0}, n \in Nat \ {0} : w = V6Bits /\ n = V6Bytes
  BY AddressConstants
<1>2. b \in 1 .. n /\ r \in 1 .. w
  BY <1>1, Zenon
<1>3. PICK c \in Nat : c = b - 1
  BY <1>2
<1>4. PICK t \in 0 .. w - 1 : t = r - 1
  BY <1>2
<1>5. PICK x \in Nat : x = c * w + t
  OBVIOUS
<1>6. x \div w = c /\ x % w = t
  BY <1>5, DivisionExact
<1>7. x < w * n
  <2>1. PICK d \in Nat : n = (c + 1) + d
    <3>1. n - (c + 1) \in Nat
      BY <1>2, <1>3
    <3> QED BY <3>1
  <2>2. w * n = w * c + w + w * d
    <3>1. w * ((c + 1) + d) = w * (c + 1) + w * d /\ w * (c + 1) = w * c + w * 1
      BY Distributive
    <3>2. w * 1 = w
      OBVIOUS
    <3> QED BY <2>1, <3>1, <3>2
  <2>3. PICK y \in Nat : y = w * d
    OBVIOUS
  <2>4. PICK z \in Nat : z = w * c
    OBVIOUS
  <2>5. c * w = w * c
    OBVIOUS
  <2>6. x = z + t
    BY <1>5, <2>4, <2>5
  <2>7. w * n = z + w + y
    BY <2>2, <2>3, <2>4
  <2> QED BY <2>6, <2>7
<1>8. PICK m \in Nat : m = w * n
  OBVIOUS
<1>9. x + 1 \in 1 .. m /\ (x + 1) - 1 = x
  BY <1>7, <1>8
<1>10. ByteOf(x + 1) = c + 1 /\ PlaceOf(x + 1) = t + 1
  BY <1>1, <1>6, <1>9, Zenon DEF ByteOf, PlaceOf
<1>11. c + 1 = b /\ t + 1 = r
  BY <1>2, <1>3, <1>4
<1> QED BY <1>1, <1>8, <1>9, <1>10, <1>11, Zenon

\* The bits of a byte of what the IPv6 calls return.
Network(b, r, p) == b < Boundary(p) \/ (b = Boundary(p) /\ r <= p % V6Bits)

LEMMA V6Byte ==
    ASSUME NEW a \in [1 .. V6Bytes + V6Scope -> 0 .. 2 ^ V6Bits - 1], NEW p,
           Boundary(p) \in Nat, p % V6Bits \in 0 .. V6Bits,
           NEW b \in 1 .. V6Bytes, NEW r \in 1 .. V6Bits
    PROVE  /\ BitOf(V6Broadcast(a, p)[b], V6Bits, r)
                = IF Network(b, r, p) THEN BitOf(a[b], V6Bits, r) ELSE 1
           /\ BitOf(V6Subnet(p)[b], V6Bits, r) = IF Network(b, r, p) THEN 1 ELSE 0
           /\ BitOf(V6Network(a, p)[b], V6Bits, r)
                = IF b < Boundary(p) \/ (b = Boundary(p) /\ ~ Network(b, r, p))
                  THEN BitOf(a[b], V6Bits, r) ELSE 0
<1>0. PICK w \in Nat, x \in Nat : w = V6Bits /\ x = a[b]
  <2>1. V6Bits \in Nat /\ 2 ^ V6Bits \in Nat
    BY AddressConstants, PowerNat
  <2>2. \A y \in 0 .. 2 ^ V6Bits - 1 : y \in Nat
    BY <2>1
  <2>3. b \in 1 .. V6Bytes + V6Scope
    BY AddressConstants
  <2> QED BY <2>1, <2>2, <2>3
<1>1. PICK c \in Nat, t \in 0 .. w : c = Boundary(p) /\ t = p % V6Bits
  BY <1>0
<1>2. r \in 1 .. w /\ w \in 0 .. w /\ 0 \in 0 .. w
  BY <1>0
<1>3. /\ V6Broadcast(a, p)[b] = IF b = c THEN Or(w, x, CreateMask(w, t))
                                ELSE IF b > c /\ b <= V6Bytes THEN 2 ^ w - 1 ELSE x
      /\ V6Network(a, p)[b] = IF b = c THEN And(w, x, CreateMask(w, t))
                              ELSE IF b > c /\ b <= V6Bytes THEN 0 ELSE x
      /\ V6Subnet(p)[b] = IF b = c THEN Complement(w, CreateMask(w, t))
                          ELSE IF b < c THEN 2 ^ w - 1 ELSE 0
  <2>1. b \in 1 .. V6Bytes + V6Scope
    BY AddressConstants
  <2> QED BY <1>0, <1>1, <2>1, Zenon DEF V6Broadcast, V6Network, V6Subnet, V6Mask
<1>4. /\ BitOf(Or(w, x, CreateMask(w, t)), w, r) = IF r <= t THEN BitOf(x, w, r) ELSE 1
      /\ BitOf(And(w, x, CreateMask(w, t)), w, r) = IF r <= t THEN 0 ELSE BitOf(x, w, r)
  BY <1>2, MaskedBits
<1>5. BitOf(Complement(w, CreateMask(w, t)), w, r) = IF r <= t THEN 1 ELSE 0
  BY <1>2, ComplementBits
<1>6. BitOf(2 ^ w - 1, w, r) = 1
  <2>1. BitOf(CreateMask(w, 0), w, r) = IF r <= 0 THEN 0 ELSE 1
    BY <1>2, MaskBits
  <2>2. ~ (r <= 0) /\ w - 0 = w
    OBVIOUS
  <2> QED BY <2>1, <2>2, Zenon DEF CreateMask
<1>7. BitOf(0, w, r) = 0
  <2>1. 0 \in Nat
    OBVIOUS
  <2> QED BY <1>2, <2>1, BitFacts
<1>8. Network(b, r, p) <=> b < c \/ (b = c /\ r <= t)
  BY <1>1, Zenon DEF Network
<1>9. b \in Int /\ c \in Int /\ b <= V6Bytes
  BY AddressConstants
<1>10. CASE b = c
  <2>1. ~ (b < c)
    BY <1>9, <1>10
  <2> QED BY <1>0, <1>1, <1>3, <1>4, <1>5, <1>8, <1>10, <2>1, Zenon
<1>11. CASE b < c
  <2>1. b # c /\ ~ (b > c)
    BY <1>9, <1>11
  <2> QED BY <1>0, <1>1, <1>3, <1>6, <1>8, <1>11, <2>1, Zenon
<1>12. CASE b > c
  <2>1. b # c /\ ~ (b < c)
    BY <1>9, <1>12
  <2> QED BY <1>0, <1>1, <1>3, <1>6, <1>7, <1>8, <1>9, <1>12, <2>1, Zenon
<1> QED BY <1>9, <1>10, <1>11, <1>12

\* IPv6.
LEMMA V6Exact ==
    ASSUME NEW a \in [1 .. V6Bytes + V6Scope -> 0 .. 2 ^ V6Bits - 1], NEW p \in Nat
    PROVE  /\ V6Bit(V6Broadcast(a, p)) = InNetwork(V6Bit(a), p, 1)
           /\ V6Bit(V6Subnet(p)) = Marked(V6Bit(a), p)
           /\ V6Bit(V6Network(a, p)) = InNetwork(V6Bit(a), p, 0)
                <=> p >= V6Bits * V6Bytes \/ a[Boundary(p)] = 0
           /\ ~ (p >= V6Bits * V6Bytes) =>
                SameScope(V6Broadcast(a, p), a) /\ SameScope(V6Network(a, p), a)
<1> DEFINE n == V6Bits * V6Bytes
           c == Boundary(p)
<1>1. ASSUME NEW i \in 1 .. n
      PROVE  /\ ByteOf(i) \in 1 .. V6Bytes /\ PlaceOf(i) \in 1 .. V6Bits
             /\ i <= p <=> Network(ByteOf(i), PlaceOf(i), p)
  BY Places, Zenon DEF Network
<1>a. PICK m \in Nat \ {0} : m = V6Bits * V6Bytes
  BY AddressConstants
<1>2. /\ c \in Nat /\ c >= 1 /\ p % V6Bits \in 0 .. V6Bits
      /\ p < V6Bits * V6Bytes <=> c <= V6Bytes
  <2>1. 1 \in 1 .. n
    <3>1. 1 \in 1 .. m
      OBVIOUS
    <3> QED BY <1>a, <3>1, Zenon
  <2> QED BY <2>1, Places, Zenon
<1>b. p >= V6Bits * V6Bytes <=> ~ (c <= V6Bytes)
  <2>1. p < m <=> c <= V6Bytes
    BY <1>a, <1>2, Zenon
  <2>2. p >= m <=> ~ (p < m)
    OBVIOUS
  <2> QED BY <1>a, <2>1, <2>2, Zenon
<1>3. ASSUME NEW x
      PROVE  /\ BitString(n, V6Bit(x))
             /\ \A i \in 1 .. n : V6Bit(x)[i] = BitOf(x[ByteOf(i)], V6Bits, PlaceOf(i))
  <2>1. V6Bit(x) = [i \in 1 .. n |-> BitOf(x[ByteOf(i)], V6Bits, PlaceOf(i))]
    BY Zenon DEF V6Bit, ByteOf, PlaceOf
  <2> HIDE DEF n
  <2> QED BY <2>1 DEF BitString
<1>4. ASSUME NEW i \in 1 .. n
      PROVE  /\ V6Bit(V6Broadcast(a, p))[i] = IF i <= p THEN V6Bit(a)[i] ELSE 1
             /\ V6Bit(V6Subnet(p))[i] = IF i <= p THEN 1 ELSE 0
             /\ V6Bit(V6Network(a, p))[i]
                  = IF ByteOf(i) < c \/ (ByteOf(i) = c /\ ~ (i <= p)) THEN V6Bit(a)[i] ELSE 0
  <2>1. PICK b \in 1 .. V6Bytes, r \in 1 .. V6Bits : b = ByteOf(i) /\ r = PlaceOf(i)
    BY <1>1, Zenon
  <2>2. i <= p <=> Network(b, r, p)
    BY <1>1, <2>1, Zenon
  <2>3. /\ BitOf(V6Broadcast(a, p)[b], V6Bits, r)
             = IF Network(b, r, p) THEN BitOf(a[b], V6Bits, r) ELSE 1
        /\ BitOf(V6Subnet(p)[b], V6Bits, r) = IF Network(b, r, p) THEN 1 ELSE 0
        /\ BitOf(V6Network(a, p)[b], V6Bits, r)
             = IF b < Boundary(p) \/ (b = Boundary(p) /\ ~ Network(b, r, p))
               THEN BitOf(a[b], V6Bits, r) ELSE 0
    <3>1. Boundary(p) \in Nat /\ p % V6Bits \in 0 .. V6Bits
      BY <1>2
    <3> QED BY <3>1, V6Byte, Zenon
  <2>4. /\ V6Bit(V6Broadcast(a, p))[i] = BitOf(V6Broadcast(a, p)[b], V6Bits, r)
        /\ V6Bit(V6Subnet(p))[i] = BitOf(V6Subnet(p)[b], V6Bits, r)
        /\ V6Bit(V6Network(a, p))[i] = BitOf(V6Network(a, p)[b], V6Bits, r)
        /\ V6Bit(a)[i] = BitOf(a[b], V6Bits, r)
    BY <1>3, <2>1, Zenon
  <2> QED BY <2>1, <2>2, <2>3, <2>4, Zenon
<1>5. V6Bit(V6Broadcast(a, p)) = InNetwork(V6Bit(a), p, 1)
  <2> DEFINE x == V6Bit(V6Broadcast(a, p))
             bit == V6Bit(a)
  <2>1. \A i \in 1 .. n : x[i] = IF i <= p THEN bit[i] ELSE 1
    BY <1>4, Zenon
  <2>2. BitString(n, x) /\ BitString(n, bit)
    BY <1>3, Zenon
  <2> HIDE DEF x, bit, n
  <2>3. x = InNetwork(bit, p, 1)
    BY <2>1, <2>2, InNetworkBits
  <2> QED BY <2>3 DEF x, bit
<1>6. V6Bit(V6Subnet(p)) = Marked(V6Bit(a), p)
  <2> DEFINE x == V6Bit(V6Subnet(p))
             bit == V6Bit(a)
  <2>1. \A i \in 1 .. n : x[i] = IF i <= p THEN 1 ELSE 0
    BY <1>4, Zenon
  <2>2. BitString(n, x) /\ BitString(n, bit)
    BY <1>3, Zenon
  <2> HIDE DEF x, bit, n
  <2>3. x = Marked(bit, p)
    BY <2>1, <2>2, MarkedBits
  <2> QED BY <2>3 DEF x, bit
<1>7. V6Bit(V6Network(a, p)) = InNetwork(V6Bit(a), p, 0)
        <=> \A i \in 1 .. n : ByteOf(i) = c => V6Bit(a)[i] = 0
  <2> DEFINE x == V6Bit(V6Network(a, p))
             bit == V6Bit(a)
  <2>1. BitString(n, x) /\ BitString(n, bit)
    BY <1>3, Zenon
  <2>2. ASSUME NEW i \in 1 .. n
        PROVE  x[i] = (IF i <= p THEN bit[i] ELSE 0) <=> (ByteOf(i) = c => bit[i] = 0)
    <3>1. x[i] = IF ByteOf(i) < c \/ (ByteOf(i) = c /\ ~ (i <= p)) THEN bit[i] ELSE 0
      BY <1>4, Zenon
    <3>2. ByteOf(i) \in Int /\ c \in Int
      BY <1>1, <1>2
    <3>3. ByteOf(i) < c => i <= p
      BY <1>1, Zenon DEF Network
    <3>4. i <= p => ByteOf(i) < c \/ ByteOf(i) = c
      BY <1>1, Zenon DEF Network
    <3> HIDE DEF x, bit, c, n
    <3> QED BY <3>1, <3>2, <3>3, <3>4
  <2> HIDE DEF x, bit, n, c
  <2>3. x = InNetwork(bit, p, 0) <=> \A i \in 1 .. n : x[i] = IF i <= p THEN bit[i] ELSE 0
    BY <2>1, InNetworkBits
  <2>4. x = InNetwork(bit, p, 0) <=> \A i \in 1 .. n : ByteOf(i) = c => bit[i] = 0
    BY <2>2, <2>3, Zenon
  <2> QED BY <2>4 DEF x, bit
<1>8. (\A i \in 1 .. n : ByteOf(i) = c => V6Bit(a)[i] = 0)
        <=> ~ (c <= V6Bytes) \/ a[c] = 0
  <2>1. CASE c <= V6Bytes
    <3>0. c \in 1 .. V6Bytes /\ c \in 1 .. V6Bytes + V6Scope
      BY <1>2, <2>1, AddressConstants
    <3>1. ASSUME \A i \in 1 .. n : ByteOf(i) = c => V6Bit(a)[i] = 0, NEW r \in 1 .. V6Bits
          PROVE  BitOf(a[c], V6Bits, r) = 0
      <4>1. PICK i \in 1 .. n : ByteOf(i) = c /\ PlaceOf(i) = r
        BY <3>0, BitIn, Zenon
      <4> QED BY <1>3, <3>1, <4>1, Zenon
    <3>2. ASSUME \A r \in 1 .. V6Bits : BitOf(a[c], V6Bits, r) = 0, NEW i \in 1 .. n, ByteOf(i) = c
          PROVE  V6Bit(a)[i] = 0
      <4>1. PICK r \in 1 .. V6Bits : r = PlaceOf(i)
        BY <1>1, Zenon
      <4>2. V6Bit(a)[i] = BitOf(a[ByteOf(i)], V6Bits, PlaceOf(i))
        BY <1>3, Zenon
      <4>3. BitOf(a[c], V6Bits, r) = 0
        BY <3>2, Zenon
      <4> QED BY <3>2, <4>1, <4>2, <4>3, Zenon
    <3>3. (\A r \in 1 .. V6Bits : BitOf(a[c], V6Bits, r) = 0) <=> a[c] = 0
      <4>1. V6Bits \in Nat /\ 2 ^ V6Bits \in Nat
        BY AddressConstants, PowerNat
      <4>2. a[c] \in 0 .. 2 ^ V6Bits - 1
        BY <3>0
      <4>3. a[c] \in Nat /\ a[c] < 2 ^ V6Bits
        BY <4>1, <4>2
      <4> QED BY <4>1, <4>3, BitFacts, Zenon
    <3> QED BY <2>1, <3>1, <3>2, <3>3, Zenon
  <2>2. CASE ~ (c <= V6Bytes)
    <3>1. \A i \in 1 .. n : ByteOf(i) # c
      <4> SUFFICES ASSUME NEW i \in 1 .. n PROVE ByteOf(i) # c
        OBVIOUS
      <4>1. ByteOf(i) \in 1 .. V6Bytes
        BY <1>1, Zenon
      <4> HIDE DEF c
      <4> QED BY <2>2, <4>1, AddressConstants
    <3> QED BY <2>2, <3>1, Zenon
  <2> QED BY <2>1, <2>2
<1>9. ASSUME c <= V6Bytes
      PROVE  SameScope(V6Broadcast(a, p), a) /\ SameScope(V6Network(a, p), a)
  <2>1. ASSUME NEW i \in V6Bytes + 1 .. V6Bytes + V6Scope
        PROVE  V6Broadcast(a, p)[i] = a[i] /\ V6Network(a, p)[i] = a[i]
    <3>1. i \in 1 .. V6Bytes + V6Scope /\ i # c /\ ~ (i <= V6Bytes)
      BY <1>2, <1>9, AddressConstants
    <3> QED BY <3>1, Zenon DEF V6Broadcast, V6Network
  <2> QED BY <2>1, Zenon DEF SameScope
<1> QED BY <1>5, <1>6, <1>7, <1>8, <1>9, <1>b, Zenon

\* The last call was one of those.
AskedOK == asked \in {[family |-> "none"]} \cup V4Calls \cup V6Calls \cup TextCalls

LEMMA AskedAlways == AddressSpec => []AskedOK
<1>1. AddressInit => AskedOK
  BY DEF AddressInit, AskedOK
<1>2. AskedOK /\ [AddressNext]_asked => AskedOK'
  BY Zenon DEF AddressNext, AskPrefix, AskText, AskedOK
<1> QED BY <1>1, <1>2, PTL DEF AddressSpec

\* broadcastAddress() and subnetMask() are the network's bit by bit, for every width
\* and every prefix from none to all bits (for IPv4 a prefix of 0 is taken as one of
\* all bits where 1 << 32 is 1) and for IPv6 up to the end of the scope id, which they
\* leave alone unless the prefix has all bits or more; networdAddress() is right just
\* where the bits it touches are all zero, or where it touches none.
THEOREM PrefixExactHolds == AddressSpec => []PrefixExact
<1>1. AskedOK => PrefixExact
  <2>1. ASSUME asked \in V4Calls PROVE PrefixExact
    <3>1. /\ asked.family = "IPv4" /\ asked.address \in 0 .. 2 ^ V4Bits - 1
          /\ asked.prefix_len \in 0 .. V4Bits
      BY <2>1 DEF V4Calls
    <3>2. asked.family # "IPv6"
      BY <3>1
    <3>a. PICK p \in 0 .. V4Bits, a \in 0 .. 2 ^ V4Bits - 1 :
            p = asked.prefix_len /\ a = asked.address
      BY <3>1, Zenon
    <3>b. PICK shifted : shifted = asked.shifted
      OBVIOUS
    <3>3. PICK q : q = IF p = 0 /\ shifted = 1 THEN V4Bits ELSE p
      OBVIOUS
    <3>4. /\ V4Bit(V4Broadcast(a, p, shifted)) = InNetwork(V4Bit(a), q, 1)
          /\ V4Bit(V4Subnet(p, shifted)) = Marked(V4Bit(a), q)
          /\ V4Bit(V4Network(a, p, shifted)) = InNetwork(V4Bit(a), p, 0) <=> q # p \/ a = 0
      BY <3>3, V4Exact
    <3> QED BY <3>a, <3>b, <3>2, <3>3, <3>4, Zenon DEF PrefixExact
  <2>2. ASSUME asked \in V6Calls PROVE PrefixExact
    <3>1. /\ asked.family = "IPv6"
          /\ asked.address \in [1 .. V6Bytes + V6Scope -> 0 .. 2 ^ V6Bits - 1]
          /\ asked.prefix_len \in Nat /\ asked.family # "IPv4"
      <4>1. PICK m \in Nat : m = V6Bits * (V6Bytes + V6Scope)
        BY AddressConstants
      <4>2. asked.prefix_len \in 0 .. m - 1
        BY <2>2, <4>1, Zenon DEF V6Calls
      <4> QED BY <2>2, <4>2 DEF V6Calls
    <3> QED BY <3>1, V6Exact, Zenon DEF PrefixExact
  <2>3. ASSUME asked \in TextCalls \/ asked = [family |-> "none"] PROVE PrefixExact
    <3>1. asked.family = "text" \/ asked.family = "none"
      BY <2>3 DEF TextCalls
    <3> QED BY <3>1 DEF PrefixExact
  <2> QED BY <2>1, <2>2, <2>3, Zenon DEF AskedOK
<1> QED BY <1>1, AskedAlways, PTL

\* What is written: groups and colons.
GroupText == Seq({0, 1, Colon})

LEMMA GroupTexts ==
    /\ <<>> \in GroupText /\ Colon \in {0, 1, Colon}
    /\ \A x \in {0, 1, Colon} : <<x>> \in GroupText
    /\ \A x, y \in {0, 1, Colon} : <<x, y>> \in GroupText
<1>1. ASSUME NEW D
      PROVE  /\ <<>> \in Seq(D)
             /\ \A x \in D : <<x>> \in Seq(D)
             /\ \A x, y \in D : <<x, y>> \in Seq(D)
  OBVIOUS
<1> QED BY <1>1, Zenon DEF GroupText

LEMMA GroupJoin ==
    ASSUME NEW s \in GroupText, NEW t \in GroupText, NEW u \in GroupText
    PROVE  /\ Join(s, t) \in GroupText
           /\ Join(Join(s, t), u) = Join(s, Join(t, u))
           /\ Join(s, <<>>) = s /\ Join(<<>>, s) = s
<1> DEFINE D == {0, 1, Colon}
<1>1. s \in Seq(D) /\ t \in Seq(D) /\ u \in Seq(D)
  BY Zenon DEF GroupText
<1> HIDE DEF D
<1>2. Join(s, t) \in Seq(D)
  BY <1>1, JoinFacts, Zenon
<1>3. Join(Join(s, t), u) = Join(s, Join(t, u))
  BY <1>1, JoinThree
<1>4. Join(s, <<>>) = s /\ Join(<<>>, s) = s
  BY <1>1, JoinEmpty, Zenon
<1> QED BY <1>2, <1>3, <1>4, Zenon DEF GroupText, D

\* Two side by side.
LEMMA JoinPair ==
    ASSUME NEW x \in {0, 1, Colon}, NEW y \in {0, 1, Colon}
    PROVE  Join(<<x>>, <<y>>) = <<x, y>>
<1> DEFINE D == {0, 1, Colon}
<1>1. <<x>> \in Seq(D) /\ Len(<<x>>) = 1 /\ <<x>>[1] = x
  OBVIOUS
<1>2. <<y>> \in Seq(D) /\ Len(<<y>>) = 1 /\ <<y>>[1] = y
  OBVIOUS
<1>3. /\ <<x, y>> \in Seq(D) /\ Len(<<x, y>>) = 1 + 1
      /\ <<x, y>>[1] = x /\ <<x, y>>[1 + 1] = y
  OBVIOUS
<1>4. \A i \in 1 .. 1 : i = 1
  OBVIOUS
<1> HIDE DEF D
<1>5. /\ \A i \in 1 .. Len(<<x>>) : <<x, y>>[i] = <<x>>[i]
      /\ \A i \in 1 .. Len(<<y>>) : <<x, y>>[Len(<<x>>) + i] = <<y>>[i]
      /\ Len(<<x, y>>) = Len(<<x>>) + Len(<<y>>)
  BY <1>1, <1>2, <1>3, <1>4, Zenon
<1> QED BY <1>1, <1>2, <1>3, <1>5, JoinIs, Zenon

GroupsOK(g) == g \in [1 .. V6Groups -> {0, 1}]

\* The groups from i on, one more at a time.
LEMMA JoinedFacts ==
    ASSUME NEW g, GroupsOK(g), NEW i \in 1 .. V6Groups + 1
    PROVE  /\ \A j \in 0 .. V6Groups : i > j => Joined(g, i, j) = <<>>
           /\ i <= V6Groups => Joined(g, i, i) = <<g[i]>>
           /\ \A j \in i .. V6Groups - 1 :
                Joined(g, i, j + 1) = Join(Joined(g, i, j), <<Colon, g[j + 1]>>)
           /\ \A j \in 0 .. V6Groups : Joined(g, i, j) \in GroupText
<1> DEFINE J(j) == [k \in 1 .. (IF i > j THEN 0 ELSE j - i + 1) |->
                      IF k = 1 THEN <<g[i]>> ELSE <<Colon, g[i + k - 1]>>]
<1>0. V6Groups \in Nat
  BY AddressConstants
<1>1. \A j : Joined(g, i, j) = FlattenSeq(J(j))
  BY Zenon DEF Joined
<1>2. ASSUME NEW j \in 0 .. V6Groups, i > j PROVE J(j) = <<>>
  BY <1>2
<1>3. ASSUME i <= V6Groups PROVE J(i) = <<<<g[i]>>>>
  <2>1. J(i) = [k \in 1 .. 1 |-> <<g[i]>>]
    <3>1. (IF i > i THEN 0 ELSE i - i + 1) = 1
      OBVIOUS
    <3>2. \A k \in 1 .. 1 : k = 1
      OBVIOUS
    <3>3. J(i) = [k \in 1 .. 1 |-> IF k = 1 THEN <<g[i]>> ELSE <<Colon, g[i + k - 1]>>]
      BY <3>1, Zenon
    <3> QED BY <3>2, <3>3
  <2> QED BY <2>1
<1>4. ASSUME NEW j \in i .. V6Groups
      PROVE  J(j) \in Seq(GroupText) /\ Len(J(j)) = j - i + 1
  <2>1. (IF i > j THEN 0 ELSE j - i + 1) = j - i + 1 /\ j - i + 1 \in Nat
    BY <1>0
  <2>2. ASSUME NEW k \in 1 .. j - i + 1
        PROVE  (IF k = 1 THEN <<g[i]>> ELSE <<Colon, g[i + k - 1]>>) \in GroupText
    <3>1. i + k - 1 \in 1 .. V6Groups /\ i \in 1 .. V6Groups
      BY <1>0, <2>2
    <3>2. g[i + k - 1] \in {0, 1, Colon} /\ g[i] \in {0, 1, Colon} /\ Colon \in {0, 1, Colon}
      BY <3>1 DEF GroupsOK
    <3> QED BY <3>2, GroupTexts, Zenon
  <2>3. J(j) = [k \in 1 .. j - i + 1 |-> IF k = 1 THEN <<g[i]>> ELSE <<Colon, g[i + k - 1]>>]
    BY <2>1, Zenon
  <2>4. J(j) \in [1 .. j - i + 1 -> GroupText]
    BY <2>2, <2>3
  <2> HIDE DEF J
  <2> QED BY <2>1, <2>4, SeqFromFunction
<1>5. ASSUME NEW j \in i .. V6Groups - 1
      PROVE  J(j + 1) = Append(J(j), <<Colon, g[j + 1]>>)
  <2>1. /\ (IF i > j THEN 0 ELSE j - i + 1) = j - i + 1
        /\ (IF i > j + 1 THEN 0 ELSE (j + 1) - i + 1) = j - i + 1 + 1
        /\ j - i + 1 \in Nat /\ j \in i .. V6Groups
    BY <1>0
  <2>2. PICK l \in Nat : l = j - i + 1
    BY <2>1
  <2>3. /\ J(j + 1) = [k \in 1 .. l + 1 |-> IF k = 1 THEN <<g[i]>> ELSE <<Colon, g[i + k - 1]>>]
        /\ J(j) = [k \in 1 .. l |-> IF k = 1 THEN <<g[i]>> ELSE <<Colon, g[i + k - 1]>>]
    BY <2>1, <2>2, Zenon
  <2>4. Len(J(j)) = l
    BY <1>4, <2>1, <2>2
  <2>5. l + 1 # 1 /\ i + (l + 1) - 1 = j + 1
    BY <2>1, <2>2
  <2>6. Append(J(j), <<Colon, g[j + 1]>>)
          = [k \in 1 .. l + 1 |-> IF k <= l THEN J(j)[k] ELSE <<Colon, g[j + 1]>>]
    <3> HIDE DEF J
    <3>1. J(j) \in Seq(GroupText)
      BY <1>4, <2>1
    <3> QED BY <2>4, <3>1
  <2>7. ASSUME NEW k \in 1 .. l + 1
        PROVE  (IF k = 1 THEN <<g[i]>> ELSE <<Colon, g[i + k - 1]>>)
                 = IF k <= l THEN J(j)[k] ELSE <<Colon, g[j + 1]>>
    <3>1. CASE k <= l
      <4>1. k \in 1 .. l
        BY <3>1
      <4>2. J(j)[k] = IF k = 1 THEN <<g[i]>> ELSE <<Colon, g[i + k - 1]>>
        BY <2>3, <4>1, Zenon
      <4> QED BY <3>1, <4>2, Zenon
    <3>2. CASE ~ (k <= l)
      <4>1. k = l + 1
        BY <3>2
      <4> QED BY <2>5, <3>2, <4>1, Zenon
    <3> QED BY <3>1, <3>2
  <2>8. [k \in 1 .. l + 1 |-> IF k = 1 THEN <<g[i]>> ELSE <<Colon, g[i + k - 1]>>]
          = [k \in 1 .. l + 1 |-> IF k <= l THEN J(j)[k] ELSE <<Colon, g[j + 1]>>]
    <3> HIDE DEF J
    <3> QED BY <2>7, Zenon
  <2> HIDE DEF J
  <2> QED BY <2>3, <2>6, <2>8, Zenon
<1> HIDE DEF J
<1>6. ASSUME NEW j \in i .. V6Groups PROVE FlattenSeq(J(j)) \in GroupText
  <2>1. <<>> \in GroupText
    BY GroupTexts, Zenon
  <2> QED BY <1>4, <2>1, FlattenJoin, Zenon DEF GroupText
<1>7. ASSUME NEW j \in 0 .. V6Groups, i > j PROVE Joined(g, i, j) = <<>>
  BY <1>1, <1>2, <1>7, FlattenNone
<1>8. ASSUME NEW j \in 0 .. V6Groups PROVE Joined(g, i, j) \in GroupText
  <2>1. <<>> \in GroupText
    BY GroupTexts, Zenon
  <2>2. CASE i > j
    BY <1>7, <2>1, <2>2
  <2>3. CASE ~ (i > j)
    <3>1. j \in i .. V6Groups
      BY <2>3
    <3> QED BY <1>1, <1>6, <3>1
  <2> QED BY <2>2, <2>3
<1>9. ASSUME i <= V6Groups PROVE Joined(g, i, i) = <<g[i]>>
  <2>1. <<g[i]>> \in GroupText
    <3>1. g[i] \in {0, 1, Colon}
      BY <1>9 DEF GroupsOK
    <3> QED BY <3>1, GroupTexts, Zenon
  <2>2. FlattenSeq(<<<<g[i]>>>>) = <<g[i]>>
    BY <2>1, FlattenOne DEF GroupText
  <2> QED BY <1>1, <1>3, <1>9, <2>2
<1>10. ASSUME NEW j \in i .. V6Groups - 1
       PROVE  Joined(g, i, j + 1) = Join(Joined(g, i, j), <<Colon, g[j + 1]>>)
  <2>1. j \in i .. V6Groups /\ j + 1 \in 1 .. V6Groups
    BY <1>0
  <2>2. <<Colon, g[j + 1]>> \in GroupText
    <3>1. g[j + 1] \in {0, 1, Colon} /\ Colon \in {0, 1, Colon}
      BY <2>1 DEF GroupsOK
    <3> QED BY <3>1, GroupTexts, Zenon
  <2>3. FlattenSeq(Append(J(j), <<Colon, g[j + 1]>>)) = Join(FlattenSeq(J(j)), <<Colon, g[j + 1]>>)
    BY <1>4, <2>1, <2>2, FlattenJoin, Zenon DEF GroupText
  <2> QED BY <1>1, <1>5, <2>3, Zenon
<1> QED BY <1>7, <1>8, <1>9, <1>10

\* What the loop of insert() keeps: the groups so far, without zeros at the end as
\* long as none was left out; or those before the run of zeros and those behind it.
SoFar(at, g, i) ==
    \/ /\ ~ at.used_zeros
       /\ \E m \in 0 .. i :
             /\ at.out = Joined(g, 1, m)
             /\ m > 0 => g[m] # 0
             /\ \A k \in m + 1 .. i : g[k] = 0
    \/ /\ at.used_zeros
       /\ \E y, z \in 1 .. i :
             /\ y <= z /\ z < i /\ \A k \in y .. z : g[k] = 0
             /\ at.out = Join(Join(Joined(g, 1, y - 1), <<Colon, Colon>>), Joined(g, z + 1, i))

InsertStates == [out : GroupText, used_zeros : BOOLEAN]

\* A text with one more colon and one more group.
LEMMA ColonGroup ==
    ASSUME NEW s \in GroupText, NEW x \in {0, 1, Colon}
    PROVE  Join(Join(s, <<Colon>>), <<x>>) = Join(s, <<Colon, x>>)
<1>1. PICK t \in GroupText : t = <<Colon>>
  BY GroupTexts, Zenon
<1>2. PICK u \in GroupText : u = <<x>>
  BY GroupTexts, Zenon
<1>3. Join(t, u) = <<Colon, x>>
  BY <1>1, <1>2, GroupTexts, JoinPair, Zenon
<1>4. Join(Join(s, t), u) = Join(s, Join(t, u))
  BY GroupJoin
<1> QED BY <1>1, <1>2, <1>3, <1>4, Zenon

\* A turn of the loop.
LEMMA InsertTurn ==
    ASSUME NEW g, GroupsOK(g), NEW i \in 1 .. V6Groups, NEW at \in InsertStates
    PROVE  /\ InsertGroup(at, g, i) \in InsertStates
           /\ SoFar(at, g, i - 1) => SoFar(InsertGroup(at, g, i), g, i)
<1> DEFINE gap == i > 1 /\ g[i - 1] = 0 /\ ~ at.used_zeros
           a == IF gap THEN <<Colon>> ELSE <<>>
           b == IF i > 1 THEN <<Colon>> ELSE <<>>
           c == <<g[i]>>
           to == InsertGroup(at, g, i)
<1>0. V6Groups \in Nat
  BY AddressConstants
<1>1. at.out \in GroupText /\ at.used_zeros \in BOOLEAN
  BY DEF InsertStates
<1>2. a \in GroupText /\ b \in GroupText /\ c \in GroupText
      /\ g[i] \in {0, 1, Colon}
  <2>1. g[i] \in {0, 1, Colon}
    BY DEF GroupsOK
  <2> QED BY <2>1, GroupTexts, Zenon
<1> HIDE DEF a, b, c, to
<1>3. to = IF g[i] = 0 /\ ~ at.used_zeros THEN at
           ELSE [out |-> Join(Join(Join(at.out, a), b), c), used_zeros |-> at.used_zeros \/ gap]
  BY Zenon DEF InsertGroup, Join, a, b, c, to
<1>4. Join(Join(Join(at.out, a), b), c) \in GroupText
  BY <1>1, <1>2, GroupJoin, Zenon
<1>5. to \in InsertStates
  <2>1. (at.used_zeros \/ gap) \in BOOLEAN
    OBVIOUS
  <2>2. CASE g[i] = 0 /\ ~ at.used_zeros
    BY <1>3, <2>2, Zenon
  <2>3. CASE ~ (g[i] = 0 /\ ~ at.used_zeros)
    <3>1. to = [out |-> Join(Join(Join(at.out, a), b), c), used_zeros |-> at.used_zeros \/ gap]
      BY <1>3, <2>3, Zenon
    <3> HIDE DEF gap
    <3> QED BY <1>4, <2>1, <3>1, Zenon DEF InsertStates
  <2> QED BY <2>2, <2>3
<1>6. ASSUME SoFar(at, g, i - 1), at.used_zeros PROVE SoFar(to, g, i)
  <2>1. PICK y \in 1 .. i - 1, z \in 1 .. i - 1 :
          /\ y <= z /\ z < i - 1 /\ \A k \in y .. z : g[k] = 0
          /\ at.out = Join(Join(Joined(g, 1, y - 1), <<Colon, Colon>>), Joined(g, z + 1, i - 1))
    BY <1>6, Zenon DEF SoFar
  <2>2. ~ gap /\ i > 1 /\ y \in 1 .. i /\ z \in 1 .. i /\ z < i
    BY <1>6, <2>1
  <2>3. to = [out |-> Join(Join(Join(at.out, <<>>), <<Colon>>), c), used_zeros |-> TRUE]
    <3>1. a = <<>> /\ b = <<Colon>>
      BY <2>2, Zenon DEF a, b
    <3>2. (at.used_zeros \/ gap) = TRUE
      BY <1>6, <2>2
    <3> QED BY <1>3, <1>6, <3>1, <3>2, Zenon
  <2> DEFINE p == Join(Joined(g, 1, y - 1), <<Colon, Colon>>)
             q == Joined(g, z + 1, i - 1)
  <2>4. <<Colon>> \in GroupText /\ <<Colon, Colon>> \in GroupText /\ <<Colon, g[i]>> \in GroupText
    BY <1>2, GroupTexts
  <2>5. p \in GroupText /\ q \in GroupText
    <3>1. 1 \in 1 .. V6Groups + 1 /\ y - 1 \in 0 .. V6Groups
      BY <1>0, <2>1
    <3>2. z + 1 \in 1 .. V6Groups + 1 /\ i - 1 \in 0 .. V6Groups
      BY <1>0, <2>1
    <3>3. Joined(g, 1, y - 1) \in GroupText /\ q \in GroupText
      BY <3>1, <3>2, JoinedFacts
    <3> QED BY <2>4, <3>3, GroupJoin, Zenon
  <2>6. Join(<<Colon>>, c) = <<Colon, g[i]>>
    BY <1>2, GroupTexts, JoinPair, Zenon DEF c
  <2>7. Join(q, <<Colon, g[i]>>) = Joined(g, z + 1, i)
    <3>1. z + 1 \in 1 .. V6Groups + 1 /\ i - 1 \in z + 1 .. V6Groups - 1 /\ (i - 1) + 1 = i
      BY <1>0, <2>1
    <3>2. Joined(g, z + 1, (i - 1) + 1) = Join(Joined(g, z + 1, i - 1), <<Colon, g[(i - 1) + 1]>>)
      BY <3>1, JoinedFacts
    <3> QED BY <3>1, <3>2, Zenon
  <2> HIDE DEF p, q
  <2>8. at.out = Join(p, q)
    BY <2>1, Zenon DEF p, q
  <2>9. Join(Join(Join(at.out, <<>>), <<Colon>>), c) = Join(p, Joined(g, z + 1, i))
    <3>1. Join(at.out, <<>>) = at.out
      BY <1>1, GroupJoin, Zenon
    <3>2. Join(Join(at.out, <<Colon>>), c) = Join(at.out, <<Colon, g[i]>>)
      BY <1>1, <1>2, ColonGroup, Zenon DEF c
    <3>3. Join(Join(p, q), <<Colon, g[i]>>) = Join(p, Joined(g, z + 1, i))
      BY <2>4, <2>5, <2>7, GroupJoin
    <3> QED BY <2>8, <3>1, <3>2, <3>3, Zenon
  <2>10. to.used_zeros /\ to.out = Join(p, Joined(g, z + 1, i))
    BY <2>3, <2>9, Zenon
  <2> QED BY <2>1, <2>2, <2>10, Zenon DEF SoFar, p
<1>7. ASSUME SoFar(at, g, i - 1), ~ at.used_zeros PROVE SoFar(to, g, i)
  <2>1. PICK m \in 0 .. i - 1 :
          /\ at.out = Joined(g, 1, m)
          /\ m > 0 => g[m] # 0
          /\ \A k \in m + 1 .. i - 1 : g[k] = 0
    BY <1>7, Zenon DEF SoFar
  <2>2. CASE g[i] = 0
    <3>1. to = at
      BY <1>3, <1>7, <2>2, Zenon
    <3>2. m \in 0 .. i
      BY <2>1
    <3>3. ASSUME NEW k \in m + 1 .. i PROVE g[k] = 0
      <4>1. k = i \/ k \in m + 1 .. i - 1
        OBVIOUS
      <4> QED BY <2>1, <2>2, <4>1
    <3> QED BY <1>7, <2>1, <3>1, <3>2, <3>3, Zenon DEF SoFar
  <2>3. CASE g[i] # 0 /\ gap
    <3>1. m < i - 1
      <4>1. m = i - 1 => m > 0 /\ g[m] = 0
        BY <2>3
      <4>2. m # i - 1
        BY <2>1, <4>1, Zenon
      <4> QED BY <4>2
    <3>2. to = [out |-> Join(Join(Join(at.out, <<Colon>>), <<Colon>>), c), used_zeros |-> TRUE]
      <4>1. a = <<Colon>> /\ b = <<Colon>>
        BY <2>3, Zenon DEF a, b
      <4>2. (at.used_zeros \/ gap) = TRUE
        BY <2>3
      <4> QED BY <1>3, <2>3, <4>1, <4>2, Zenon
    <3>3. <<Colon>> \in GroupText /\ <<Colon, Colon>> \in GroupText
          /\ Join(<<Colon>>, <<Colon>>) = <<Colon, Colon>>
      BY GroupTexts, JoinPair, Zenon
    <3>4. Join(Join(Join(at.out, <<Colon>>), <<Colon>>), c) = Join(Join(at.out, <<Colon, Colon>>), c)
      BY <1>1, GroupTexts, ColonGroup, Zenon
    <3>5. c = Joined(g, (i - 1) + 1, i)
      <4>1. (i - 1) + 1 = i /\ i \in 1 .. V6Groups + 1 /\ i <= V6Groups
        BY <1>0
      <4>2. Joined(g, i, i) = <<g[i]>>
        BY <4>1, JoinedFacts
      <4> QED BY <4>1, <4>2, Zenon DEF c
    <3> DEFINE y == m + 1
               z == i - 1
    <3>6. /\ y \in 1 .. i /\ z \in 1 .. i /\ y <= z /\ z < i /\ y - 1 = m
      BY <2>1, <3>1
    <3>7. \A k \in y .. z : g[k] = 0
      BY <2>1, Zenon
    <3>8. to.used_zeros
          /\ to.out = Join(Join(Joined(g, 1, y - 1), <<Colon, Colon>>), Joined(g, z + 1, i))
      BY <2>1, <3>2, <3>4, <3>5, <3>6, Zenon
    <3> HIDE DEF y, z
    <3> QED BY <3>6, <3>7, <3>8, Zenon DEF SoFar
  <2>4. CASE g[i] # 0 /\ ~ gap
    <3>1. m = i - 1
      <4>1. CASE i = 1
        BY <4>1
      <4>2. CASE i > 1
        <5>1. g[i - 1] # 0
          BY <1>7, <2>4, <4>2
        <5>2. i - 1 \in m + 1 .. i - 1 \/ m = i - 1
          BY <4>2
        <5> QED BY <2>1, <5>1, <5>2, Zenon
      <4> QED BY <4>1, <4>2
    <3>2. to = [out |-> Join(Join(Join(at.out, <<>>), b), c), used_zeros |-> FALSE]
      <4>1. a = <<>>
        BY <2>4, Zenon DEF a
      <4>2. (at.used_zeros \/ gap) = FALSE
        BY <1>7, <2>4
      <4> QED BY <1>3, <2>4, <4>1, <4>2, Zenon
    <3>3. Join(at.out, <<>>) = at.out
      BY <1>1, GroupJoin, Zenon
    <3>4. Join(Join(at.out, b), c) = Joined(g, 1, i)
      <4>1. CASE i = 1
        <5>1. b = <<>> /\ m = 0
          BY <3>1, <4>1 DEF b
        <5>2. 1 \in 1 .. V6Groups + 1 /\ 0 \in 0 .. V6Groups /\ 1 > 0 /\ 1 <= V6Groups
          BY <1>0
        <5>3. Joined(g, 1, 0) = <<>> /\ Joined(g, 1, 1) = <<g[1]>>
          BY <5>2, JoinedFacts
        <5>4. at.out = <<>>
          BY <2>1, <5>1, <5>3, Zenon
        <5>5. Join(<<>>, <<>>) = <<>> /\ Join(<<>>, c) = c
          <6>1. <<>> \in Seq({0, 1, Colon}) /\ c \in Seq({0, 1, Colon})
            BY <1>2, GroupTexts DEF GroupText
          <6> QED BY <6>1, JoinEmpty, Zenon
        <5> QED BY <4>1, <5>1, <5>3, <5>4, <5>5, Zenon DEF c
      <4>2. CASE i > 1
        <5>1. b = <<Colon>>
          BY <4>2, Zenon DEF b
        <5>2. <<Colon>> \in GroupText /\ Join(<<Colon>>, c) = <<Colon, g[i]>>
          BY <1>2, GroupTexts, JoinPair, Zenon DEF c
        <5>3. Join(Join(at.out, <<Colon>>), c) = Join(at.out, <<Colon, g[i]>>)
          BY <1>1, <1>2, ColonGroup, Zenon DEF c
        <5>4. 1 \in 1 .. V6Groups + 1 /\ i - 1 \in 1 .. V6Groups - 1 /\ (i - 1) + 1 = i
          BY <1>0, <4>2
        <5>5. Joined(g, 1, (i - 1) + 1) = Join(Joined(g, 1, i - 1), <<Colon, g[(i - 1) + 1]>>)
          BY <5>4, JoinedFacts
        <5> QED BY <2>1, <3>1, <5>1, <5>3, <5>4, <5>5, Zenon
      <4>3. i = 1 \/ i > 1
        OBVIOUS
      <4> QED BY <4>1, <4>2, <4>3
    <3>5. ~ to.used_zeros /\ to.out = Joined(g, 1, i)
      BY <3>2, <3>3, <3>4, Zenon
    <3>6. i \in 0 .. i /\ \A k \in i + 1 .. i : g[k] = 0
      OBVIOUS
    <3> QED BY <2>4, <3>5, <3>6, Zenon DEF SoFar
  <2> QED BY <2>2, <2>3, <2>4, Zenon
<1> QED BY <1>5, <1>6, <1>7 DEF to

FirstInsert == [out |-> <<>>, used_zeros |-> FALSE]

\* Where the loop of insert() ends.
LEMMA InsertLoop ==
    ASSUME NEW g, GroupsOK(g)
    PROVE  \E at \in InsertStates :
             /\ SoFar(at, g, V6Groups)
             /\ Text(g) = IF ~ at.used_zeros /\ g[V6Groups] = 0
                          THEN Join(at.out, <<Colon, Colon>>) ELSE at.out
<1>1. PICK n \in Nat : n = V6Groups
  BY AddressConstants
<1> DEFINE F == [k \in 1 .. n |-> [at \in InsertStates |-> InsertGroup(at, g, k)]]
           E(f) == f = [k \in 0 .. V6Groups |->
                          IF k = 0 THEN FirstInsert ELSE InsertGroup(f[k - 1], g, k)]
           after == CHOOSE f : E(f)
<1>2. /\ \A k \in 1 .. n, at \in InsertStates : InsertGroup(at, g, k) \in InsertStates
      /\ \A k \in 1 .. n, at \in InsertStates :
            SoFar(at, g, k - 1) => SoFar(InsertGroup(at, g, k), g, k)
  BY <1>1, InsertTurn
<1>3. F \in [1 .. n -> [InsertStates -> InsertStates]]
      /\ \A k \in 1 .. n, at \in InsertStates : F[k][at] = InsertGroup(at, g, k)
  BY <1>2
<1>4. FirstInsert \in InsertStates /\ SoFar(FirstInsert, g, 0)
  <2>1. <<>> \in GroupText /\ FALSE \in BOOLEAN
    BY GroupTexts, Zenon
  <2>2. FirstInsert.out = <<>> /\ ~ FirstInsert.used_zeros
    BY DEF FirstInsert
  <2>3. FirstInsert \in InsertStates
    BY <2>1, Zenon DEF FirstInsert, InsertStates
  <2>4. Joined(g, 1, 0) = <<>>
    <3>1. 1 \in 1 .. V6Groups + 1 /\ 0 \in 0 .. V6Groups /\ 1 > 0
      BY AddressConstants
    <3> QED BY <3>1, JoinedFacts
  <2>5. 0 \in 0 .. 0 /\ ~ (0 > 0) /\ \A k \in 0 + 1 .. 0 : g[k] = 0
    OBVIOUS
  <2> QED BY <2>2, <2>3, <2>4, <2>5, Zenon DEF SoFar
<1> HIDE DEF F
<1>5. \E f \in [0 .. n -> InsertStates] : Stepwise(n, FirstInsert, F, f)
  BY <1>3, <1>4, StepByStep, Zenon
<1>6. PICK f \in [0 .. n -> InsertStates] :
        f[0] = FirstInsert /\ \A k \in 1 .. n : f[k] = F[k][f[k - 1]]
  BY <1>5, Zenon DEF Stepwise
<1>7. E(f)
  <2>1. ASSUME NEW k \in 0 .. n
        PROVE  f[k] = IF k = 0 THEN FirstInsert ELSE InsertGroup(f[k - 1], g, k)
    <3>1. CASE k = 0
      BY <1>6, <3>1
    <3>2. CASE k # 0
      <4>1. k \in 1 .. n /\ k - 1 \in 0 .. n
        BY <3>2
      <4>2. f[k - 1] \in InsertStates
        BY <4>1
      <4> QED BY <1>3, <1>6, <3>2, <4>1, <4>2, Zenon
    <3> QED BY <3>1, <3>2
  <2> QED BY <1>1, <2>1
<1>8. E(after)
  <2> HIDE DEF E
  <2> QED BY <1>7, Zenon
<1>9. \A k \in 0 .. n : after[k] = IF k = 0 THEN FirstInsert ELSE InsertGroup(after[k - 1], g, k)
  <2> HIDE DEF after
  <2> QED BY <1>1, <1>8, Zenon
<1>10. Text(g) = IF ~ after[n].used_zeros /\ g[V6Groups] = 0
                 THEN Join(after[n].out, <<Colon, Colon>>) ELSE after[n].out
  <2>1. Text(g) = IF ~ after[V6Groups].used_zeros /\ g[V6Groups] = 0
                  THEN Join(after[V6Groups].out, <<Colon, Colon>>) ELSE after[V6Groups].out
    BY Zenon DEF Text, Join, FirstInsert
  <2> HIDE DEF after
  <2> QED BY <1>1, <2>1, Zenon
<1> HIDE DEF after, E
<1>11. after[n] \in InsertStates /\ SoFar(after[n], g, n)
  <2> DEFINE A == {k \in 0 .. n : after[k] \in InsertStates /\ SoFar(after[k], g, k)}
  <2>1. 0 \in A
    <3>1. 0 \in 0 .. n
      OBVIOUS
    <3>2. after[0] = FirstInsert
      BY <1>9, <3>1, Zenon
    <3> QED BY <1>4, <3>1, <3>2, Zenon
  <2>2. ASSUME NEW k \in 0 .. n - 1, k \in A PROVE k + 1 \in A
    <3>1. k + 1 \in 1 .. n /\ k + 1 \in 0 .. n /\ (k + 1) - 1 = k /\ k + 1 # 0
      OBVIOUS
    <3>2. after[k + 1] = InsertGroup(after[k], g, k + 1)
      BY <1>9, <3>1, Zenon
    <3>3. after[k] \in InsertStates /\ SoFar(after[k], g, k)
      BY <2>2, Zenon
    <3>4. after[k + 1] \in InsertStates /\ SoFar(after[k + 1], g, k + 1)
      BY <1>2, <3>1, <3>2, <3>3, Zenon
    <3> QED BY <3>1, <3>4, Zenon
  <2>3. \A k \in 0 .. n : k \in A
    <3> HIDE DEF A
    <3> QED BY <2>1, <2>2, CountingTo
  <2>4. n \in 0 .. n
    OBVIOUS
  <2> QED BY <2>3, <2>4, Zenon
<1> QED BY <1>1, <1>10, <1>11, Zenon

LEMMA TextDenotes ==
    ASSUME NEW g, GroupsOK(g)
    PROVE  Denotes(Text(g), g)
<1>0. V6Groups \in Nat \ {0}
  BY AddressConstants
<1>1. PICK at \in InsertStates :
        /\ SoFar(at, g, V6Groups)
        /\ Text(g) = IF ~ at.used_zeros /\ g[V6Groups] = 0
                     THEN Join(at.out, <<Colon, Colon>>) ELSE at.out
  BY InsertLoop
<1>2. CASE at.used_zeros
  <2>1. Text(g) = at.out
    BY <1>1, <1>2, Zenon
  <2>2. PICK y \in 1 .. V6Groups, z \in 1 .. V6Groups :
          /\ y <= z /\ z < V6Groups /\ \A k \in y .. z : g[k] = 0
          /\ at.out = Join(Join(Joined(g, 1, y - 1), <<Colon, Colon>>), Joined(g, z + 1, V6Groups))
    BY <1>1, <1>2, Zenon DEF SoFar
  <2> QED BY <2>1, <2>2, Zenon DEF Denotes, Join
<1>3. CASE ~ at.used_zeros
  <2>1. PICK m \in 0 .. V6Groups :
          /\ at.out = Joined(g, 1, m)
          /\ m > 0 => g[m] # 0
          /\ \A k \in m + 1 .. V6Groups : g[k] = 0
    BY <1>1, <1>3, Zenon DEF SoFar
  <2>2. CASE g[V6Groups] = 0
    <3>1. m < V6Groups
      <4>1. V6Groups > 0
        BY <1>0
      <4>2. m # V6Groups
        BY <2>1, <2>2, <4>1, Zenon
      <4> QED BY <1>0, <4>2
    <3> DEFINE y == m + 1
    <3>2. y \in 1 .. V6Groups /\ V6Groups \in 1 .. V6Groups /\ y <= V6Groups /\ y - 1 = m
      BY <1>0, <3>1
    <3>3. \A k \in y .. V6Groups : g[k] = 0
      BY <2>1, Zenon
    <3>4. Joined(g, V6Groups + 1, V6Groups) = <<>>
      <4>1. V6Groups + 1 \in 1 .. V6Groups + 1 /\ V6Groups \in 0 .. V6Groups
            /\ V6Groups + 1 > V6Groups
        BY <1>0
      <4> QED BY <4>1, JoinedFacts
    <3>5. Text(g) = Join(Join(Joined(g, 1, y - 1), <<Colon, Colon>>), Joined(g, V6Groups + 1, V6Groups))
      <4>1. Text(g) = Join(Joined(g, 1, y - 1), <<Colon, Colon>>)
        BY <1>1, <1>3, <2>1, <2>2, <3>2, Zenon
      <4>2. Join(Joined(g, 1, y - 1), <<Colon, Colon>>) \in GroupText
        <5>1. 1 \in 1 .. V6Groups + 1 /\ y - 1 \in 0 .. V6Groups
          BY <1>0, <3>2
        <5>2. Joined(g, 1, y - 1) \in GroupText
          BY <5>1, JoinedFacts
        <5>3. <<Colon, Colon>> \in GroupText
          BY GroupTexts, Zenon
        <5> QED BY <5>2, <5>3, GroupJoin
      <4> QED BY <3>4, <4>1, <4>2, GroupJoin, Zenon
    <3> HIDE DEF y
    <3> QED BY <3>2, <3>3, <3>5, Zenon DEF Denotes, Join
  <2>3. CASE g[V6Groups] # 0
    <3>1. m = V6Groups
      <4>1. V6Groups \in m + 1 .. V6Groups \/ m = V6Groups
        BY <1>0
      <4> QED BY <2>1, <2>3, <4>1, Zenon
    <3>2. Text(g) = Joined(g, 1, V6Groups)
      BY <1>1, <2>1, <2>3, <3>1, Zenon
    <3> QED BY <3>2, Zenon DEF Denotes
  <2> QED BY <2>2, <2>3, Zenon
<1> QED BY <1>2, <1>3, Zenon

\* insert() writes what denotes the address, however many groups it has and wherever
\* its zeros are.
THEOREM TextExactHolds == AddressSpec => []TextExact
<1>1. AskedOK => TextExact
  <2>1. ASSUME asked \in TextCalls PROVE TextExact
    <3>1. GroupsOK(asked.groups)
      BY <2>1 DEF TextCalls, GroupsOK
    <3> QED BY <3>1, TextDenotes, Zenon DEF TextExact
  <2>2. ASSUME asked \in V4Calls \cup V6Calls \/ asked = [family |-> "none"] PROVE TextExact
    <3>1. asked.family # "text"
      BY <2>2 DEF V4Calls, V6Calls
    <3> QED BY <3>1, Zenon DEF TextExact
  <2> QED BY <2>1, <2>2, Zenon DEF AskedOK
<1> QED BY <1>1, AskedAlways, PTL
=============================================================================
