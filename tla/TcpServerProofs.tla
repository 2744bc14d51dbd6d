-------------------------- MODULE TcpServerProofs ---------------------------
(***************************************************************************)
(* TcpServer owns its descriptors, keeps the asserts on a connection's way *)
(* through the loops and spreads the connections evenly, for any number of *)
(* threads, clients and descriptors.                                       *)
(***************************************************************************)
EXTENDS TcpServer, TLAPS, FiniteSetTheorems, WellFoundedInduction

Known == 1..(nextConnId - 1)

(* Where the threads are.  The base loop never quits; the others only in   *)
(* ~TcpServer.  A round's functors are all run when it ends.               *)
LoopInv ==
    /\ pc[Base] \notin {"none", "callback", "published", "exited"} /\ ~quit[Base]
    /\ server = "dtor" <=> pc[Base] \in {"dtor", "join"}
    /\ pc[Base] = "start" => started
    /\ (pc[Base] = "start" \/ ~started) => ~listenning /\ nextConnId = 1
    /\ pc[Base] = "join" => joined < Len(loops)
    /\ joined <= Len(loops)
    /\ \A l \in Loops : /\ pc[l] # "run" => batch[l] = <<>>
                        /\ pc[l] = "exited" \/ quit[l] => server # "up"
    /\ \A i \in 1..Len(loops) : loops[i] = i
    /\ \A l \in Loops : Bound(batch[l]) \subseteq held[l]

(* What is not accepted yet is nowhere; a connection's descriptor is none  *)
(* of the acceptor's.                                                      *)
KnownInv ==
    /\ connections \subseteq Known /\ registered \subseteq Known /\ destroyed \subseteq Known
    /\ \A c \in Known : conn[c].fd \notin {listenFd, idleFd}
    /\ backlog + nextConnId <= MaxConns + 1

FdInv ==
    /\ open = {conn[c].fd : c \in Live}
              \union (IF server = "gone" THEN {} ELSE {listenFd, idleFd})
    /\ \A c, d \in Live : conn[c].fd = conn[d].fd => c = d

(* The functors a loop still has to run.                                   *)
Todo == [l \in Loops |-> batch[l] \o queue[l]]

Has(s, x) == \E i \in 1..Len(s) : s[i] = x

Once(s) == \A i, j \in 1..Len(s) : s[i] = s[j] => i = j

(* A connection is established before it is destroyed.                     *)
Early(s) ==
    \A i, j \in 1..Len(s) :
        s[i][1] = "connectEstablished" /\ s[j][1] = "connectDestroyed" /\ s[i][2] = s[j][2]
            => i < j

Waits(l, f, c) == Has(Todo[l], <<f, c>>)

(* A functor is on the loop of its connection, or is for the base loop to  *)
(* remove the connection.                                                  *)
TodoInv ==
    /\ \A l \in Loops : Once(Todo[l]) /\ Early(Todo[l])
    /\ \A l \in Loops, c \in Conns :
          /\ \A f \in Functors : Waits(l, f, c) => c \in Known
          /\ Waits(l, "connectEstablished", c) => conn[c].loop = l
          /\ Waits(l, "connectDestroyed", c) => conn[c].loop = l
          /\ Waits(l, "removeConnectionInLoop", c) =>
                l = Base /\ conn[c].state = "kDisconnected"

(* A connection whose loop runs: it waits to be established while it is    *)
(* kConnecting, and to be destroyed once it is out of connections_ and     *)
(* still to be established or in its poller.                               *)
Lives(c) ==
    LET l == conn[c].loop
        s == conn[c].state
    IN  /\ s # "none"
        /\ Waits(l, "connectEstablished", c) <=> s = "kConnecting"
        /\ s = "kConnecting" => c \notin registered /\ l # Base
        /\ s = "kConnected" => c \in registered
        /\ s = "kDisconnecting" /\ server = "up" => c \in registered
        /\ Waits(l, "connectDestroyed", c) <=>
              c \notin connections /\ (c \in registered \/ s = "kConnecting")
        /\ c \in connections => c \in registered \/ s = "kConnecting"
        /\ c \notin connections /\ server = "up" => s = "kDisconnected"
        /\ server = "up" /\ Waits(Base, "removeConnectionInLoop", c) =>
              c \in connections /\ s = "kDisconnected"
        /\ server # "up" /\ l = Base /\ c \in registered => s = "kDisconnected"
        /\ c \in destroyed => c \notin connections /\ c \notin registered /\ s # "kConnecting"

LifeInv ==
    /\ failed \subseteq {"isNoneEvent"}
    /\ server # "up" => connections = {}
    /\ \A c \in Known : pc[conn[c].loop] # "exited" => Lives(c)

(* getNextLoop has gone round the loops some number of times, and has      *)
(* given the first next_ of them one connection more.                      *)
ShareInv ==
    /\ loops = <<>> => next = 0
    /\ loops # <<>> => next < Len(loops)
    /\ \A c \in Known : conn[c].loop = Base <=> loops = <<>>
    /\ \E q \in Nat : \A i \in 1..Len(loops) : Given(loops[i]) = IF i <= next THEN q + 1 ELSE q
    /\ (pc[Base] = "start" \/ ~started) => next = 0

IInv == TypeOK /\ LoopInv /\ KnownInv /\ FdInv /\ TodoInv /\ LifeInv /\ ShareInv

-----------------------------------------------------------------------------
FC == Functors \X Conns

(* A functor queued at the end.                                            *)
LEMMA AppendFacts ==
    ASSUME NEW s \in Seq(FC), NEW x \in FC
    PROVE  LET t == Append(s, x)
           IN  /\ t \in Seq(FC)
               /\ \A y : Has(t, y) <=> Has(s, y) \/ y = x
               /\ Once(s) /\ ~ Has(s, x) => Once(t)
               /\ Early(s) /\ (x[1] = "connectEstablished" => ~ Has(s, <<"connectDestroyed", x[2]>>))
                      => Early(t)
<1> DEFINE t == Append(s, x)
           n == Len(s)
<1>1. n \in Nat /\ t \in Seq(FC) /\ Len(t) = n + 1 /\ t[n + 1] = x /\ \A i \in 1..n : t[i] = s[i]
  <2> HIDE DEF FC
  <2> QED  OBVIOUS
<1>2. \A i \in 1..(n + 1) : i \in 1..n \/ i = n + 1
  BY <1>1
<1>3. (\A i \in 1..n : i \in 1..(n + 1)) /\ n + 1 \in 1..(n + 1) /\ \A i \in 1..n : i < n + 1
  BY <1>1
<1>4. \A i \in 1..n : s[i] \in FC
  <2> HIDE DEF FC
  <2> QED  OBVIOUS
<1> HIDE DEF t, n
<1>5. \A y : Has(t, y) <=> Has(s, y) \/ y = x
  BY <1>1, <1>2, <1>3 DEF Has, n
<1>6. ASSUME Once(s), ~ Has(s, x) PROVE Once(t)
  BY <1>1, <1>2, <1>3, <1>6 DEF Once, Has, n
<1>7. ASSUME Early(s), x[1] = "connectEstablished" => ~ Has(s, <<"connectDestroyed", x[2]>>)
      PROVE  Early(t)
  <2> SUFFICES ASSUME NEW i \in 1..(n + 1), NEW j \in 1..(n + 1),
                      t[i][1] = "connectEstablished", t[j][1] = "connectDestroyed",
                      t[i][2] = t[j][2]
               PROVE  i < j
    BY <1>1 DEF Early
  <2>1. CASE i \in 1..n /\ j \in 1..n
    BY <1>1, <1>7, <2>1 DEF Early, n
  <2>2. CASE i \in 1..n /\ j = n + 1
    BY <1>3, <2>2
  <2>3. CASE i = n + 1 /\ j \in 1..n
    <3>1. s[j] = <<"connectDestroyed", x[2]>>
      BY <1>1, <1>4, <2>3 DEF FC
    <3> QED  BY <1>1, <1>7, <2>3, <3>1 DEF Has, n
  <2>4. CASE i = n + 1 /\ j = n + 1
    BY <1>1, <2>4
  <2> QED  BY <1>2, <2>1, <2>2, <2>3, <2>4
<1> QED  BY <1>1, <1>5, <1>6, <1>7 DEF t

(* The first functor run.                                                  *)
LEMMA TailFacts ==
    ASSUME NEW s \in Seq(FC), s # <<>>, Once(s), Early(s)
    PROVE  LET t == Tail(s)
               x == Head(s)
           IN  /\ t \in Seq(FC) /\ x \in FC /\ Has(s, x)
               /\ \A y : Has(t, y) <=> Has(s, y) /\ y # x
               /\ Once(t) /\ Early(t)
               /\ x[1] = "connectDestroyed" => ~ Has(s, <<"connectEstablished", x[2]>>)
<1> DEFINE t == Tail(s)
           x == Head(s)
           n == Len(s)
<1>1. /\ n \in Nat /\ n >= 1 /\ t \in Seq(FC) /\ Len(t) = n - 1 /\ x = s[1]
      /\ \A i \in 1..(n - 1) : t[i] = s[i + 1]
  <2> HIDE DEF FC
  <2> QED  OBVIOUS
<1>2. \A i \in 1..n : s[i] \in FC
  <2> HIDE DEF FC
  <2> QED  OBVIOUS
<1> HIDE DEF t, x, n
<1>3. 1 \in 1..n /\ \A i \in 1..(n - 1) : i \in Int /\ i + 1 \in 1..n /\ i + 1 # 1
  BY <1>1
<1>4. \A i \in 1..n : i = 1 \/ (i - 1 \in 1..(n - 1) /\ (i - 1) + 1 = i)
  BY <1>1
<1>5. x \in FC /\ Has(s, x)
  BY <1>1, <1>2, <1>3 DEF Has, n
<1>6. \A y : Has(t, y) <=> Has(s, y) /\ y # x
  <2> SUFFICES ASSUME NEW y PROVE Has(t, y) <=> Has(s, y) /\ y # x
    OBVIOUS
  <2>1. ASSUME Has(t, y) PROVE Has(s, y) /\ y # x
    <3>1. PICK i \in 1..(n - 1) : s[i + 1] = y
      BY <1>1, <2>1 DEF Has
    <3> QED  BY <1>1, <1>3, <3>1 DEF Has, Once, n
  <2>2. ASSUME Has(s, y), y # x PROVE Has(t, y)
    <3>1. PICK i \in 1..n : s[i] = y
      BY <2>2 DEF Has, n
    <3>2. i - 1 \in 1..(n - 1) /\ t[i - 1] = y
      BY <1>1, <1>4, <2>2, <3>1
    <3> QED  BY <1>1, <3>2 DEF Has
  <2> QED  BY <2>1, <2>2
<1>7. Once(t)
  <2> SUFFICES ASSUME NEW i \in 1..(n - 1), NEW j \in 1..(n - 1), t[i] = t[j]
               PROVE  i = j
    BY <1>1 DEF Once
  <2>1. i + 1 = j + 1
    BY <1>1, <1>3 DEF Once, n
  <2> QED  BY <1>3, <2>1
<1>8. Early(t)
  <2> SUFFICES ASSUME NEW i \in 1..(n - 1), NEW j \in 1..(n - 1),
                      t[i][1] = "connectEstablished", t[j][1] = "connectDestroyed",
                      t[i][2] = t[j][2]
               PROVE  i < j
    BY <1>1 DEF Early
  <2>1. i + 1 < j + 1
    BY <1>1, <1>3 DEF Early, n
  <2> QED  BY <1>3, <2>1
<1>9. x[1] = "connectDestroyed" => ~ Has(s, <<"connectEstablished", x[2]>>)
  <2> SUFFICES ASSUME x[1] = "connectDestroyed", NEW i \in 1..n,
                      s[i] = <<"connectEstablished", x[2]>>
               PROVE  FALSE
    BY DEF Has, n
  <2>1. s[i][1] = "connectEstablished" /\ s[i][2] = x[2]
    OBVIOUS
  <2>2. i < 1
    BY <1>1, <1>3, <2>1 DEF Early, n
  <2> QED  BY <1>1, <2>2
<1> QED  BY <1>1, <1>5, <1>6, <1>7, <1>8, <1>9 DEF t, x

(* Functors of connections to be destroyed, queued after all others.       *)
LEMMA ConcatFacts ==
    ASSUME NEW s \in Seq(FC), NEW d \in Seq(FC), Once(s), Early(s), Once(d),
           \A i \in 1..Len(d) : d[i][1] = "connectDestroyed",
           \A x : Has(d, x) => ~ Has(s, x)
    PROVE  LET t == s \o d
           IN  /\ t \in Seq(FC)
               /\ \A y : Has(t, y) <=> Has(s, y) \/ Has(d, y)
               /\ Once(t) /\ Early(t)
<1> DEFINE t == s \o d
           n == Len(s)
           k == Len(d)
<1>1. /\ n \in Nat /\ k \in Nat /\ t \in Seq(FC) /\ Len(t) = n + k
      /\ (\A i \in 1..n : t[i] = s[i]) /\ \A i \in 1..k : t[n + i] = d[i]
  <2> HIDE DEF FC
  <2> QED  OBVIOUS
<1> HIDE DEF t
<1>a. (\A i \in 1..n : s[i] = s[i] /\ Has(s, s[i])) /\ \A i \in 1..k : Has(d, d[i])
  BY DEF Has
<1> HIDE DEF n, k
<1>2. \A i \in 1..(n + k) : i \in Int /\ (i \in 1..n \/ (i - n \in 1..k /\ n + (i - n) = i /\ i > n))
  BY <1>1
<1>3. (\A i \in 1..n : i \in 1..(n + k)) /\ \A i \in 1..k : n + i \in 1..(n + k)
  BY <1>1
<1>4. \A i \in 1..(n + k) : (i \in 1..n /\ t[i] = s[i])
                            \/ (i - n \in 1..k /\ i > n /\ t[i] = d[i - n])
  BY <1>1, <1>2
<1>5. \A y : Has(t, y) <=> Has(s, y) \/ Has(d, y)
  <2> SUFFICES ASSUME NEW y PROVE Has(t, y) <=> Has(s, y) \/ Has(d, y)
    OBVIOUS
  <2>1. Has(t, y) => Has(s, y) \/ Has(d, y)
    BY <1>1, <1>4 DEF Has, n, k
  <2>2. Has(s, y) => Has(t, y)
    BY <1>1, <1>3 DEF Has, n
  <2>3. Has(d, y) => Has(t, y)
    BY <1>1, <1>3 DEF Has, k
  <2> QED  BY <2>1, <2>2, <2>3
<1>6. Once(t)
  <2> SUFFICES ASSUME NEW i \in 1..(n + k), NEW j \in 1..(n + k), t[i] = t[j]
               PROVE  i = j
    BY <1>1 DEF Once
  <2>1. CASE i \in 1..n /\ j \in 1..n
    BY <1>1, <2>1 DEF Once, n
  <2>2. CASE i - n \in 1..k /\ j - n \in 1..k /\ i > n /\ j > n
    <3>1. d[i - n] = d[j - n]
      BY <1>1, <1>2, <2>2
    <3>2. i - n = j - n
      BY <2>2, <3>1 DEF Once, k
    <3> QED  BY <1>1, <1>2, <3>2
  <2>3. CASE i \in 1..n /\ j - n \in 1..k /\ j > n
    <3>1. s[i] = d[j - n]
      BY <1>1, <1>2, <2>3
    <3> QED  BY <1>a, <2>3, <3>1
  <2>4. CASE j \in 1..n /\ i - n \in 1..k /\ i > n
    <3>1. s[j] = d[i - n]
      BY <1>1, <1>2, <2>4
    <3> QED  BY <1>a, <2>4, <3>1
  <2> QED  BY <1>4, <2>1, <2>2, <2>3, <2>4
<1>7. Early(t)
  <2> SUFFICES ASSUME NEW i \in 1..(n + k), NEW j \in 1..(n + k),
                      t[i][1] = "connectEstablished", t[j][1] = "connectDestroyed",
                      t[i][2] = t[j][2]
               PROVE  i < j
    BY <1>1 DEF Early
  <2>1. i \in 1..n /\ t[i] = s[i]
    BY <1>4 DEF k
  <2>2. CASE j \in 1..n /\ t[j] = s[j]
    BY <2>1, <2>2 DEF Early, n
  <2>3. CASE j > n
    BY <1>1, <1>2, <2>1, <2>3
  <2> QED  BY <1>4, <2>2, <2>3
<1> QED  BY <1>1, <1>5, <1>6, <1>7 DEF t

(* A set of natural numbers has a least one.                               *)
LEMMA LeastOne ==
    ASSUME NEW T, T \subseteq Nat, T # {}
    PROVE  \E x \in T : \A y \in T : x <= y
<1> DEFINE L == {p \in Nat \X Nat : p[1] < p[2]}
<1>1. IsWellFoundedOn(L, Nat)
  BY NatLessThanWellFounded DEF OpToRel
<1>2. PICK x \in T : \A y \in T : ~ (<<y, x>> \in L)
  BY <1>1, WFMin, Zenon
<1>3. \A y \in T : x <= y
  <2> SUFFICES ASSUME NEW y \in T PROVE x <= y
    OBVIOUS
  <2>1. x \in Nat /\ y \in Nat
    OBVIOUS
  <2>2. ~ (y < x)
    BY <1>2, <2>1
  <2> QED  BY <2>1, <2>2
<1> QED  BY <1>3

(* Any connections can be listed.                                          *)
LEMMA ListExists ==
    ASSUME NEW cs, cs \subseteq Conns
    PROVE  LET n == Cardinality(cs)
               s == Listed(cs)
           IN  /\ n \in Nat /\ s \in [1..n -> cs]
               /\ \A c \in cs : \E i \in 1..n : s[i] = c
               /\ \A i, j \in 1..n : s[i] = s[j] => i = j
<1> DEFINE s == Listed(cs)
<1>0. IsFiniteSet(1..MaxConns)
  BY FS_Interval, ServerAssumption
<1>1. IsFiniteSet(cs)
  BY <1>0, FS_Subset DEF Conns
<1>2. PICK n \in Nat : ExistsBijection(1..n, cs)
  BY <1>1, FS_NatBijection
<1>3. Cardinality(cs) = n
  BY <1>2, FS_CountingElements
<1>4. s \in Bijection(1..n, cs)
  BY <1>2, <1>3 DEF ExistsBijection, Listed
<1> HIDE DEF s
<1>5. /\ s \in [1..n -> cs]
      /\ \A c \in cs : \E i \in 1..n : s[i] = c
      /\ \A i, j \in 1..n : s[i] = s[j] => i = j
  BY <1>4 DEF Bijection, Injection, Surjection, IsInjective
<1> QED  BY <1>3, <1>5 DEF s

(* What ~TcpServer queues to a loop.                                       *)
LEMMA DestroyFacts ==
    ASSUME NEW l \in Loops, connections \subseteq Conns
    PROVE  LET d == DestroyOn(l)
           IN  /\ d \in Seq(FC) /\ Once(d)
               /\ \A i \in 1..Len(d) : d[i][1] = "connectDestroyed"
               /\ \A x : Has(d, x) <=>
                     \E c \in connections : conn[c].loop = l /\ l # Base /\ x = <<"connectDestroyed", c>>
<1> DEFINE cs == {c \in connections : conn[c].loop = l /\ l # Base}
           n == Cardinality(cs)
           s == Listed(cs)
           d == DestroyOn(l)
<1>1. cs \subseteq Conns
  OBVIOUS
<1>3. /\ n \in Nat /\ s \in [1..n -> cs]
      /\ \A c \in cs : \E i \in 1..n : s[i] = c
      /\ \A i, j \in 1..n : s[i] = s[j] => i = j
  <2> HIDE DEF cs
  <2> QED  BY <1>1, ListExists
<1>4. d = [i \in 1..n |-> <<"connectDestroyed", s[i]>>]
  BY <1>3 DEF DestroyOn
<1> HIDE DEF s, d
<1>5. \A c : c \in cs <=> c \in connections /\ conn[c].loop = l /\ l # Base
  OBVIOUS
<1> HIDE DEF cs, n
<1>7. \A i \in 1..n : <<"connectDestroyed", s[i]>> \in FC
  BY <1>1, <1>3 DEF FC, Functors
<1>8. d \in Seq(FC) /\ Len(d) = n
  <2> HIDE DEF FC
  <2> QED  BY <1>3, <1>4, <1>7
<1>9. Once(d)
  <2> SUFFICES ASSUME NEW i \in 1..n, NEW j \in 1..n, d[i] = d[j] PROVE i = j
    BY <1>8 DEF Once
  <2>1. s[i] = s[j]
    BY <1>4
  <2> QED  BY <1>3, <2>1
<1>10. \A i \in 1..Len(d) : d[i][1] = "connectDestroyed"
  BY <1>4, <1>8
<1>11. \A x : Has(d, x) <=>
          \E c \in connections : conn[c].loop = l /\ l # Base /\ x = <<"connectDestroyed", c>>
  BY <1>4, <1>5, <1>3, <1>8 DEF Has
<1> QED  BY <1>8, <1>9, <1>10, <1>11 DEF d

(* accept returns a descriptor that was closed.                            *)
LEMMA FreeFd ==
    ASSUME Fds \ open # {}
    PROVE  Min(Fds \ open) \in Fds /\ Min(Fds \ open) \notin open
<1> DEFINE T == Fds \ open
<1>1. T \subseteq Nat /\ T # {}
  BY ServerAssumption
<1> HIDE DEF T
<1>2. \E x \in T : \A y \in T : x <= y
  BY <1>1, LeastOne
<1>3. Min(T) \in T
  BY <1>2 DEF Min
<1> QED  BY <1>3 DEF T

-----------------------------------------------------------------------------
(* The functors of all loops.                                              *)
Orderly(T) == \A l \in Loops : Once(T[l]) /\ Early(T[l])

(* The functors of a loop, queued or in its round.                         *)
LEMMA QueueTypes ==
    ASSUME TypeOK
    PROVE  /\ batch \in [Loops -> Seq(FC)] /\ queue \in [Loops -> Seq(FC)]
           /\ Todo \in [Loops -> Seq(FC)]
<1>1. batch \in [Loops -> Seq(FC)] /\ queue \in [Loops -> Seq(FC)]
  BY DEF TypeOK, FC
<1> HIDE DEF FC
<1>2. \A l \in Loops : batch[l] \o queue[l] \in Seq(FC)
  BY <1>1
<1> QED  BY <1>1, <1>2 DEF Todo

(* A functor is queued to one loop.                                        *)
LEMMA PushOn ==
    ASSUME NEW T \in [Loops -> Seq(FC)], Orderly(T), NEW l \in Loops, NEW x \in FC,
           ~ Has(T[l], x), x[1] = "connectEstablished" => ~ Has(T[l], <<"connectDestroyed", x[2]>>)
    PROVE  LET U == [T EXCEPT ![l] = Append(@, x)]
           IN  /\ Orderly(U)
               /\ \A m \in Loops : \A y : Has(U[m], y) <=> Has(T[m], y) \/ (m = l /\ y = x)
<1> DEFINE U == [T EXCEPT ![l] = Append(@, x)]
           s == T[l]
           t == Append(s, x)
<1>1. s \in Seq(FC) /\ U[l] = t /\ \A m \in Loops \ {l} : U[m] = T[m]
  <2> HIDE DEF FC
  <2> QED  OBVIOUS
<1>2. Once(s) /\ Early(s)
  BY DEF Orderly
<1> HIDE DEF s, U
<1>3. (\A y : Has(t, y) <=> Has(s, y) \/ y = x) /\ Once(t) /\ Early(t)
  BY <1>1, <1>2, AppendFacts DEF s
<1> HIDE DEF t
<1>4. Orderly(U)
  BY <1>1, <1>3 DEF Orderly
<1>5. \A m \in Loops : \A y : Has(U[m], y) <=> Has(T[m], y) \/ (m = l /\ y = x)
  BY <1>1, <1>3 DEF s
<1> QED  BY <1>4, <1>5 DEF U

(* A loop runs its first functor.                                          *)
LEMMA PopOn ==
    ASSUME NEW T \in [Loops -> Seq(FC)], Orderly(T), NEW l \in Loops, T[l] # <<>>
    PROVE  LET U == [T EXCEPT ![l] = Tail(@)]
               x == Head(T[l])
           IN  /\ U \in [Loops -> Seq(FC)] /\ Orderly(U) /\ x \in FC /\ Has(T[l], x)
               /\ \A m \in Loops : \A y : Has(U[m], y) <=> Has(T[m], y) /\ ~ (m = l /\ y = x)
               /\ x[1] = "connectDestroyed" => ~ Has(T[l], <<"connectEstablished", x[2]>>)
<1> DEFINE U == [T EXCEPT ![l] = Tail(@)]
           s == T[l]
           x == Head(s)
           t == Tail(s)
<1>1. s \in Seq(FC) /\ U[l] = t /\ \A m \in Loops \ {l} : U[m] = T[m]
  <2> HIDE DEF FC
  <2> QED  OBVIOUS
<1>2. Once(s) /\ Early(s) /\ s # <<>>
  BY DEF Orderly
<1> HIDE DEF s
<1>3. /\ t \in Seq(FC) /\ x \in FC /\ Has(s, x) /\ Once(t) /\ Early(t)
      /\ \A y : Has(t, y) <=> Has(s, y) /\ y # x
      /\ x[1] = "connectDestroyed" => ~ Has(s, <<"connectEstablished", x[2]>>)
  BY <1>1, <1>2, TailFacts
<1>4. U \in [Loops -> Seq(FC)]
  <2> HIDE DEF FC
  <2> QED  BY <1>1, <1>3 DEF s
<1> HIDE DEF t, x, U
<1>5. Orderly(U)
  BY <1>1, <1>3 DEF Orderly
<1>6. \A m \in Loops : \A y : Has(U[m], y) <=> Has(T[m], y) /\ ~ (m = l /\ y = x)
  BY <1>1, <1>3 DEF s
<1> QED  BY <1>3, <1>4, <1>5, <1>6 DEF U, s, x

(* A push to the queue is one behind the round.                            *)
LEMMA ConcatAppend ==
    ASSUME NEW b \in Seq(FC), NEW q \in Seq(FC), NEW x \in FC
    PROVE  b \o Append(q, x) = Append(b \o q, x)
<1> HIDE DEF FC
<1> DEFINE u == b \o Append(q, x)
           v == Append(b \o q, x)
           n == Len(b)
           k == Len(q)
<1>1. /\ n \in Nat /\ k \in Nat /\ u \in Seq(FC) /\ v \in Seq(FC)
      /\ Len(u) = n + k + 1 /\ Len(v) = n + k + 1
  OBVIOUS
<1>2. \A i \in 1..(n + k + 1) : u[i] = v[i]
  <2> SUFFICES ASSUME NEW i \in 1..(n + k + 1) PROVE u[i] = v[i]
    OBVIOUS
  <2>1. CASE i \in 1..n
    BY <2>1
  <2>2. CASE i \in (n + 1)..(n + k)
    BY <2>2
  <2>3. CASE i = n + k + 1
    BY <2>3
  <2> QED  BY <1>1, <2>1, <2>2, <2>3
<1> HIDE DEF u, v, n, k
<1>3. u = v
  BY <1>1, <1>2
<1> QED  BY <1>3 DEF u, v

(* Running a functor of the round leaves the queue alone.                  *)
LEMMA ConcatTail ==
    ASSUME NEW b \in Seq(FC), NEW q \in Seq(FC), b # <<>>
    PROVE  Tail(b) \o q = Tail(b \o q) /\ b \o q # <<>> /\ Head(b \o q) = Head(b)
<1> HIDE DEF FC
<1> QED  OBVIOUS

(* queueInLoop adds a functor to one loop's.                               *)
LEMMA PushTodo ==
    ASSUME TypeOK, NEW l \in Loops, NEW x \in FC, UNCHANGED batch,
           queue' = [queue EXCEPT ![l] = Append(@, x)]
    PROVE  Todo' = [Todo EXCEPT ![l] = Append(@, x)]
<1>1. batch \in [Loops -> Seq(FC)] /\ queue \in [Loops -> Seq(FC)]
  BY QueueTypes
<1>2. batch[l] \o Append(queue[l], x) = Append(batch[l] \o queue[l], x)
  BY <1>1, ConcatAppend
<1> HIDE DEF FC
<1>3. \A m \in Loops : batch'[m] \o queue'[m] =
          IF m = l THEN Append(batch[m] \o queue[m], x) ELSE batch[m] \o queue[m]
  BY <1>1, <1>2
<1> QED  BY <1>3 DEF Todo

(* A functor that is run is no longer to be done.                          *)
LEMMA PopTodo ==
    ASSUME TypeOK, NEW l \in Loops, batch[l] # <<>>, UNCHANGED queue,
           batch' = [batch EXCEPT ![l] = Tail(@)]
    PROVE  Todo' = [Todo EXCEPT ![l] = Tail(@)]
<1>1. batch \in [Loops -> Seq(FC)] /\ queue \in [Loops -> Seq(FC)]
  BY QueueTypes
<1>2. Tail(batch[l]) \o queue[l] = Tail(batch[l] \o queue[l])
  BY <1>1, ConcatTail
<1> HIDE DEF FC
<1>3. \A m \in Loops : batch'[m] \o queue'[m] =
          IF m = l THEN Tail(batch[m] \o queue[m]) ELSE batch[m] \o queue[m]
  BY <1>1, <1>2
<1> QED  BY <1>3 DEF Todo

(* A functor that is run and queues another.                               *)
LEMMA PopPushTodo ==
    ASSUME TypeOK, NEW l \in Loops, batch[l] # <<>>, NEW m \in Loops, NEW x \in FC,
           batch' = [batch EXCEPT ![l] = Tail(@)],
           queue' = [queue EXCEPT ![m] = Append(@, x)]
    PROVE  Todo' = [[Todo EXCEPT ![l] = Tail(@)] EXCEPT ![m] = Append(@, x)]
<1>1. batch \in [Loops -> Seq(FC)] /\ queue \in [Loops -> Seq(FC)]
  BY QueueTypes
<1>2. Tail(batch[l]) \o queue[l] = Tail(batch[l] \o queue[l])
  BY <1>1, ConcatTail
<1> DEFINE b == batch'[m]
<1>3. b \in Seq(FC) /\ b \o Append(queue[m], x) = Append(b \o queue[m], x)
  <2>1. b \in Seq(FC)
    <3> HIDE DEF FC
    <3> QED  BY <1>1
  <2> HIDE DEF b
  <2> QED  BY <1>1, <2>1, ConcatAppend
<1> HIDE DEF FC
<1>4. \A k \in Loops : batch'[k] \o queue[k] =
          IF k = l THEN Tail(batch[k] \o queue[k]) ELSE batch[k] \o queue[k]
  BY <1>1, <1>2
<1>5. \A k \in Loops : batch'[k] \o queue'[k] =
          IF k = m THEN Append(batch'[k] \o queue[k], x) ELSE batch'[k] \o queue[k]
  BY <1>1, <1>3
<1> DEFINE bb == batch'
           qq == queue'
           P == [k \in Loops |-> bb[k] \o queue[k]]
           R == [k \in Loops |-> bb[k] \o qq[k]]
<1>6. [Todo EXCEPT ![l] = Tail(@)] = P
  BY <1>4 DEF Todo
<1>7. /\ P = [k \in Loops |-> P[k]] /\ R = [k \in Loops |-> R[k]]
      /\ \A k \in Loops : R[k] = IF k = m THEN Append(P[k], x) ELSE P[k]
  <2>1. \A k \in Loops : bb[k] \o qq[k] = IF k = m THEN Append(bb[k] \o queue[k], x)
                                          ELSE bb[k] \o queue[k]
    BY <1>5
  <2> HIDE DEF bb, qq
  <2> QED  BY <2>1
<1>8. Todo' = R
  BY DEF Todo
<1> HIDE DEF P, R
<1>9. R = [P EXCEPT ![m] = Append(@, x)]
  BY <1>7
<1> QED  BY <1>6, <1>8, <1>9

(* The swap of a round, and a round that ends, leave what is to be done.   *)
LEMMA TakeTodo ==
    ASSUME TypeOK, NEW l \in Loops, batch[l] = <<>>,
           batch' = [batch EXCEPT ![l] = queue[l]], queue' = [queue EXCEPT ![l] = <<>>]
    PROVE  Todo' = Todo
<1>1. batch \in [Loops -> Seq(FC)] /\ queue \in [Loops -> Seq(FC)]
  BY QueueTypes
<1> HIDE DEF FC
<1>2. queue[l] \o <<>> = <<>> \o queue[l]
  BY <1>1
<1>3. \A m \in Loops : batch'[m] \o queue'[m] = batch[m] \o queue[m]
  BY <1>1, <1>2
<1> QED  BY <1>3 DEF Todo

(* A loop that exits drops its functors.                                   *)
LEMMA DropTodo ==
    ASSUME TypeOK, NEW l \in Loops, batch[l] = <<>>, UNCHANGED batch,
           queue' = [queue EXCEPT ![l] = <<>>]
    PROVE  Todo' = [Todo EXCEPT ![l] = <<>>]
<1>1. batch \in [Loops -> Seq(FC)] /\ queue \in [Loops -> Seq(FC)]
  BY QueueTypes
<1> HIDE DEF FC
<1>2. <<>> \o <<>> = <<>>
  OBVIOUS
<1>3. \A m \in Loops : batch'[m] \o queue'[m] = IF m = l THEN <<>> ELSE batch[m] \o queue[m]
  BY <1>1, <1>2
<1> QED  BY <1>3 DEF Todo

(* A step that touches no functors.                                        *)
LEMMA SameTodo ==
    ASSUME UNCHANGED <<batch, queue>>
    PROVE  Todo' = Todo
BY DEF Todo

(* ~TcpServer's functors come after all others.                            *)
LEMMA DtorTodo ==
    ASSUME TypeOK, UNCHANGED batch, queue' = [l \in Loops |-> queue[l] \o DestroyOn(l)]
    PROVE  Todo' = [l \in Loops |-> Todo[l] \o DestroyOn(l)]
<1>1. batch \in [Loops -> Seq(FC)] /\ queue \in [Loops -> Seq(FC)]
  BY QueueTypes
<1>2. \A l \in Loops : DestroyOn(l) \in Seq(FC)
  BY DestroyFacts DEF TypeOK
<1> HIDE DEF FC
<1>3. \A l \in Loops : batch'[l] \o queue'[l] = (batch[l] \o queue[l]) \o DestroyOn(l)
  <2> SUFFICES ASSUME NEW l \in Loops
               PROVE  batch[l] \o (queue[l] \o DestroyOn(l)) = (batch[l] \o queue[l]) \o DestroyOn(l)
    OBVIOUS
  <2> DEFINE b == batch[l]
             q == queue[l]
             d == DestroyOn(l)
  <2>1. b \in Seq(FC) /\ q \in Seq(FC) /\ d \in Seq(FC)
    BY <1>1, <1>2
  <2> HIDE DEF b, q, d
  <2>2. b \o (q \o d) = (b \o q) \o d
    BY <2>1
  <2> QED  BY <2>2 DEF b, q, d
<1> QED  BY <1>3 DEF Todo

(* The connections bound in functors.                                      *)
LEMMA BoundFacts ==
    ASSUME NEW b \in Seq(FC), NEW q \in Seq(FC)
    PROVE  /\ Bound(q) \subseteq Conns
           /\ b # <<>> => Bound(Tail(b)) \subseteq Bound(b)
           /\ \A f \in Functors, c \in Conns : Has(b \o q, <<f, c>>) => c \in Bound(b) \union Bound(q)
<1>1. \A i \in 1..Len(q) : q[i] \in FC
  <2> HIDE DEF FC
  <2> QED  OBVIOUS
<1>2. Bound(q) \subseteq Conns
  BY <1>1 DEF Bound, FC
<1>3. ASSUME b # <<>> PROVE Bound(Tail(b)) \subseteq Bound(b)
  <2> DEFINE t == Tail(b)
             n == Len(b)
  <2>1. n \in Nat /\ Len(t) = n - 1 /\ \A i \in 1..(n - 1) : t[i] = b[i + 1]
    <3> HIDE DEF FC
    <3> QED  BY <1>3
  <2> HIDE DEF t, n
  <2>2. \A i \in 1..(n - 1) : i + 1 \in 1..n
    BY <2>1
  <2>3. Bound(t) \subseteq Bound(b)
    <3> SUFFICES ASSUME NEW i \in 1..(n - 1) PROVE t[i][2] \in Bound(b)
      BY <2>1 DEF Bound
    <3> QED  BY <2>1, <2>2 DEF Bound, n
  <2> QED  BY <2>3 DEF t
<1> DEFINE n == Len(b)
           k == Len(q)
           t == b \o q
<1>4a. /\ n \in Nat /\ k \in Nat /\ t \in Seq(FC) /\ Len(t) = n + k
       /\ (\A i \in 1..n : t[i] = b[i]) /\ \A i \in 1..k : t[n + i] = q[i]
  <2> HIDE DEF FC
  <2> QED  OBVIOUS
<1>4. ASSUME NEW f \in Functors, NEW c \in Conns, Has(b \o q, <<f, c>>)
      PROVE  c \in Bound(b) \union Bound(q)
  <2>1. /\ n \in Nat /\ k \in Nat /\ Len(t) = n + k
        /\ (\A i \in 1..n : t[i] = b[i]) /\ \A i \in 1..k : t[n + i] = q[i]
    BY <1>4a
  <2>2. PICK i \in 1..Len(t) : t[i] = <<f, c>>
    BY <1>4 DEF Has
  <2>3. t[i][2] = c
    BY <2>2
  <2> HIDE DEF n, k, t
  <2>4. i \in 1..n \/ (i - n \in 1..k /\ n + (i - n) = i)
    BY <2>1
  <2>5. CASE i \in 1..n
    BY <2>1, <2>3, <2>5 DEF Bound, n
  <2>6. CASE i - n \in 1..k /\ n + (i - n) = i
    <3>1. q[i - n][2] = c
      BY <2>1, <2>3, <2>6
    <3> QED  BY <2>6, <3>1 DEF Bound, k
  <2> QED  BY <2>4, <2>5, <2>6
<1> QED  BY <1>2, <1>3, <1>4

-----------------------------------------------------------------------------
(* The loops of the pool are numbered as they are created.                 *)
LEMMA PoolFacts ==
    ASSUME TypeOK, LoopInv
    PROVE  /\ Len(loops) \in 0..MaxThreads /\ MaxThreads \in Nat
           /\ \A i \in 1..Len(loops) : loops[i] = i /\ loops[i] \in Loops \ {Base}
<1> DEFINE E == Loops \ {Base}
<1>0. MaxThreads \in Nat
  BY ServerAssumption
<1>1. loops \in Seq(E)
  BY DEF TypeOK
<1>2. \A i \in 1..Len(loops) : loops[i] = i
  BY DEF LoopInv
<1> HIDE DEF E
<1>3. Len(loops) \in Nat /\ \A i \in 1..Len(loops) : loops[i] \in E
  BY <1>1
<1>4. Len(loops) <= MaxThreads
  <2>1. CASE Len(loops) = 0
    BY <1>0, <2>1
  <2>2. CASE Len(loops) # 0
    <3>1. Len(loops) \in 1..Len(loops)
      BY <1>3, <2>2
    <3>2. Len(loops) \in E
      BY <1>2, <1>3, <3>1
    <3> QED  BY <1>0, <3>2 DEF E, Loops
  <2> QED  BY <2>1, <2>2
<1> QED  BY <1>0, <1>2, <1>3, <1>4 DEF E

(* What accepting a connection does.                                       *)
LEMMA AcceptFacts ==
    ASSUME IInv, HandleRead
    PROVE  LET c == nextConnId
               l == NextLoop
           IN  /\ c \in Conns /\ c \notin Known /\ l \in Loops /\ nextConnId' = c + 1
               /\ connections' = connections \union {c}
               /\ l = Base <=> loops = <<>>
               /\ next' \in Nat /\ backlog > 0 /\ backlog' = backlog - 1
               /\ \E fd \in Fds \ open :
                     /\ open' = open \union {fd}
                     /\ conn' = [conn EXCEPT ![c] =
                                   [state |-> IF l = Base THEN "kConnected" ELSE "kConnecting",
                                    loop |-> l, fd |-> fd]]
               /\ registered' = IF l = Base THEN registered \union {c} ELSE registered
               /\ IF l = Base THEN queue' = queue ELSE Push(l, "connectEstablished", c)
<1> DEFINE c == nextConnId
           l == NextLoop
           fd == Min(Fds \ open)
<1>1. /\ nextConnId \in 1..(MaxConns + 1) /\ backlog \in 0..MaxConns /\ backlog > 0
      /\ backlog + nextConnId <= MaxConns + 1 /\ MaxConns \in Nat /\ next \in Nat
  BY ServerAssumption DEF IInv, TypeOK, KnownInv, HandleRead
<1>2. c \in Conns /\ c \notin Known
  BY <1>1 DEF Conns, Known
<1>3. Len(loops) \in 0..MaxThreads /\ MaxThreads \in Nat
      /\ \A i \in 1..Len(loops) : loops[i] = i /\ loops[i] \in Loops \ {Base}
  BY PoolFacts DEF IInv
<1>4. CASE loops = <<>>
  <2>1. l = Base /\ l \in Loops /\ AfterNext = next
    BY <1>3, <1>4 DEF NextLoop, AfterNext, Base, Loops
  <2>2. /\ fd \in Fds \ open /\ open' = open \union {fd} /\ backlog' = backlog - 1
        /\ NewConnection(fd)
    BY FreeFd DEF HandleRead
  <2> HIDE DEF fd
  <2> QED  BY <1>1, <1>2, <1>4, <2>1, <2>2 DEF NewConnection
<1>5. CASE loops # <<>>
  <2>1. next < Len(loops)
    BY <1>5 DEF IInv, ShareInv
  <2>2. next + 1 \in 1..Len(loops)
    BY <1>1, <1>3, <2>1
  <2>3. l \in Loops /\ l # Base /\ AfterNext \in Nat
    BY <1>1, <1>3, <1>5, <2>2 DEF NextLoop, AfterNext
  <2> HIDE DEF l, c
  <2> QED  BY <1>1, <1>2, <1>5, <2>3, FreeFd DEF HandleRead, NewConnection, l, c
<1> QED  BY <1>4, <1>5

(* A functor run and its connection.                                       *)
LEMMA RunFacts ==
    ASSUME IInv, NEW l \in Loops, RunFunctor(l)
    PROVE  LET x == Head(batch[l])
           IN  /\ x \in FC /\ x[1] \in Functors /\ x[2] \in Conns /\ x = <<x[1], x[2]>>
               /\ Todo[l] # <<>> /\ x = Head(Todo[l]) /\ Waits(l, x[1], x[2])
               /\ x[2] \in Known
               /\ x[1] = "connectDestroyed" => ~ Waits(l, "connectEstablished", x[2])
               /\ batch'[l] = Tail(batch[l]) /\ batch[l] # <<>>
<1> DEFINE x == Head(batch[l])
<1>0. batch[l] # <<>> /\ batch' = [batch EXCEPT ![l] = Tail(@)]
  BY DEF RunFunctor
<1>1. TypeOK /\ batch \in [Loops -> Seq(FC)] /\ queue \in [Loops -> Seq(FC)] /\ Todo \in [Loops -> Seq(FC)]
  BY QueueTypes DEF IInv
<1>2. Todo[l] = batch[l] \o queue[l] /\ Todo[l] # <<>> /\ Head(Todo[l]) = x
  BY <1>0, <1>1, ConcatTail DEF Todo
<1>3. Orderly(Todo)
  BY DEF IInv, TodoInv, Orderly
<1>4. /\ Head(Todo[l]) \in FC /\ Has(Todo[l], Head(Todo[l]))
      /\ Head(Todo[l])[1] = "connectDestroyed" => ~ Has(Todo[l], <<"connectEstablished", Head(Todo[l])[2]>>)
  BY <1>1, <1>2, <1>3, PopOn
<1> HIDE DEF x
<1>5. /\ x \in FC /\ Has(Todo[l], x)
      /\ x[1] = "connectDestroyed" => ~ Has(Todo[l], <<"connectEstablished", x[2]>>)
  BY <1>2, <1>4
<1>6. x[1] \in Functors /\ x[2] \in Conns /\ x = <<x[1], x[2]>>
  BY <1>5 DEF FC
<1>7. x[2] \in Known
  BY <1>5, <1>6 DEF IInv, TodoInv, Waits
<1>8. batch'[l] = Tail(batch[l])
  BY <1>0, <1>1
<1> QED  BY <1>0, <1>2, <1>5, <1>6, <1>7, <1>8 DEF Waits, x

(* The type of a connection's record.                                      *)
LEMMA ConnFacts ==
    ASSUME TypeOK, NEW c \in Conns
    PROVE  /\ conn \in [Conns -> [state : States, loop : Loops, fd : Fds]]
           /\ conn[c].state \in States /\ conn[c].loop \in Loops /\ conn[c].fd \in Fds
BY DEF TypeOK

(* Every step keeps the types.                                             *)
LEMMA TypeStep == IInv /\ [Next]_vars => TypeOK'
<1> SUFFICES ASSUME IInv, [Next]_vars PROVE TypeOK'
  OBVIOUS
<1> DEFINE R == [state : States, loop : Loops, fd : Fds]
           Q == [Loops -> Seq(FC)]
           P == [Loops -> {"none", "callback", "published", "poll", "handled",
                         "run", "start", "dtor", "join", "exited"}]
<1>1. TypeOK
  BY DEF IInv
<1>2. /\ Len(loops) \in 0..MaxThreads /\ MaxThreads \in Nat
      /\ \A i \in 1..Len(loops) : loops[i] = i /\ loops[i] \in Loops \ {Base}
  BY <1>1, PoolFacts DEF IInv
<1>3. batch \in Q /\ queue \in Q /\ conn \in [Conns -> R] /\ pc \in P
      /\ connections \subseteq Conns /\ registered \subseteq Conns /\ destroyed \subseteq Conns /\ open \subseteq Fds
      /\ held \in [Loops -> SUBSET Conns] /\ quit \in [Loops -> BOOLEAN]
  BY <1>1, QueueTypes DEF TypeOK
<1>4. Base \in Loops /\ MaxConns \in Nat /\ listenFd \in Fds /\ idleFd \in Fds
  BY <1>2, ServerAssumption DEF Base, Loops, listenFd, idleFd
<1>5. ASSUME NEW l \in Loops, NEW f \in Functors, NEW c \in Conns, Push(l, f, c) PROVE queue' \in Q
  <2>1. <<f, c>> \in FC
    BY DEF FC
  <2> HIDE DEF FC
  <2> QED  BY <1>3, <1>5, <2>1 DEF Push
<1>6. ASSUME Release, connections' \subseteq Conns PROVE destroyed' \subseteq Conns /\ open' \subseteq Fds
  <2>1. nextConnId \in 1..(MaxConns + 1)
    BY <1>1 DEF TypeOK
  <2>2. 1..(nextConnId - 1) \subseteq Conns
    BY <1>4, <2>1 DEF Conns
  <2> QED  BY <1>3, <1>6, <2>2 DEF Release
<1>7. ASSUME NEW cs, ConnectDestroyed(cs)
      PROVE  conn' \in [Conns -> R] /\ registered' \subseteq Conns /\ failed' \subseteq Asserts
  <2>1. \A c \in Conns : [conn[c] EXCEPT !.state = "kDisconnected"] \in R /\ conn[c] \in R
    BY <1>3 DEF States
  <2> HIDE DEF R
  <2>2. failed' \subseteq Asserts
    BY <1>1, <1>7 DEF ConnectDestroyed, TypeOK, Unless, Asserts
  <2> QED  BY <1>3, <1>7, <2>1, <2>2 DEF ConnectDestroyed
<1>8. \A q : q \in Q <=> q \in [Loops -> Seq(Functors \X Conns)]
  BY DEF FC
<1>9. ASSUME NEW n \in 0..MaxThreads, SetThreadNum(n) PROVE TypeOK'
  BY <1>1, <1>9 DEF TypeOK, SetThreadNum, acceptVars, connVars, loopVars
<1>10. CASE Start
  <2>1. pc' \in P /\ listenning' \in BOOLEAN /\ failed' \subseteq Asserts
    BY <1>1, <1>3, <1>4, <1>10 DEF Start, Listen, Go, TypeOK, Unless, Asserts
  <2> QED  BY <1>1, <1>10, <2>1 DEF TypeOK, Start, acceptVars, connVars
<1>11. CASE StartElsewhere
  BY <1>1, <1>11 DEF TypeOK, StartElsewhere, acceptVars, connVars, loopVars
<1>12. CASE ClientConnects
  <2>1. backlog' \in 0..MaxConns
    BY <1>1, <1>4, <1>12 DEF ClientConnects, TypeOK
  <2> QED  BY <1>1, <1>12, <2>1 DEF TypeOK, ClientConnects, poolVars, connVars, loopVars
<1>13. CASE HandleRead
  <2> DEFINE c == nextConnId
             l == NextLoop
  <2>1. /\ c \in Conns /\ l \in Loops /\ nextConnId' = c + 1 /\ connections' = connections \union {c}
        /\ next' \in Nat /\ backlog > 0 /\ backlog' = backlog - 1
        /\ registered' = (IF l = Base THEN registered \union {c} ELSE registered)
        /\ IF l = Base THEN queue' = queue ELSE Push(l, "connectEstablished", c)
    BY <1>13, AcceptFacts
  <2>2. PICK fd \in Fds \ open :
           /\ open' = open \union {fd}
           /\ conn' = [conn EXCEPT ![c] =
                         [state |-> IF l = Base THEN "kConnected" ELSE "kConnecting",
                          loop |-> l, fd |-> fd]]
    BY <1>13, AcceptFacts
  <2> HIDE DEF l
  <2>3. conn' \in [Conns -> R] /\ open' \subseteq Fds
    <3>1. [state |-> IF l = Base THEN "kConnected" ELSE "kConnecting", loop |-> l, fd |-> fd] \in R
      BY <2>1 DEF States
    <3> HIDE DEF R
    <3> QED  BY <1>3, <2>1, <2>2, <3>1
  <2>4. queue' \in Q
    <3>1. "connectEstablished" \in Functors
      BY DEF Functors
    <3> HIDE DEF Q
    <3> QED  BY <1>3, <1>5, <2>1, <3>1
  <2>5. pc' \in P
    BY <1>3, <1>4, <1>13 DEF HandleRead, Go
  <2>6. nextConnId' \in 1..(MaxConns + 1) /\ backlog' \in 0..MaxConns
    BY <1>1, <1>4, <2>1 DEF TypeOK, Conns
  <2>7. connections' \subseteq Conns /\ registered' \subseteq Conns
    BY <1>3, <2>1
  <2>8. queue' \in [Loops -> Seq(Functors \X Conns)]
    BY <1>8, <2>4
  <2> HIDE DEF c
  <2> QED  BY <1>1, <1>13, <2>1, <2>3, <2>5, <2>6, <2>7, <2>8 DEF TypeOK, HandleRead, poolVars
<1>14. ASSUME NEW e \in AcceptErrors \union {"EMFILE"}, HandleReadFails(e) PROVE TypeOK'
  <2>1. pc' \in P /\ backlog' \in 0..MaxConns /\ status' \in {"running", "aborted", "undefined"}
    BY <1>1, <1>3, <1>4, <1>14 DEF HandleReadFails, ErrnoOf, Expected, TypeOK
  <2> QED  BY <1>1, <1>14, <2>1 DEF TypeOK, HandleReadFails, poolVars, connVars
<1>15. ASSUME NEW c \in Conns, Shutdown(c) PROVE TypeOK'
  <2>1. conn' \in [Conns -> R]
    BY <1>3, <1>15 DEF Shutdown, States
  <2>2. pc' \in P
    BY <1>1, <1>3, <1>15, ConnFacts DEF Shutdown, Go
  <2> QED  BY <1>1, <1>15, <2>1, <2>2 DEF TypeOK, Shutdown, poolVars, acceptVars
<1>16. ASSUME NEW c \in Conns, HandleClose(c) PROVE TypeOK'
  <2>1. conn' \in [Conns -> R]
    BY <1>3, <1>16 DEF HandleClose, States
  <2>2. pc' \in P /\ conn[c].loop \in Loops
    BY <1>1, <1>3, <1>16, ConnFacts DEF HandleClose, Go
  <2>3. queue' \in Q
    <3>1. "connectDestroyed" \in Functors /\ "removeConnectionInLoop" \in Functors
      BY DEF Functors
    <3>2. Push(conn[c].loop, "connectDestroyed", c) \/ Push(Base, "removeConnectionInLoop", c)
      BY <1>16 DEF HandleClose, RemoveConnectionInLoop
    <3> HIDE DEF Q
    <3> QED  BY <1>4, <1>5, <2>2, <3>1, <3>2
  <2>4. connections' \subseteq Conns /\ failed' \subseteq Asserts
    BY <1>1, <1>3, <1>16 DEF HandleClose, RemoveConnectionInLoop, TypeOK, Unless, Asserts
  <2>5. queue' \in [Loops -> Seq(Functors \X Conns)]
    BY <1>8, <2>3
  <2> QED  BY <1>1, <1>16, <2>1, <2>2, <2>4, <2>5 DEF TypeOK, HandleClose, poolVars, acceptVars
<1>17. CASE DtorBody
  <2>1. /\ conn' \in [Conns -> R] /\ registered' \subseteq Conns /\ connections' = {}
        /\ failed' \subseteq Asserts
    BY <1>7, <1>17 DEF DtorBody
  <2>2. destroyed' \subseteq Conns /\ open' \subseteq Fds
    BY <1>6, <1>17, <2>1 DEF DtorBody
  <2>3. queue' \in Q
    <3>1. \A l \in Loops : DestroyOn(l) \in Seq(FC)
      BY <1>3, DestroyFacts
    <3> HIDE DEF FC
    <3>2. \A l \in Loops : queue[l] \o DestroyOn(l) \in Seq(FC)
      BY <1>3, <3>1
    <3> QED  BY <1>17, <3>2 DEF DtorBody
  <2>4. pc' \in P
    BY <1>3, <1>4, <1>17 DEF DtorBody, Go
  <2>5. queue' \in [Loops -> Seq(Functors \X Conns)]
    BY <1>8, <2>3
  <2> QED  BY <1>1, <1>17, <2>1, <2>2, <2>4, <2>5 DEF TypeOK, DtorBody, poolVars, acceptVars
<1>18. CASE QuitThread
  <2>1. quit' \in [Loops -> BOOLEAN] /\ pc' \in P
    BY <1>3, <1>4, <1>18 DEF QuitThread, Go
  <2> QED  BY <1>1, <1>18, <2>1 DEF TypeOK, QuitThread, poolVars, acceptVars, connVars
<1>19. CASE JoinReturns
  <2>1. joined' \in Loops
    BY <1>1, <1>2, <1>19 DEF JoinReturns, At, IInv, LoopInv, TypeOK, Loops
  <2>2. pc' \in P
    BY <1>3, <1>4, <1>19 DEF JoinReturns, Go
  <2> QED  BY <1>1, <1>19, <2>1, <2>2 DEF TypeOK, JoinReturns, acceptVars, connVars
<1>20. CASE DtorEnds
  <2>1. pc' \in P /\ backlog' \in 0..MaxConns
    BY <1>3, <1>4, <1>20 DEF DtorEnds, Go
  <2> QED  BY <1>1, <1>20, <2>1 DEF TypeOK, DtorEnds, poolVars, connVars
<1>21. ASSUME NEW l \in Loops, StartThread(l) \/ Publish(l) PROVE TypeOK'
  <2>1. pc' \in P
    BY <1>3, <1>21 DEF StartThread, Publish, Go
  <2> QED  BY <1>1, <1>21, <2>1 DEF TypeOK, StartThread, Publish, poolVars, acceptVars, connVars
<1>22. ASSUME NEW l \in Loops, StartLoopReturns(l) PROVE TypeOK'
  <2>1. pc' \in P /\ listenning' \in BOOLEAN /\ failed' \subseteq Asserts
    BY <1>1, <1>3, <1>4, <1>22 DEF StartLoopReturns, Listen, Go, TypeOK, Unless, Asserts
  <2>2. loops' \in Seq(Loops \ {Base})
    <3> DEFINE E == Loops \ {Base}
    <3>1. l \in E /\ loops \in Seq(E) /\ loops' = Append(loops, l)
      BY <1>1, <1>2, <1>22 DEF StartLoopReturns, TypeOK, Base
    <3> HIDE DEF E
    <3>2. loops' \in Seq(E)
      BY <3>1
    <3> QED  BY <3>2 DEF E
  <2> QED  BY <1>1, <1>22, <2>1, <2>2 DEF TypeOK, StartLoopReturns, acceptVars, connVars
<1>23. ASSUME NEW l \in Loops, EnterLoop(l) PROVE TypeOK'
  <2>1. pc' \in P /\ quit' \in [Loops -> BOOLEAN]
    BY <1>3, <1>23 DEF EnterLoop, Go
  <2> QED  BY <1>1, <1>23, <2>1 DEF TypeOK, EnterLoop, poolVars, acceptVars, connVars
<1>24. ASSUME NEW l \in Loops, TakeFunctors(l) PROVE TypeOK'
  <2>1. pc' \in P
    BY <1>3, <1>24 DEF TakeFunctors, Go
  <2>2. held' \in [Loops -> SUBSET Conns]
    <3>1. Bound(queue[l]) \subseteq Conns
      BY <1>3, BoundFacts
    <3> QED  BY <1>3, <1>24, <3>1 DEF TakeFunctors
  <2>3. batch' \in Q /\ queue' \in Q
    <3> HIDE DEF FC
    <3>1. <<>> \in Seq(FC)
      OBVIOUS
    <3> QED  BY <1>3, <1>24, <3>1 DEF TakeFunctors
  <2>4. \A q \in {queue', batch'} : q \in [Loops -> Seq(Functors \X Conns)]
    BY <1>8, <2>3
  <2> QED  BY <1>1, <1>24, <2>1, <2>2, <2>4 DEF TypeOK, TakeFunctors, poolVars, acceptVars, connVars
<1>25. ASSUME NEW l \in Loops, RunFunctor(l) PROVE TypeOK'
  <2> DEFINE f == Head(batch[l])[1]
             c == Head(batch[l])[2]
  <2>1. f \in Functors /\ c \in Conns
    BY <1>25, RunFacts
  <2>2. batch' \in Q
    <3>1. batch[l] # <<>> /\ batch' = [batch EXCEPT ![l] = Tail(@)]
      BY <1>25 DEF RunFunctor
    <3> HIDE DEF FC
    <3> QED  BY <1>3, <3>1
  <2>3. \/ Established(c) /\ UNCHANGED <<status, connections, queue>> /\ failed' \subseteq Asserts
        \/ ConnectDestroyed({c}) /\ UNCHANGED <<status, connections, queue>>
        \/ RemoveConnectionInLoop(c) /\ UNCHANGED <<status, conn, registered>>
        \/ status' = "undefined" /\ UNCHANGED <<connVars, queue, failed>>
    BY <1>1, <1>25 DEF RunFunctor, TypeOK, Unless, Asserts
  <2>4. UNCHANGED <<server, listenning, poolVars, acceptVars, destroyed, open, pc, quit, held>>
    BY <1>25 DEF RunFunctor
  <2> HIDE DEF f, c
  <2>5. CASE Established(c) /\ UNCHANGED <<status, connections, queue>> /\ failed' \subseteq Asserts
    <3>1. conn' \in [Conns -> R] /\ registered' \subseteq Conns
      BY <1>3, <2>1, <2>5 DEF Established, States
    <3>2. \A q \in {queue', batch'} : q \in [Loops -> Seq(Functors \X Conns)]
      BY <1>3, <1>8, <2>2, <2>5
    <3> QED  BY <1>1, <2>4, <2>5, <3>1, <3>2 DEF TypeOK, poolVars, acceptVars
  <2>6. CASE ConnectDestroyed({c}) /\ UNCHANGED <<status, connections, queue>>
    <3>1. conn' \in [Conns -> R] /\ registered' \subseteq Conns /\ failed' \subseteq Asserts
      BY <1>7, <2>6
    <3>2. \A q \in {queue', batch'} : q \in [Loops -> Seq(Functors \X Conns)]
      BY <1>3, <1>8, <2>2, <2>6
    <3> QED  BY <1>1, <2>4, <2>6, <3>1, <3>2 DEF TypeOK, poolVars, acceptVars
  <2>7. CASE RemoveConnectionInLoop(c) /\ UNCHANGED <<status, conn, registered>>
    <3>1. "connectDestroyed" \in Functors /\ conn[c].loop \in Loops
      BY <1>1, <2>1, ConnFacts DEF Functors
    <3>2. queue' \in Q
      BY <1>5, <2>1, <2>7, <3>1 DEF RemoveConnectionInLoop
    <3>3. \A q \in {queue', batch'} : q \in [Loops -> Seq(Functors \X Conns)]
      BY <1>8, <2>2, <3>2
    <3>4. connections' \subseteq Conns /\ failed' \subseteq Asserts
      BY <1>1, <1>3, <2>7 DEF RemoveConnectionInLoop, TypeOK, Unless, Asserts
    <3> QED  BY <1>1, <2>4, <2>7, <3>3, <3>4 DEF TypeOK, poolVars, acceptVars
  <2>8. CASE status' = "undefined" /\ UNCHANGED <<connVars, queue, failed>>
    <3>1. \A q \in {queue', batch'} : q \in [Loops -> Seq(Functors \X Conns)]
      BY <1>3, <1>8, <2>2, <2>8
    <3> QED  BY <1>1, <2>4, <2>8, <3>1 DEF TypeOK, poolVars, acceptVars, connVars
  <2> QED  BY <2>3, <2>5, <2>6, <2>7, <2>8
<1>26. ASSUME NEW l \in Loops, EndRound(l) PROVE TypeOK'
  <2>1. destroyed' \subseteq Conns /\ open' \subseteq Fds
    BY <1>3, <1>6, <1>26 DEF EndRound, connVars
  <2>2. pc' \in P /\ held' \in [Loops -> SUBSET Conns]
    BY <1>3, <1>26 DEF EndRound, Go
  <2>3. queue' \in Q
    <3> HIDE DEF FC
    <3>1. <<>> \in Seq(FC)
      OBVIOUS
    <3> QED  BY <1>3, <1>26, <3>1 DEF EndRound
  <2>4. queue' \in [Loops -> Seq(Functors \X Conns)]
    BY <1>8, <2>3
  <2> QED  BY <1>1, <1>26, <2>1, <2>2, <2>4 DEF TypeOK, EndRound, poolVars, acceptVars, connVars
<1>27. CASE UNCHANGED vars
  BY <1>1, <1>27 DEF TypeOK, vars, poolVars, acceptVars, connVars, loopVars
<1> QED  BY <1>9, <1>10, <1>11, <1>12, <1>13, <1>14, <1>15, <1>16, <1>17, <1>18, <1>19, <1>20,
            <1>21, <1>22, <1>23, <1>24, <1>25, <1>26, <1>27 DEF Next, BaseStep, ThreadStep

-----------------------------------------------------------------------------
(* Steps that leave where the threads are, or what is to be done.          *)
LEMMA LoopFrame ==
    ASSUME LoopInv, UNCHANGED <<pc, quit, server, started, listenning, nextConnId, loops, joined>>,
           \A l \in Loops : pc[l] # "run" => batch'[l] = batch[l],
           \A l \in Loops : Bound(batch'[l]) \subseteq held'[l]
    PROVE  LoopInv'
BY DEF LoopInv

(* Every step keeps the threads where LoopInv says.                        *)
LEMMA LoopStep == IInv /\ [Next]_vars => LoopInv'
<1> SUFFICES ASSUME IInv, [Next]_vars PROVE LoopInv'
  OBVIOUS
<1>1. TypeOK /\ LoopInv
  BY DEF IInv
<1>2. /\ Len(loops) \in 0..MaxThreads /\ MaxThreads \in Nat
      /\ \A i \in 1..Len(loops) : loops[i] = i /\ loops[i] \in Loops \ {Base}
  BY <1>1, PoolFacts DEF IInv
<1>3. Base \in Loops
  BY <1>2 DEF Base, Loops
<1>4. pc \in [Loops -> {"none", "callback", "published", "poll", "handled",
                         "run", "start", "dtor", "join", "exited"}]
      /\ quit \in [Loops -> BOOLEAN] /\ joined \in 0..MaxThreads
  BY <1>1 DEF TypeOK, Loops
<1>5. batch \in [Loops -> Seq(FC)] /\ queue \in [Loops -> Seq(FC)] /\ held \in [Loops -> SUBSET Conns]
  BY <1>1, QueueTypes DEF TypeOK
<1>9. ASSUME NEW n \in 0..MaxThreads, SetThreadNum(n) PROVE LoopInv'
  BY <1>1, <1>9 DEF LoopInv, SetThreadNum, acceptVars, loopVars
<1>10. CASE Start
  <2>1. /\ started' = TRUE /\ ~started /\ UNCHANGED <<quit, server, nextConnId, loops, joined, batch, held>>
        /\ pc[Base] = "poll"
        /\ \/ pc' = pc
           \/ pc' = [pc EXCEPT ![Base] = "start"] /\ UNCHANGED listenning
    BY <1>10 DEF Start, Listen, Go, At, acceptVars
  <2> QED  BY <1>1, <1>3, <1>4, <2>1 DEF LoopInv
<1>11. CASE StartElsewhere
  BY <1>1, <1>11 DEF LoopInv, StartElsewhere, acceptVars, loopVars
<1>12. CASE ClientConnects
  BY <1>1, <1>12 DEF LoopInv, ClientConnects, poolVars, loopVars
<1>13. CASE HandleRead
  <2>1. /\ UNCHANGED <<quit, server, started, listenning, loops, joined, batch, held>> /\ listenning
        /\ pc[Base] \in {"poll", "handled"} /\ pc' = [pc EXCEPT ![Base] = "handled"] /\ server = "up"
    BY <1>13 DEF HandleRead, Go, InHandlers, Handlers, poolVars
  <2> QED  BY <1>1, <1>3, <1>4, <2>1 DEF LoopInv
<1>14. ASSUME NEW e \in AcceptErrors \union {"EMFILE"}, HandleReadFails(e) PROVE LoopInv'
  BY <1>1, <1>14 DEF LoopInv, HandleReadFails, ErrnoOf, Expected, poolVars
<1>15. ASSUME NEW c \in Conns, Shutdown(c) \/ HandleClose(c) PROVE LoopInv'
  <2> DEFINE l == conn[c].loop
  <2>1. /\ UNCHANGED <<quit, server, started, listenning, nextConnId, loops, joined, batch, held>>
        /\ pc[l] \in {"poll", "handled"} /\ pc' = [pc EXCEPT ![l] = "handled"]
    BY <1>15 DEF Shutdown, HandleClose, Go, InHandlers, Handlers, poolVars, acceptVars
  <2>2. l \in Loops
    BY <1>1, ConnFacts
  <2> HIDE DEF l
  <2> QED  BY <1>1, <1>3, <1>4, <2>1, <2>2 DEF LoopInv
<1>17. CASE DtorBody
  <2>1. /\ UNCHANGED <<quit, started, listenning, nextConnId, loops, joined, batch, held>> /\ server' = "dtor"
        /\ pc[Base] = "poll" /\ pc' = [pc EXCEPT ![Base] = "dtor"] /\ server = "up"
    BY <1>17 DEF DtorBody, Go, At, poolVars, acceptVars
  <2> QED  BY <1>1, <1>3, <1>4, <2>1 DEF LoopInv
<1>18. CASE QuitThread
  <2>1. /\ UNCHANGED <<server, started, listenning, nextConnId, loops, joined, batch, held>>
        /\ pc[Base] = "dtor" /\ pc' = [pc EXCEPT ![Base] = "join"] /\ joined < Len(loops)
        /\ quit' = [quit EXCEPT ![loops[joined + 1]] = TRUE]
    BY <1>18 DEF QuitThread, Go, At, poolVars, acceptVars
  <2>2. joined + 1 \in 1..Len(loops)
    BY <1>2, <1>4, <2>1
  <2>3. loops[joined + 1] # Base
    BY <1>2, <2>2
  <2> QED  BY <1>1, <1>3, <1>4, <2>1, <2>3 DEF LoopInv
<1>19. CASE JoinReturns
  <2>1. /\ UNCHANGED <<quit, server, started, listenning, nextConnId, loops, batch, held>>
        /\ pc[Base] = "join" /\ pc' = [pc EXCEPT ![Base] = "dtor"] /\ joined' = joined + 1
    BY <1>19 DEF JoinReturns, Go, At, acceptVars
  <2>2. joined + 1 <= Len(loops)
    BY <1>1, <1>2, <1>4, <2>1 DEF LoopInv
  <2> QED  BY <1>1, <1>3, <1>4, <2>1, <2>2 DEF LoopInv
<1>20. CASE DtorEnds
  <2>1. /\ UNCHANGED <<quit, started, nextConnId, loops, joined, batch, held>>
        /\ pc[Base] = "dtor" /\ pc' = [pc EXCEPT ![Base] = "handled"] /\ server' = "gone" /\ listenning' = FALSE
    BY <1>20 DEF DtorEnds, Go, At, poolVars
  <2> QED  BY <1>1, <1>3, <1>4, <2>1 DEF LoopInv
<1>21. ASSUME NEW l \in Loops, StartThread(l) \/ Publish(l) PROVE LoopInv'
  <2>1. /\ UNCHANGED <<quit, server, started, listenning, nextConnId, loops, joined, batch, held>>
        /\ pc[l] \in {"none", "callback"} /\ \E k \in {"callback", "published"} : pc' = [pc EXCEPT ![l] = k]
    BY <1>21 DEF StartThread, Publish, Go, At, poolVars, acceptVars
  <2>2. l # Base
    BY <1>1, <2>1 DEF LoopInv
  <2> QED  BY <1>1, <1>3, <1>4, <2>1, <2>2 DEF LoopInv
<1>22. ASSUME NEW l \in Loops, StartLoopReturns(l) PROVE LoopInv'
  <2>1. /\ UNCHANGED <<quit, server, started, nextConnId, joined, batch, held>>
        /\ pc[Base] = "start" /\ l = Len(loops) + 1 /\ loops' = Append(loops, l)
        /\ \/ pc' = [pc EXCEPT ![Base] = "poll"]
           \/ UNCHANGED <<pc, listenning>>
    BY <1>22 DEF StartLoopReturns, Listen, Go, At, poolVars, acceptVars
  <2>2. Len(loops') = Len(loops) + 1 /\ \A i \in 1..Len(loops') : loops'[i] = i
    <3> DEFINE E == Loops \ {Base}
    <3>1. loops \in Seq(E) /\ l \in E
      BY <1>1, <1>2, <2>1 DEF TypeOK, Base
    <3> HIDE DEF E
    <3> QED  BY <1>2, <2>1, <3>1
  <2>3. joined <= Len(loops') /\ pc[Base] = "start"
    BY <1>1, <1>2, <1>4, <2>1, <2>2 DEF LoopInv
  <2> HIDE DEF Base
  <2> QED  BY <1>1, <1>3, <1>4, <2>1, <2>2, <2>3 DEF LoopInv
<1>23. ASSUME NEW l \in Loops, EnterLoop(l) PROVE LoopInv'
  <2>1. /\ UNCHANGED <<server, started, listenning, nextConnId, loops, joined, batch, held>>
        /\ pc[l] = "published" /\ pc' = [pc EXCEPT ![l] = "poll"] /\ quit' = [quit EXCEPT ![l] = FALSE]
    BY <1>23 DEF EnterLoop, Go, At, poolVars, acceptVars
  <2>2. l # Base
    BY <1>1, <2>1 DEF LoopInv
  <2> QED  BY <1>1, <1>3, <1>4, <2>1, <2>2 DEF LoopInv
<1>24. ASSUME NEW l \in Loops, TakeFunctors(l) PROVE LoopInv'
  <2>1. /\ UNCHANGED <<quit, server, started, listenning, nextConnId, loops, joined>>
        /\ pc[l] \in {"poll", "handled"} /\ pc' = [pc EXCEPT ![l] = "run"]
        /\ batch' = [batch EXCEPT ![l] = queue[l]] /\ held' = [held EXCEPT ![l] = Bound(queue[l])]
    BY <1>24 DEF TakeFunctors, Go, InHandlers, Handlers, poolVars, acceptVars
  <2>2. \A m \in Loops : Bound(batch'[m]) \subseteq held'[m]
    <3> HIDE DEF FC
    <3> QED  BY <1>1, <1>5, <2>1 DEF LoopInv
  <2>3. \A m \in Loops \ {l} : batch'[m] = batch[m] /\ pc'[m] = pc[m]
    <3> HIDE DEF FC
    <3> QED  BY <1>4, <1>5, <2>1
  <2>4. pc'[l] = "run" /\ (pc'[Base] = pc[Base] \/ (pc'[Base] = "run" /\ pc[Base] \in {"poll", "handled"}))
    BY <1>3, <1>4, <2>1
  <2> QED  BY <1>1, <2>1, <2>2, <2>3, <2>4 DEF LoopInv
<1>25. ASSUME NEW l \in Loops, RunFunctor(l) PROVE LoopInv'
  <2>1. /\ UNCHANGED <<pc, quit, server, started, listenning, nextConnId, loops, joined, held>>
        /\ pc[l] = "run" /\ batch' = [batch EXCEPT ![l] = Tail(@)] /\ batch[l] # <<>>
    BY <1>25 DEF RunFunctor, At, poolVars, acceptVars
  <2>2. Bound(Tail(batch[l])) \subseteq Bound(batch[l])
    BY <1>5, <2>1, BoundFacts
  <2>3. \A m \in Loops : Bound(batch'[m]) \subseteq held'[m]
    <3> HIDE DEF FC
    <3> QED  BY <1>1, <1>5, <2>1, <2>2 DEF LoopInv
  <2>4. \A m \in Loops : pc[m] # "run" => batch'[m] = batch[m]
    <3> HIDE DEF FC
    <3> QED  BY <1>5, <2>1
  <2> QED  BY <1>1, <2>1, <2>3, <2>4, LoopFrame
<1>26. ASSUME NEW l \in Loops, EndRound(l) PROVE LoopInv'
  <2>1. /\ UNCHANGED <<quit, server, started, listenning, nextConnId, loops, joined, batch>>
        /\ pc[l] = "run" /\ batch[l] = <<>> /\ held' = [held EXCEPT ![l] = {}]
        /\ pc' = [pc EXCEPT ![l] = IF quit[l] THEN "exited" ELSE "poll"]
    BY <1>26 DEF EndRound, Go, At, poolVars, acceptVars
  <2>2. Bound(<<>>) = {}
    BY DEF Bound
  <2>3. \A m \in Loops : Bound(batch'[m]) \subseteq held'[m]
    BY <1>1, <1>5, <2>1, <2>2 DEF LoopInv
  <2>4. /\ pc'[Base] = pc[Base] \/ (pc'[Base] = "poll" /\ pc[Base] = "run")
        /\ \A m \in Loops : /\ pc'[m] = pc[m] \/ batch[m] = <<>>
                            /\ pc'[m] = "exited" => pc[m] = "exited" \/ quit[m]
    BY <1>1, <1>3, <1>4, <2>1 DEF LoopInv
  <2> QED  BY <1>1, <2>1, <2>3, <2>4 DEF LoopInv
<1>27. CASE UNCHANGED vars
  BY <1>1, <1>27 DEF LoopInv, vars, poolVars, acceptVars, loopVars
<1> QED  BY <1>9, <1>10, <1>11, <1>12, <1>13, <1>14, <1>15, <1>17, <1>18, <1>19, <1>20,
            <1>21, <1>22, <1>23, <1>24, <1>25, <1>26, <1>27 DEF Next, BaseStep, ThreadStep

-----------------------------------------------------------------------------
(* Connections and descriptors.                                            *)
LEMMA KnownFacts ==
    ASSUME TypeOK
    PROVE  /\ Known \subseteq Conns /\ MaxConns \in Nat /\ nextConnId \in 1..(MaxConns + 1)
           /\ \A c \in Conns : c \in Known <=> c < nextConnId
           /\ Live = Known \ destroyed
<1>1. MaxConns \in Nat /\ nextConnId \in 1..(MaxConns + 1)
  BY ServerAssumption DEF TypeOK
<1>2. Known \subseteq Conns /\ \A c \in Conns : c \in Known <=> c < nextConnId
  BY <1>1 DEF Known, Conns
<1>3. Live = Known \ destroyed
  BY <1>2 DEF Live
<1> QED  BY <1>1, <1>2, <1>3

(* A step that keeps a connection's descriptor and loop.                   *)
LEMMA RecordFacts ==
    ASSUME TypeOK, NEW cs,
           \/ \E c \in Conns, s \in States : conn' = [conn EXCEPT ![c].state = s]
           \/ ConnectDestroyed(cs)
    PROVE  \A c \in Conns : conn'[c].fd = conn[c].fd /\ conn'[c].loop = conn[c].loop
<1>1. conn \in [Conns -> [state : States, loop : Loops, fd : Fds]]
  BY DEF TypeOK
<1>2. CASE \E c \in Conns, s \in States : conn' = [conn EXCEPT ![c].state = s]
  BY <1>1, <1>2
<1>3. CASE ConnectDestroyed(cs)
  <2> SUFFICES ASSUME NEW c \in Conns
               PROVE  conn'[c].fd = conn[c].fd /\ conn'[c].loop = conn[c].loop
    OBVIOUS
  <2>1. conn'[c] = [conn[c] EXCEPT !.state = "kDisconnected"] \/ conn'[c] = conn[c]
    BY <1>3 DEF ConnectDestroyed
  <2> QED  BY <1>1, <2>1
<1> QED  BY <1>2, <1>3

(* A step that accepts nothing keeps loop and descriptor.                  *)
LEMMA KeepsPlace ==
    ASSUME IInv, [Next]_vars
    PROVE  HandleRead \/ /\ UNCHANGED <<nextConnId, next>>
                         /\ \A c \in Conns : conn'[c].fd = conn[c].fd /\ conn'[c].loop = conn[c].loop
<1>1. TypeOK
  BY DEF IInv
<1>2. ASSUME NEW c \in Conns, Shutdown(c) \/ HandleClose(c)
      PROVE  UNCHANGED <<nextConnId, next>>
             /\ \A d \in Conns : conn'[d].fd = conn[d].fd /\ conn'[d].loop = conn[d].loop
  <2>1. \E s \in States : conn' = [conn EXCEPT ![c].state = s]
    BY <1>2 DEF Shutdown, HandleClose, States
  <2> QED  BY <1>1, <1>2, <2>1, RecordFacts DEF Shutdown, HandleClose, acceptVars
<1>3. ASSUME DtorBody
      PROVE  UNCHANGED <<nextConnId, next>>
             /\ \A d \in Conns : conn'[d].fd = conn[d].fd /\ conn'[d].loop = conn[d].loop
  BY <1>1, <1>3, RecordFacts DEF DtorBody, acceptVars
<1>4. ASSUME NEW l \in Loops, RunFunctor(l)
      PROVE  UNCHANGED <<nextConnId, next>>
             /\ \A d \in Conns : conn'[d].fd = conn[d].fd /\ conn'[d].loop = conn[d].loop
  <2> DEFINE c == Head(batch[l])[2]
  <2>1. c \in Conns
    BY <1>4, RunFacts
  <2>2. \/ conn' = [conn EXCEPT ![c].state = "kConnected"]
        \/ ConnectDestroyed({c})
        \/ conn' = conn
    BY <1>4 DEF RunFunctor, Established, connVars
  <2>3. "kConnected" \in States /\ UNCHANGED <<nextConnId, next>>
    BY <1>4 DEF States, RunFunctor, acceptVars
  <2> HIDE DEF c
  <2> QED  BY <1>1, <2>1, <2>2, <2>3, RecordFacts
<1>5. ASSUME ~HandleRead, ~DtorBody, ~ \E l \in Loops : RunFunctor(l),
             ~ \E c \in Conns : Shutdown(c) \/ HandleClose(c)
      PROVE  UNCHANGED <<nextConnId, next, conn>>
  <2> HIDE DEF IInv
  <2>1. \/ \E n \in 0..MaxThreads : SetThreadNum(n)
        \/ Start \/ StartElsewhere \/ ClientConnects
        \/ \E e \in AcceptErrors \union {"EMFILE"} : HandleReadFails(e)
        \/ QuitThread \/ JoinReturns \/ DtorEnds
        \/ \E l \in Loops : StartThread(l) \/ StartLoopReturns(l) \/ Publish(l) \/ EnterLoop(l)
                            \/ TakeFunctors(l) \/ EndRound(l)
        \/ UNCHANGED vars
    BY <1>5 DEF Next, BaseStep, ThreadStep
  <2> QED  BY <2>1 DEF SetThreadNum, Start, StartElsewhere, ClientConnects, HandleReadFails, QuitThread,
              JoinReturns, DtorEnds, StartThread, StartLoopReturns, Publish, EnterLoop, TakeFunctors,
              EndRound, vars, acceptVars, connVars
<1> QED  BY <1>2, <1>3, <1>4, <1>5

(* Only accepted connections are anywhere.                                 *)
LEMMA KnownStep == IInv /\ [Next]_vars => KnownInv'
<1> SUFFICES ASSUME IInv, [Next]_vars PROVE KnownInv'
  OBVIOUS
<1>1. /\ TypeOK /\ KnownInv /\ Known \subseteq Conns /\ MaxConns \in Nat
      /\ nextConnId \in 1..(MaxConns + 1) /\ backlog \in 0..MaxConns
      /\ backlog + nextConnId <= MaxConns + 1
  BY KnownFacts DEF IInv, TypeOK, KnownInv
<1>2. CASE HandleRead
  <2> DEFINE c == nextConnId
             l == NextLoop
  <2>1. /\ c \in Conns /\ c \notin Known /\ nextConnId' = c + 1 /\ connections' = connections \union {c}
        /\ backlog > 0 /\ backlog' = backlog - 1
        /\ registered' = (IF l = Base THEN registered \union {c} ELSE registered)
        /\ UNCHANGED destroyed
    BY <1>2, AcceptFacts DEF HandleRead
  <2>2. PICK fd \in Fds \ open :
           conn' = [conn EXCEPT ![c] =
                         [state |-> IF l = Base THEN "kConnected" ELSE "kConnecting",
                          loop |-> l, fd |-> fd]]
    BY <1>2, AcceptFacts
  <2> HIDE DEF l
  <2>3. Known' = Known \union {c}
    BY <1>1, <2>1 DEF Known
  <2>4. server = "up"
    BY <1>2 DEF HandleRead
  <2>5. fd \notin {listenFd, idleFd}
    BY <2>2, <2>4 DEF IInv, FdInv
  <2>6. conn'[c].fd = fd /\ \A d \in Known : conn'[d] = conn[d]
    BY <1>1, <2>1, <2>2 DEF TypeOK
  <2>7. \A d \in Known' : conn'[d].fd \notin {listenFd, idleFd}
    BY <1>1, <2>3, <2>5, <2>6 DEF KnownInv
  <2>8. backlog' + nextConnId' <= MaxConns + 1
    BY <1>1, <2>1
  <2> HIDE DEF c
  <2> QED  BY <1>1, <2>1, <2>3, <2>7, <2>8 DEF KnownInv
<1>3. CASE ~HandleRead
  <2>1. Known' = Known /\ nextConnId' = nextConnId
    BY <1>3, KeepsPlace DEF Known
  <2>2. \A c \in Known' : conn'[c].fd \notin {listenFd, idleFd}
    BY <1>1, <1>3, <2>1, KeepsPlace DEF KnownInv
  <2>3. connections' \subseteq connections
    BY <1>3 DEF Next, BaseStep, ThreadStep, SetThreadNum, Start, StartElsewhere, ClientConnects,
              HandleReadFails, QuitThread, Shutdown, HandleClose, RemoveConnectionInLoop, DtorBody,
              RunFunctor, JoinReturns, DtorEnds, StartThread, StartLoopReturns, Publish, EnterLoop,
              TakeFunctors, EndRound, vars, connVars
  <2>4. registered' \subseteq Known
    <3>1. ASSUME NEW l \in Loops, RunFunctor(l) PROVE registered' \subseteq Known
      <4>1. Head(batch[l])[2] \in Known
        BY <3>1, RunFacts
      <4> QED  BY <1>1, <3>1, <4>1 DEF RunFunctor, Established, ConnectDestroyed, KnownInv, connVars
    <3>2. ASSUME ~ \E l \in Loops : RunFunctor(l) PROVE registered' \subseteq registered
      BY <1>3, <3>2 DEF Next, BaseStep, ThreadStep, SetThreadNum, Start, StartElsewhere, ClientConnects,
              HandleReadFails, QuitThread, Shutdown, HandleClose, ConnectDestroyed, DtorBody,
              JoinReturns, DtorEnds, StartThread, StartLoopReturns, Publish, EnterLoop,
              TakeFunctors, EndRound, vars, connVars
    <3> QED  BY <1>1, <3>1, <3>2 DEF KnownInv
  <2>5. destroyed' = destroyed \/ Release
    BY <1>3 DEF Next, BaseStep, ThreadStep, SetThreadNum, Start, StartElsewhere, ClientConnects,
              HandleReadFails, QuitThread, Shutdown, HandleClose, DtorBody,
              RunFunctor, JoinReturns, DtorEnds, StartThread, StartLoopReturns, Publish, EnterLoop,
              TakeFunctors, EndRound, vars
  <2>6. destroyed' \subseteq Known
    BY <1>1, <2>5 DEF Release, Known, KnownInv
  <2>7. backlog' + nextConnId' <= MaxConns + 1
    <3>1. backlog' \in 0..backlog \/ (backlog' = backlog + 1 /\ backlog + nextConnId <= MaxConns)
      <4>1. backlog \in 0..backlog /\ 0 \in 0..backlog
        BY <1>1
      <4> QED  BY <1>3, <4>1 DEF Next, BaseStep, ThreadStep, SetThreadNum, Start, StartElsewhere,
              ClientConnects, HandleReadFails, ErrnoOf, Expected, QuitThread, Shutdown, HandleClose,
              DtorBody, RunFunctor, JoinReturns, DtorEnds, StartThread, StartLoopReturns, Publish,
              EnterLoop, TakeFunctors, EndRound, vars, acceptVars
    <3> QED  BY <1>1, <2>1, <3>1
  <2> QED  BY <1>1, <2>1, <2>2, <2>3, <2>4, <2>6, <2>7 DEF KnownInv
<1> QED  BY <1>2, <1>3

(* Descriptors are opened by accept and closed with their last owner.      *)
LEMMA FdStep == IInv /\ [Next]_vars => FdInv'
<1> SUFFICES ASSUME IInv, [Next]_vars PROVE FdInv'
  OBVIOUS
<1>1. /\ TypeOK /\ FdInv /\ KnownInv /\ Known \subseteq Conns /\ Live = Known \ destroyed
      /\ \A c \in Known : conn[c].fd \notin {listenFd, idleFd}
  BY KnownFacts DEF IInv, KnownInv
<1>2. Live' = Known' \ destroyed'
  <2>1. MaxConns \in Nat /\ nextConnId' \in 1..(MaxConns + 1)
    BY TypeStep, ServerAssumption DEF TypeOK
  <2>2. Known' \subseteq Conns /\ \A c \in Conns : c \in Known' <=> c < nextConnId'
    <3> DEFINE n == nextConnId'
    <3>1. Known' = 1..(n - 1)
      BY DEF Known
    <3> HIDE DEF n
    <3>2. n \in 1..(MaxConns + 1)
      BY <2>1 DEF n
    <3>3. 1..(n - 1) \subseteq 1..MaxConns /\ \A c \in 1..MaxConns : c \in 1..(n - 1) <=> c < n
      BY <2>1, <3>2
    <3> QED  BY <3>1, <3>3 DEF Conns, n
  <2> QED  BY <2>2 DEF Live
<1>3. CASE HandleRead
  <2> DEFINE c == nextConnId
             l == NextLoop
  <2>1. c \in Conns /\ c \notin Known /\ nextConnId' = c + 1 /\ UNCHANGED <<destroyed, server>>
    BY <1>3, AcceptFacts DEF HandleRead
  <2>2. PICK fd \in Fds \ open :
           /\ open' = open \union {fd}
           /\ conn' = [conn EXCEPT ![c] =
                         [state |-> IF l = Base THEN "kConnected" ELSE "kConnecting",
                          loop |-> l, fd |-> fd]]
    BY <1>3, AcceptFacts
  <2> HIDE DEF l
  <2>3. Known' = Known \union {c} /\ c \notin destroyed
    BY <1>1, <2>1, KnownFacts DEF Known, KnownInv
  <2>4. conn'[c].fd = fd /\ \A d \in Known : conn'[d] = conn[d]
    BY <1>1, <2>1, <2>2 DEF TypeOK
  <2> HIDE DEF c
  <2>5. Live' = Live \union {c} /\ c \notin Live
    BY <1>1, <1>2, <2>1, <2>3
  <2>6. {conn'[d].fd : d \in Live'} = {conn[d].fd : d \in Live} \union {fd}
    BY <1>1, <2>4, <2>5
  <2>7. \A d \in Live : conn[d].fd # fd /\ conn'[d] = conn[d]
    BY <1>1, <2>2, <2>4 DEF FdInv
  <2>8. \A d, e \in Live' : conn'[d].fd = conn'[e].fd => d = e
    BY <1>1, <2>4, <2>5, <2>7 DEF FdInv
  <2> QED  BY <1>1, <2>1, <2>2, <2>6, <2>8 DEF FdInv
<1>4. CASE ~HandleRead
  <2>1. Known' = Known /\ \A c \in Conns : conn'[c].fd = conn[c].fd
    BY <1>4, KeepsPlace DEF Known
  <2>2. CASE Release /\ (server' = "gone" <=> server = "gone")
    <3> DEFINE dead == (1..(nextConnId - 1)) \ (Referenced' \union destroyed)
    <3>1. dead \subseteq Live /\ destroyed' = destroyed \union dead
          /\ open' = open \ {conn[c].fd : c \in dead}
      BY <1>1, <2>2 DEF Release, Known
    <3> HIDE DEF dead
    <3>2. Live' = Live \ dead
      BY <1>1, <1>2, <2>1, <3>1
    <3>3. \A c \in Live : conn'[c].fd = conn[c].fd /\ conn[c].fd \notin {listenFd, idleFd}
      BY <1>1, <2>1
    <3>4. {conn'[c].fd : c \in Live'} = {conn[c].fd : c \in Live} \ {conn[c].fd : c \in dead}
      BY <1>1, <3>1, <3>2, <3>3 DEF FdInv
    <3>5. {listenFd, idleFd} \ {conn[c].fd : c \in dead} = {listenFd, idleFd}
      BY <3>1, <3>3
    <3>6. \A c, d \in Live' : conn'[c].fd = conn'[d].fd => c = d
      BY <1>1, <3>2, <3>3 DEF FdInv
    <3> QED  BY <1>1, <2>2, <3>1, <3>4, <3>5, <3>6 DEF FdInv
  <2>3. CASE DtorEnds
    <3>1. open' = open \ {listenFd, idleFd} /\ server' = "gone" /\ server = "dtor" /\ destroyed' = destroyed
      BY <2>3 DEF DtorEnds, At, IInv, LoopInv
    <3>2. Live' = Live
      BY <1>1, <1>2, <2>1, <3>1
    <3>3. \A c \in Live : conn'[c].fd = conn[c].fd /\ conn[c].fd \notin {listenFd, idleFd}
      BY <1>1, <2>1
    <3>4. {conn'[c].fd : c \in Live'} = {conn[c].fd : c \in Live}
      BY <3>2, <3>3
    <3> QED  BY <1>1, <3>1, <3>2, <3>3, <3>4 DEF FdInv
  <2>4. CASE UNCHANGED <<open, destroyed, server>>
    <3>1. Live' = Live
      BY <1>1, <1>2, <2>1, <2>4
    <3>2. \A c \in Live : conn'[c].fd = conn[c].fd
      BY <1>1, <2>1
    <3>3. {conn'[c].fd : c \in Live'} = {conn[c].fd : c \in Live}
      BY <3>1, <3>2
    <3> QED  BY <1>1, <2>4, <3>1, <3>2, <3>3 DEF FdInv
  <2>5. \/ Release /\ (server' = "gone" <=> server = "gone")
        \/ DtorEnds
        \/ UNCHANGED <<open, destroyed, server>>
    <3>1. ASSUME DtorBody PROVE Release /\ (server' = "gone" <=> server = "gone")
      BY <3>1 DEF DtorBody
    <3>2. ASSUME NEW l \in Loops, EndRound(l) PROVE Release /\ (server' = "gone" <=> server = "gone")
      BY <3>2 DEF EndRound
    <3>3. ASSUME ~DtorBody, ~DtorEnds, ~ \E l \in Loops : EndRound(l)
          PROVE  UNCHANGED <<open, destroyed, server>>
      BY <1>4, <3>3 DEF Next, BaseStep, ThreadStep, SetThreadNum, Start, StartElsewhere, ClientConnects,
              HandleReadFails, QuitThread, Shutdown, HandleClose,
              RunFunctor, JoinReturns, StartThread, StartLoopReturns, Publish, EnterLoop,
              TakeFunctors, vars
    <3> QED  BY <3>1, <3>2, <3>3
  <2> QED  BY <2>2, <2>3, <2>4, <2>5
<1> QED  BY <1>3, <1>4

-----------------------------------------------------------------------------
(* Who is given the connections.                                           *)
On(m) == {c \in Known : conn[c].loop = m}

(* What a loop was given can be counted.                                   *)
LEMMA GivenFacts ==
    ASSUME TypeOK
    PROVE  \A m : IsFiniteSet(On(m)) /\ Given(m) = Cardinality(On(m)) /\ Given(m) \in Nat
<1> SUFFICES ASSUME NEW m
             PROVE  IsFiniteSet(On(m)) /\ Given(m) = Cardinality(On(m)) /\ Given(m) \in Nat
  OBVIOUS
<1>1. IsFiniteSet(Known)
  <2>1. nextConnId - 1 \in Int
    BY KnownFacts
  <2> QED  BY <2>1, FS_Interval DEF Known
<1>2. On(m) \subseteq Known
  BY DEF On
<1>3. Given(m) = Cardinality(On(m))
  BY DEF Given, On, Known
<1>4. IsFiniteSet(On(m))
  BY <1>1, <1>2, FS_Subset
<1>5. Cardinality(On(m)) \in Nat
  BY <1>4, FS_CardinalityType
<1> QED  BY <1>3, <1>4, <1>5

(* newConnection gives one loop one connection more.                       *)
LEMMA GivenNext ==
    ASSUME IInv, HandleRead
    PROVE  \A m : Given(m)' = IF m = NextLoop THEN Given(m) + 1 ELSE Given(m)
<1> DEFINE c == nextConnId
           l == NextLoop
<1>1. c \in Conns /\ c \notin Known /\ nextConnId' = c + 1
  BY AcceptFacts
<1>2. PICK fd \in Fds \ open :
         conn' = [conn EXCEPT ![c] =
                     [state |-> IF l = Base THEN "kConnected" ELSE "kConnecting",
                      loop |-> l, fd |-> fd]]
  BY AcceptFacts
<1>3. TypeOK /\ Known \subseteq Conns /\ Known' = Known \union {c}
  BY <1>1, KnownFacts DEF IInv, Known
<1> HIDE DEF l
<1>4. conn'[c].loop = l /\ \A d \in Known : conn'[d] = conn[d]
  BY <1>1, <1>2, <1>3 DEF TypeOK
<1> HIDE DEF c
<1> SUFFICES ASSUME NEW m PROVE Given(m)' = IF m = NextLoop THEN Given(m) + 1 ELSE Given(m)
  OBVIOUS
<1>5. Given(m)' = Cardinality({d \in Known' : conn'[d].loop = m})
  BY DEF Given, Known
<1>6. IsFiniteSet(On(m)) /\ Given(m) = Cardinality(On(m))
  BY <1>3, GivenFacts
<1>7. CASE m = l
  <2>1. {d \in Known' : conn'[d].loop = m} = On(m) \union {c} /\ c \notin On(m)
    BY <1>1, <1>3, <1>4, <1>7 DEF On
  <2>2. Cardinality(On(m) \union {c}) = Cardinality(On(m)) + 1
    BY <1>6, <2>1, FS_AddElement
  <2> QED  BY <1>5, <1>6, <1>7, <2>1, <2>2 DEF l
<1>8. CASE m # l
  <2>1. {d \in Known' : conn'[d].loop = m} = On(m)
    BY <1>1, <1>3, <1>4, <1>8 DEF On
  <2> QED  BY <1>5, <1>6, <1>8, <2>1 DEF l
<1> QED  BY <1>7, <1>8

(* Every step keeps the shares even.                                       *)
LEMMA ShareStep == IInv /\ [Next]_vars => ShareInv'
<1> SUFFICES ASSUME IInv, [Next]_vars PROVE ShareInv'
  OBVIOUS
<1>1. TypeOK /\ LoopInv /\ ShareInv /\ Known \subseteq Conns /\ next \in Nat
  BY KnownFacts DEF IInv, TypeOK
<1>2. /\ Len(loops) \in 0..MaxThreads /\ MaxThreads \in Nat
      /\ \A i \in 1..Len(loops) : loops[i] = i /\ loops[i] \in Loops \ {Base}
  BY <1>1, PoolFacts
<1>e. loops = <<>> <=> Len(loops) = 0
  BY <1>1 DEF TypeOK
<1>3. CASE HandleRead
  <2> DEFINE c == nextConnId
             l == NextLoop
             n == Len(loops)
  <2>1. /\ c \in Conns /\ c \notin Known /\ nextConnId' = c + 1
        /\ l = Base <=> loops = <<>>
        /\ UNCHANGED <<loops, started>> /\ next' = AfterNext /\ started /\ pc'[Base] # "start"
    <3>1. listenning /\ pc' = [pc EXCEPT ![Base] = "handled"] /\ Base \in DOMAIN pc
      BY <1>1, <1>2, <1>3 DEF HandleRead, Go, TypeOK, Loops, Base
    <3>2. pc'[Base] # "start"
      BY <3>1
    <3>3. started
      BY <1>1, <3>1 DEF LoopInv
    <3> QED  BY <1>3, <3>2, <3>3, AcceptFacts DEF HandleRead, NewConnection, poolVars
  <2>2. PICK fd \in Fds \ open :
         conn' = [conn EXCEPT ![c] =
                     [state |-> IF l = Base THEN "kConnected" ELSE "kConnecting",
                      loop |-> l, fd |-> fd]]
    BY <1>3, AcceptFacts
  <2>3. Known' = Known \union {c}
    BY <1>1, <2>1, KnownFacts DEF Known
  <2>4. \A d \in Known' : conn'[d].loop = Base <=> loops' = <<>>
    <3> HIDE DEF l
    <3>1. conn'[c].loop = l /\ \A d \in Known : conn'[d] = conn[d]
      BY <1>1, <2>1, <2>2 DEF TypeOK
    <3> HIDE DEF c
    <3> QED  BY <1>1, <2>1, <2>3, <3>1 DEF ShareInv
  <2>5. CASE loops = <<>>
    <3>1. next' = next /\ next = 0 /\ \A i \in 1..Len(loops') : FALSE
      BY <1>1, <1>2, <1>e, <2>1, <2>5 DEF AfterNext, ShareInv
    <3>2. \A i \in 1..Len(loops') : Given(loops[i])' = IF i <= next' THEN 0 + 1 ELSE 0
      BY <3>1
    <3> QED  BY <2>1, <2>4, <2>5, <3>1, <3>2 DEF ShareInv
  <2>6. CASE loops # <<>>
    <3>1. next < n /\ n \in Nat /\ l = next + 1 /\ next + 1 \in 1..n
      <4>1. next < n
        BY <1>1, <2>6 DEF ShareInv
      <4>2. next + 1 \in 1..n
        BY <1>1, <1>2, <4>1
      <4>3. l = next + 1
        BY <1>2, <2>6, <4>2 DEF NextLoop
      <4> QED  BY <1>2, <4>1, <4>2, <4>3
    <3>2. PICK q \in Nat : \A i \in 1..n : Given(loops[i]) = IF i <= next THEN q + 1 ELSE q
      BY <1>1 DEF ShareInv
    <3>3. \A i \in 1..n : Given(loops[i])' = IF i <= next + 1 THEN q + 1 ELSE q
      <4> SUFFICES ASSUME NEW i \in 1..n PROVE Given(loops[i])' = IF i <= next + 1 THEN q + 1 ELSE q
        OBVIOUS
      <4>1. loops'[i] = i /\ loops[i] = i
        BY <1>2, <2>1
      <4>2. Given(i)' = IF i = l THEN Given(i) + 1 ELSE Given(i)
        BY <1>3, GivenNext
      <4>3. Given(i) = IF i <= next THEN q + 1 ELSE q
        BY <3>2, <4>1
      <4> DEFINE g == Given(i)
                 h == Given(i)'
      <4>4. Given(loops[i])' = h
        BY <4>1 DEF Given
      <4> HIDE DEF g, h, l, n
      <4>5. (h = IF i = l THEN g + 1 ELSE g) /\ g = IF i <= next THEN q + 1 ELSE q
        BY <4>2, <4>3 DEF g, h
      <4>6. i \in Nat /\ next \in Nat
        BY <1>1, <3>1
      <4>7. h = IF i <= next + 1 THEN q + 1 ELSE q
        BY <3>1, <4>5, <4>6
      <4> QED  BY <4>4, <4>7
    <3>4. CASE next + 1 >= n
      <4>1. next' = 0
        BY <2>1, <2>6, <3>4 DEF AfterNext
      <4>2. \A i \in 1..n : Given(loops[i])' = IF i <= next' THEN (q + 1) + 1 ELSE q + 1
        <5>1. \A i \in 1..n : i <= next + 1 /\ ~ (i <= 0)
          BY <1>1, <3>1, <3>4
        <5> QED  BY <3>3, <4>1, <5>1
      <4>3. q + 1 \in Nat /\ next' < n
        BY <3>1, <3>2, <4>1, <1>1
      <4> QED  BY <2>1, <2>4, <2>6, <4>1, <4>2, <4>3 DEF ShareInv
    <3>5. CASE ~ (next + 1 >= n)
      <4>1. next' = next + 1 /\ next + 1 < n
        BY <1>1, <2>1, <2>6, <3>1, <3>5 DEF AfterNext
      <4> QED  BY <2>1, <2>4, <2>6, <3>3, <4>1 DEF ShareInv
    <3> QED  BY <3>4, <3>5
  <2> QED  BY <2>5, <2>6
<1>4. ASSUME NEW l \in Loops, StartLoopReturns(l) PROVE ShareInv'
  <2>1. pc[Base] = "start" /\ nextConnId = 1 /\ next = 0 /\ UNCHANGED <<nextConnId, next>> /\ loops' = Append(loops, l)
    BY <1>1, <1>4 DEF StartLoopReturns, At, LoopInv, ShareInv, acceptVars
  <2>2. Known' = {} /\ \A m : Given(m)' = 0
    <3>1. Known' = {}
      BY <2>1 DEF Known
    <3>2. \A m : {c \in 1..(nextConnId' - 1) : conn'[c].loop = m} = {}
      BY <2>1
    <3>3. \A m : Given(m)' = Cardinality({})
      BY <3>2 DEF Given
    <3> QED  BY <3>1, <3>3, FS_EmptySet
  <2>3. loops' # <<>> /\ Len(loops') = Len(loops) + 1
    <3> DEFINE E == Loops \ {Base}
    <3>1. loops \in Seq(E) /\ l \in E
      BY <1>1, <1>2, <1>4 DEF TypeOK, Base, StartLoopReturns
    <3> HIDE DEF E
    <3> QED  BY <2>1, <3>1
  <2>4. next' = 0 /\ 0 < Len(loops')
    BY <1>2, <2>1, <2>3
  <2>5. \A i \in 1..Len(loops') : Given(loops[i])' = IF i <= next' THEN 0 + 1 ELSE 0
    <3>1. \A i \in 1..Len(loops') : ~ (i <= 0)
      OBVIOUS
    <3>2. \A i \in 1..Len(loops') : Given(loops[i])' = 0
      BY <2>2 DEF Given
    <3> QED  BY <2>4, <3>1, <3>2
  <2> QED  BY <2>2, <2>3, <2>4, <2>5 DEF ShareInv
<1>5. CASE ~HandleRead /\ ~ \E l \in Loops : StartLoopReturns(l)
  <2>1. UNCHANGED <<nextConnId, next>> /\ \A c \in Conns : conn'[c].loop = conn[c].loop
    BY <1>5, KeepsPlace
  <2>2. UNCHANGED loops /\ Known' = Known
    BY <1>5, <2>1 DEF Known, Next, BaseStep, ThreadStep, SetThreadNum, Start, StartElsewhere,
              ClientConnects, HandleReadFails, QuitThread, Shutdown, HandleClose, DtorBody,
              RunFunctor, JoinReturns, DtorEnds, StartThread, Publish, EnterLoop,
              TakeFunctors, EndRound, vars, poolVars
  <2>3. \A m : Given(m)' = Given(m)
    <3>1. \A c \in 1..(nextConnId - 1) : conn'[c].loop = conn[c].loop
      BY <1>1, <2>1 DEF Known
    <3>2. \A m : {c \in 1..(nextConnId - 1) : conn'[c].loop = m} = {c \in 1..(nextConnId - 1) : conn[c].loop = m}
      BY <3>1
    <3> QED  BY <2>1, <3>2 DEF Given
  <2>4. pc'[Base] = "start" \/ ~started' => pc[Base] = "start" \/ ~started
    <3>1. started' = started \/ started' = TRUE
      BY <1>5 DEF Next, BaseStep, ThreadStep, SetThreadNum, Start, StartElsewhere,
              ClientConnects, HandleReadFails, QuitThread, Shutdown, HandleClose, DtorBody,
              RunFunctor, JoinReturns, DtorEnds, StartThread, Publish, EnterLoop,
              TakeFunctors, EndRound, vars, poolVars
    <3>2. \/ ~started
          \/ UNCHANGED pc
          \/ \E m : \E k \in {"callback", "published", "poll", "handled", "run", "dtor", "join", "exited"} :
                pc' = [pc EXCEPT ![m] = k]
      BY <1>5 DEF Next, BaseStep, ThreadStep, SetThreadNum, Start, StartElsewhere, Go,
              ClientConnects, HandleReadFails, QuitThread, Shutdown, HandleClose, DtorBody,
              RunFunctor, JoinReturns, DtorEnds, StartThread, Publish, EnterLoop,
              TakeFunctors, EndRound, vars, poolVars, loopVars
    <3>3. Base \in DOMAIN pc
      BY <1>1, <1>2 DEF TypeOK, Base, Loops
    <3> QED  BY <3>1, <3>2, <3>3
  <2>5. \A i \in 1..Len(loops') : Given(loops[i])' = Given(loops[i])
    BY <2>2, <2>3 DEF Given
  <2>6. PICK q \in Nat : \A i \in 1..Len(loops) : Given(loops[i]) = IF i <= next THEN q + 1 ELSE q
    BY <1>1 DEF ShareInv
  <2>7. \A i \in 1..Len(loops') : Given(loops[i])' = IF i <= next' THEN q + 1 ELSE q
    BY <2>1, <2>2, <2>5, <2>6
  <2>8. \A c \in Known' : conn'[c].loop = Base <=> loops' = <<>>
    BY <1>1, <2>1, <2>2 DEF ShareInv
  <2> QED  BY <1>1, <2>1, <2>2, <2>4, <2>7, <2>8 DEF ShareInv
<1> QED  BY <1>3, <1>4, <1>5

-----------------------------------------------------------------------------
(* What the steps do to the functors that wait.                            *)
LEMMA PushEffect ==
    ASSUME IInv, NEW l \in Loops, NEW f \in Functors, NEW c \in Conns, Push(l, f, c), UNCHANGED batch,
           ~ Waits(l, f, c), f = "connectEstablished" => ~ Waits(l, "connectDestroyed", c)
    PROVE  /\ Orderly(Todo')
           /\ \A m \in Loops : \A g, d :
                 Has(Todo'[m], <<g, d>>) <=> Has(Todo[m], <<g, d>>) \/ (m = l /\ g = f /\ d = c)
<1> DEFINE x == <<f, c>>
<1>1. TypeOK /\ x \in FC /\ Orderly(Todo) /\ Todo \in [Loops -> Seq(FC)]
  BY QueueTypes DEF FC, IInv, TodoInv, Orderly
<1>2. Todo' = [Todo EXCEPT ![l] = Append(@, x)]
  BY <1>1, PushTodo DEF Push
<1>3. ~ Has(Todo[l], x) /\ (x[1] = "connectEstablished" => ~ Has(Todo[l], <<"connectDestroyed", x[2]>>))
  BY DEF Waits
<1>4. \A g, d : <<g, d>> = x <=> g = f /\ d = c
  OBVIOUS
<1> HIDE DEF x
<1>5. /\ Orderly(Todo')
      /\ \A m \in Loops : \A y : Has(Todo'[m], y) <=> Has(Todo[m], y) \/ (m = l /\ y = x)
  BY <1>1, <1>2, <1>3, PushOn
<1> QED  BY <1>4, <1>5

(* The functors after one was run.                                         *)
LEMMA PopEffect ==
    ASSUME IInv, NEW l \in Loops, RunFunctor(l), UNCHANGED queue
    PROVE  /\ Orderly(Todo')
           /\ \A m \in Loops : \A g, d :
                 Has(Todo'[m], <<g, d>>) <=>
                    Has(Todo[m], <<g, d>>) /\ ~ (m = l /\ g = Head(batch[l])[1] /\ d = Head(batch[l])[2])
<1> DEFINE x == Head(batch[l])
<1>1. TypeOK /\ Orderly(Todo) /\ Todo \in [Loops -> Seq(FC)]
  BY QueueTypes DEF IInv, TodoInv, Orderly
<1>2. batch[l] # <<>> /\ batch' = [batch EXCEPT ![l] = Tail(@)]
  BY DEF RunFunctor
<1>3. Todo' = [Todo EXCEPT ![l] = Tail(@)]
  BY <1>1, <1>2, PopTodo
<1>4. Todo[l] # <<>> /\ x = Head(Todo[l]) /\ x = <<x[1], x[2]>>
  BY RunFacts
<1> HIDE DEF x
<1>5. \A g, d : <<g, d>> = x <=> g = x[1] /\ d = x[2]
  BY <1>4
<1>6. /\ Orderly(Todo')
      /\ \A m \in Loops : \A y : Has(Todo'[m], y) <=> Has(Todo[m], y) /\ ~ (m = l /\ y = x)
  BY <1>1, <1>3, <1>4, PopOn
<1> QED  BY <1>5, <1>6 DEF x

(* The functors after one was run that queued connectDestroyed.            *)
LEMMA PopPushEffect ==
    ASSUME IInv, NEW l \in Loops, RunFunctor(l), NEW k \in Loops,
           Push(k, "connectDestroyed", Head(batch[l])[2]), Head(batch[l])[1] # "connectDestroyed",
           ~ Waits(k, "connectDestroyed", Head(batch[l])[2])
    PROVE  /\ Orderly(Todo')
           /\ \A m \in Loops : \A g, d :
                 Has(Todo'[m], <<g, d>>) <=>
                    \/ Has(Todo[m], <<g, d>>) /\ ~ (m = l /\ g = Head(batch[l])[1] /\ d = Head(batch[l])[2])
                    \/ m = k /\ g = "connectDestroyed" /\ d = Head(batch[l])[2]
<1> DEFINE x == Head(batch[l])
           y == <<"connectDestroyed", x[2]>>
           U == [Todo EXCEPT ![l] = Tail(@)]
<1>1. TypeOK /\ Orderly(Todo) /\ Todo \in [Loops -> Seq(FC)]
  BY QueueTypes DEF IInv, TodoInv, Orderly
<1>2. batch[l] # <<>> /\ batch' = [batch EXCEPT ![l] = Tail(@)]
  BY DEF RunFunctor
<1>3. x \in FC /\ x[2] \in Conns /\ Todo[l] # <<>> /\ x = Head(Todo[l]) /\ x = <<x[1], x[2]>>
  BY RunFacts
<1>4. y \in FC /\ queue' = [queue EXCEPT ![k] = Append(@, y)]
  BY <1>3 DEF FC, Functors, Push
<1>5. ~ Has(Todo[k], y) /\ y[1] = "connectDestroyed"
  BY DEF Waits
<1>6. \A g, d : <<g, d>> = y <=> g = "connectDestroyed" /\ d = x[2]
  OBVIOUS
<1> HIDE DEF x
<1>7. \A g, d : <<g, d>> = x <=> g = x[1] /\ d = x[2]
  BY <1>3
<1> HIDE DEF y
<1>8. Todo' = [U EXCEPT ![k] = Append(@, y)]
  BY <1>1, <1>2, <1>4, PopPushTodo
<1>9. /\ U \in [Loops -> Seq(FC)] /\ Orderly(U)
      /\ \A m \in Loops : \A z : Has(U[m], z) <=> Has(Todo[m], z) /\ ~ (m = l /\ z = x)
  BY <1>1, <1>3, PopOn
<1> HIDE DEF U
<1>10. ~ Has(U[k], y) /\ y[1] # "connectEstablished"
  BY <1>5, <1>9
<1>11. /\ Orderly(Todo')
       /\ \A m \in Loops : \A z : Has(Todo'[m], z) <=> Has(U[m], z) \/ (m = k /\ z = y)
  <2> DEFINE V == [U EXCEPT ![k] = Append(@, y)]
  <2>1. Orderly(V) /\ \A m \in Loops : \A z : Has(V[m], z) <=> Has(U[m], z) \/ (m = k /\ z = y)
    BY <1>4, <1>9, <1>10, PushOn
  <2> HIDE DEF V
  <2>2. Todo' = V
    BY <1>8 DEF V
  <2> QED  BY <2>1, <2>2
<1> QED  BY <1>6, <1>7, <1>9, <1>11 DEF x

(* The functors after ~TcpServer queued connectDestroyed to all.           *)
LEMMA DtorEffect ==
    ASSUME IInv, DtorBody
    PROVE  /\ Orderly(Todo')
           /\ \A m \in Loops : \A g, d :
                 Has(Todo'[m], <<g, d>>) <=>
                    \/ Has(Todo[m], <<g, d>>)
                    \/ g = "connectDestroyed" /\ d \in connections /\ conn[d].loop = m /\ m # Base
<1>1. TypeOK /\ Orderly(Todo) /\ Todo \in [Loops -> Seq(FC)] /\ connections \subseteq Conns
  BY QueueTypes DEF IInv, TodoInv, Orderly, TypeOK
<1>2. Todo' = [l \in Loops |-> Todo[l] \o DestroyOn(l)]
  BY <1>1, DtorTodo DEF DtorBody
<1>3. ASSUME NEW l \in Loops
      PROVE  /\ Once(Todo'[l]) /\ Early(Todo'[l])
             /\ \A g, d : Has(Todo'[l], <<g, d>>) <=>
                    \/ Has(Todo[l], <<g, d>>)
                    \/ g = "connectDestroyed" /\ d \in connections /\ conn[d].loop = l /\ l # Base
  <2> DEFINE s == Todo[l]
             t == DestroyOn(l)
             u == Todo'[l]
  <2>1. s \in Seq(FC) /\ Once(s) /\ Early(s) /\ u = s \o t
    BY <1>1, <1>2 DEF Orderly
  <2>2. /\ t \in Seq(FC) /\ Once(t) /\ \A i \in 1..Len(t) : t[i][1] = "connectDestroyed"
        /\ \A x : Has(t, x) <=>
              \E c \in connections : conn[c].loop = l /\ l # Base /\ x = <<"connectDestroyed", c>>
    BY <1>1, DestroyFacts
  <2> HIDE DEF s, t, u
  <2>3. \A x : Has(t, x) => ~ Has(s, x)
    <3> SUFFICES ASSUME NEW x, Has(t, x) PROVE ~ Has(s, x)
      OBVIOUS
    <3>1. PICK c \in connections : conn[c].loop = l /\ x = <<"connectDestroyed", c>>
      BY <2>2
    <3>2. c \in Known /\ pc[l] # "exited" /\ c \in Conns
      BY <1>1, <3>1 DEF IInv, KnownInv, LoopInv, DtorBody
    <3>3. Lives(c)
      BY <3>1, <3>2 DEF IInv, LifeInv
    <3> QED  BY <3>1, <3>3 DEF Lives, Waits, s
  <2>4. Once(u) /\ Early(u) /\ \A y : Has(u, y) <=> Has(s, y) \/ Has(t, y)
    BY <2>1, <2>2, <2>3, ConcatFacts
  <2>5. \A g, d : Has(t, <<g, d>>) <=>
           g = "connectDestroyed" /\ d \in connections /\ conn[d].loop = l /\ l # Base
    BY <2>2
  <2> QED  BY <2>4, <2>5 DEF s, u
<1> QED  BY <1>3 DEF Orderly

(* The functors after a round; none on a loop that exits.                  *)
LEMMA DropEffect ==
    ASSUME IInv, NEW l \in Loops, EndRound(l)
    PROVE  /\ Orderly(Todo')
           /\ \A m \in Loops : \A y : Has(Todo'[m], y) <=> Has(Todo[m], y) /\ ~ (m = l /\ quit[l])
<1>1. TypeOK /\ Orderly(Todo) /\ Todo \in [Loops -> Seq(FC)] /\ batch[l] = <<>> /\ UNCHANGED batch
  BY QueueTypes DEF IInv, TodoInv, Orderly, EndRound
<1>2. CASE ~ quit[l]
  <2>1. Todo' = Todo
    BY <1>1, <1>2, SameTodo DEF EndRound
  <2> QED  BY <1>1, <1>2, <2>1
<1>3. CASE quit[l]
  <2>1. Todo' = [Todo EXCEPT ![l] = <<>>]
    BY <1>1, <1>3, DropTodo DEF EndRound
  <2>2. Once(<<>>) /\ Early(<<>>) /\ \A y : ~ Has(<<>>, y)
    BY DEF Once, Early, Has
  <2>3. \A m \in Loops : Todo'[m] = IF m = l THEN <<>> ELSE Todo[m]
    <3> HIDE DEF FC
    <3> QED  BY <1>1, <2>1
  <2> QED  BY <1>1, <1>3, <2>2, <2>3 DEF Orderly
<1> QED  BY <1>2, <1>3

(* Nobody waits for a connection that nothing refers to.                   *)
LEMMA Unreferenced ==
    ASSUME TypeOK', LoopInv', NEW c \in Conns, c \notin Referenced'
    PROVE  c \notin connections' /\ \A m \in Loops, f \in Functors : ~ Has(Todo'[m], <<f, c>>)
<1>1. batch' \in [Loops -> Seq(FC)] /\ queue' \in [Loops -> Seq(FC)]
  BY DEF TypeOK, FC
<1>2. ASSUME NEW m \in Loops PROVE c \notin Bound(queue'[m]) /\ c \notin Bound(batch'[m])
  BY DEF Referenced, LoopInv
<1>3. ASSUME NEW m \in Loops, NEW f \in Functors PROVE ~ Has(Todo'[m], <<f, c>>)
  <2>1. Todo'[m] = batch'[m] \o queue'[m]
    BY DEF Todo
  <2>2. batch'[m] \in Seq(FC) /\ queue'[m] \in Seq(FC)
    BY <1>1
  <2>3. Has(batch'[m] \o queue'[m], <<f, c>>) => c \in Bound(batch'[m]) \union Bound(queue'[m])
    BY <2>2, BoundFacts
  <2> QED  BY <1>2, <2>1, <2>3
<1>4. c \notin connections'
  BY DEF Referenced
<1> QED  BY <1>3, <1>4

-----------------------------------------------------------------------------
(* The functors of the connections a step does not concern wait as before. *)
LEMMA TodoFrame ==
    ASSUME IInv, Orderly(Todo'), Known \subseteq Known',
           \A c \in Known : /\ conn'[c].loop = conn[c].loop
                            /\ conn[c].state = "kDisconnected" => conn'[c].state = "kDisconnected",
           \A l \in Loops, c \in Conns, f \in Functors :
              Has(Todo'[l], <<f, c>>) =>
                 \/ Has(Todo[l], <<f, c>>)
                 \/ /\ c \in Known'
                    /\ IF f = "removeConnectionInLoop"
                       THEN l = Base /\ conn'[c].state = "kDisconnected" ELSE conn'[c].loop = l
    PROVE  TodoInv'
<1> SUFFICES ASSUME NEW l \in Loops, NEW c \in Conns
             PROVE  /\ \A f \in Functors : Has(Todo'[l], <<f, c>>) => c \in Known'
                    /\ Has(Todo'[l], <<"connectEstablished", c>>) => conn'[c].loop = l
                    /\ Has(Todo'[l], <<"connectDestroyed", c>>) => conn'[c].loop = l
                    /\ Has(Todo'[l], <<"removeConnectionInLoop", c>>) =>
                           l = Base /\ conn'[c].state = "kDisconnected"
  BY DEF TodoInv, Waits, Orderly
<1>1. /\ \A f \in Functors : Has(Todo[l], <<f, c>>) => c \in Known
      /\ Has(Todo[l], <<"connectEstablished", c>>) => conn[c].loop = l
      /\ Has(Todo[l], <<"connectDestroyed", c>>) => conn[c].loop = l
      /\ Has(Todo[l], <<"removeConnectionInLoop", c>>) =>
            l = Base /\ conn[c].state = "kDisconnected"
  BY DEF IInv, TodoInv, Waits
<1>2. /\ "connectEstablished" \in Functors /\ "connectDestroyed" \in Functors
      /\ "removeConnectionInLoop" \in Functors
  BY DEF Functors
<1>3. \A f \in Functors : Has(Todo'[l], <<f, c>>) => c \in Known'
  BY <1>1
<1>4. Has(Todo'[l], <<"connectEstablished", c>>) => conn'[c].loop = l
  BY <1>1, <1>2
<1>5. Has(Todo'[l], <<"connectDestroyed", c>>) => conn'[c].loop = l
  BY <1>1, <1>2
<1>6. Has(Todo'[l], <<"removeConnectionInLoop", c>>) => l = Base /\ conn'[c].state = "kDisconnected"
  BY <1>1, <1>2
<1> QED  BY <1>3, <1>4, <1>5, <1>6

(* A connection that a step does not touch.                                *)
LEMMA LivesFrame ==
    ASSUME NEW c, Lives(c), conn'[c] = conn[c], server' = "up" <=> server = "up",
           c \in connections' <=> c \in connections, c \in registered' <=> c \in registered,
           c \in destroyed' <=> c \in destroyed,
           Has(Todo'[conn[c].loop], <<"connectEstablished", c>>)
              <=> Has(Todo[conn[c].loop], <<"connectEstablished", c>>),
           Has(Todo'[conn[c].loop], <<"connectDestroyed", c>>)
              <=> Has(Todo[conn[c].loop], <<"connectDestroyed", c>>),
           server = "up" => (Has(Todo'[Base], <<"removeConnectionInLoop", c>>)
                                => Has(Todo[Base], <<"removeConnectionInLoop", c>>))
    PROVE  Lives(c)'
BY DEF Lives, Waits

(* A connection whose loop has not left.                                   *)
LEMMA LivesNow ==
    ASSUME IInv, NEW c \in Known, pc[conn[c].loop] # "exited"
    PROVE  Lives(c)
BY DEF IInv, LifeInv

(* Steps that neither queue nor run a functor nor touch a connection.      *)
LEMMA QuietStep ==
    ASSUME IInv, TypeOK', LoopInv', Todo' = Todo, UNCHANGED <<connVars, destroyed, nextConnId>>,
           server' = "up" <=> server = "up", failed' \subseteq {"isNoneEvent"},
           \A l \in Loops : pc'[l] # "exited" => pc[l] # "exited"
    PROVE  TodoInv' /\ LifeInv'
<1>1. TypeOK /\ Known \subseteq Conns /\ Known' = Known
  BY KnownFacts DEF IInv, Known
<1>2. TodoInv'
  BY <1>1 DEF IInv, TodoInv, Waits, connVars
<1>3. ASSUME NEW c \in Known', pc'[conn'[c].loop] # "exited" PROVE Lives(c)'
  <2>1. conn[c].loop \in Loops /\ c \in Known /\ conn'[c] = conn[c]
    BY <1>1, ConnFacts DEF connVars
  <2>2. Lives(c)
    BY <1>3, <2>1, LivesNow
  <2> QED  BY <2>1, <2>2, LivesFrame DEF connVars
<1>4. server' # "up" => connections' = {}
  BY DEF IInv, LifeInv, connVars
<1> QED  BY <1>2, <1>3, <1>4 DEF LifeInv

(* A connection accepted waits to be established.                          *)
LEMMA AcceptStep ==
    ASSUME IInv, HandleRead
    PROVE  TodoInv' /\ LifeInv'
<1> DEFINE l == NextLoop
<1>0. PICK c \in Conns : c = nextConnId
  BY AcceptFacts
<1>1. /\ c \in Conns /\ c \notin Known /\ l \in Loops /\ nextConnId' = c + 1
      /\ connections' = connections \union {c}
      /\ registered' = (IF l = Base THEN registered \union {c} ELSE registered)
      /\ IF l = Base THEN queue' = queue ELSE Push(l, "connectEstablished", c)
  BY <1>0, AcceptFacts
<1>2. PICK fd \in Fds \ open :
         conn' = [conn EXCEPT ![c] =
                     [state |-> IF l = Base THEN "kConnected" ELSE "kConnecting",
                      loop |-> l, fd |-> fd]]
  BY <1>0, AcceptFacts
<1>3. /\ TypeOK /\ Known \subseteq Conns /\ Known' = Known \union {c} /\ Base \in Loops
      /\ Todo \in [Loops -> Seq(FC)]
  BY <1>0, <1>1, KnownFacts, QueueTypes, ServerAssumption DEF IInv, Known, Base, Loops
<1> HIDE DEF l
<1>4. /\ conn'[c].loop = l /\ conn'[c].state = (IF l = Base THEN "kConnected" ELSE "kConnecting")
      /\ \A d \in Known : conn'[d] = conn[d]
  BY <1>1, <1>2, <1>3 DEF TypeOK
<1>5. UNCHANGED <<destroyed, failed, server, batch>> /\ server = "up" /\ pc' = [pc EXCEPT ![Base] = "handled"]
      /\ pc[Base] # "exited"
  BY DEF HandleRead, Go, InHandlers, Handlers
<1>6. c \notin destroyed /\ c \notin registered /\ c \notin connections
      /\ \A m \in Loops, f \in Functors : ~ Has(Todo[m], <<f, c>>)
  BY <1>1, <1>3 DEF IInv, KnownInv, TodoInv, Waits
<1>7. /\ "connectEstablished" \in Functors /\ "connectDestroyed" \in Functors
      /\ "removeConnectionInLoop" \in Functors
  BY DEF Functors
<1>8. /\ Orderly(Todo')
      /\ \A m \in Loops : \A g, d :
            Has(Todo'[m], <<g, d>>) <=>
               Has(Todo[m], <<g, d>>) \/ (m = l /\ l # Base /\ g = "connectEstablished" /\ d = c)
  <2>1. CASE l = Base
    <3>1. Todo' = Todo
      BY <1>1, <1>5, <2>1, SameTodo
    <3> QED  BY <2>1, <3>1 DEF IInv, TodoInv, Orderly
  <2>2. CASE l # Base
    <3>1. ~ Waits(l, "connectEstablished", c) /\ ~ Waits(l, "connectDestroyed", c)
      BY <1>1, <1>6, <1>7 DEF Waits
    <3>2. Push(l, "connectEstablished", c)
      BY <1>1, <2>2
    <3> QED  BY <1>1, <1>5, <1>7, <2>2, <3>1, <3>2, PushEffect
  <2> QED  BY <2>1, <2>2
<1>9. TodoInv'
  <2>1. Known \subseteq Known' /\ c \in Known'
    BY <1>3
  <2>2. \A d \in Known : conn'[d].loop = conn[d].loop
           /\ (conn[d].state = "kDisconnected" => conn'[d].state = "kDisconnected")
    BY <1>4
  <2>3. \A m \in Loops, d \in Conns, f \in Functors :
              Has(Todo'[m], <<f, d>>) =>
                 \/ Has(Todo[m], <<f, d>>)
                 \/ /\ d \in Known'
                    /\ IF f = "removeConnectionInLoop"
                       THEN m = Base /\ conn'[d].state = "kDisconnected" ELSE conn'[d].loop = m
    BY <1>4, <1>8, <2>1
  <2> QED  BY <1>8, <2>1, <2>2, <2>3, TodoFrame
<1>10. Lives(c)'
  <2>1. /\ Has(Todo'[l], <<"connectEstablished", c>>) <=> l # Base
        /\ ~ Has(Todo'[l], <<"connectDestroyed", c>>)
        /\ ~ Has(Todo'[Base], <<"removeConnectionInLoop", c>>)
    BY <1>1, <1>3, <1>6, <1>7, <1>8
  <2>2. c \in connections' /\ c \notin destroyed' /\ (c \in registered' <=> l = Base)
    BY <1>1, <1>5, <1>6
  <2>3. CASE l = Base
    BY <1>4, <1>5, <2>1, <2>2, <2>3 DEF Lives, Waits
  <2>4. CASE l # Base
    BY <1>4, <1>5, <2>1, <2>2, <2>4 DEF Lives, Waits
  <2> QED  BY <2>3, <2>4
<1>11. ASSUME NEW d \in Known, pc'[conn'[d].loop] # "exited" PROVE Lives(d)'
  <2>1. conn[d].loop \in Loops /\ conn'[d] = conn[d] /\ d # c
    BY <1>1, <1>3, <1>4, ConnFacts
  <2>2. pc[conn[d].loop] # "exited"
    BY <1>3, <1>5, <1>11, <2>1 DEF TypeOK
  <2>3. Lives(d)
    BY <2>2, LivesNow
  <2>4. /\ (d \in connections' <=> d \in connections) /\ (d \in registered' <=> d \in registered)
        /\ destroyed' = destroyed /\ server' = server
    BY <1>1, <1>5, <2>1
  <2>5. \A m \in Loops : \A g : Has(Todo'[m], <<g, d>>) <=> Has(Todo[m], <<g, d>>)
    BY <1>8, <2>1
  <2> QED  BY <1>3, <2>1, <2>3, <2>4, <2>5, LivesFrame
<1>12. failed' \subseteq {"isNoneEvent"} /\ server' = "up"
  BY <1>5 DEF IInv, LifeInv
<1> QED  BY <1>3, <1>9, <1>10, <1>11, <1>12 DEF LifeInv

(* One connection changes, the others as before.                           *)
LEMMA OthersLive ==
    ASSUME IInv, NEW c, NEW d \in Known, d # c, conn'[d] = conn[d], UNCHANGED <<server, destroyed>>,
           d \in connections' <=> d \in connections, d \in registered' <=> d \in registered,
           pc[conn[d].loop] # "exited",
           \A m \in Loops, g \in Functors :
               \A e \in Conns : e # c => (Has(Todo'[m], <<g, e>>) <=> Has(Todo[m], <<g, e>>))
    PROVE  Lives(d)'
<1>1. Lives(d)
  BY LivesNow
<1>2. d \in Conns /\ conn[d].loop \in Loops /\ Base \in Loops
  BY KnownFacts, ConnFacts, ServerAssumption DEF IInv, Base, Loops
<1>3. /\ "connectEstablished" \in Functors /\ "connectDestroyed" \in Functors
      /\ "removeConnectionInLoop" \in Functors
  BY DEF Functors
<1> QED  BY <1>1, <1>2, <1>3, LivesFrame

(* shutdown leaves a connection registered.                                *)
LEMMA ShutdownStep ==
    ASSUME IInv, NEW c \in Conns, Shutdown(c)
    PROVE  TodoInv' /\ LifeInv'
<1>1. /\ TypeOK /\ Known \subseteq Conns /\ Known' = Known /\ Base \in Loops
      /\ conn[c].loop \in Loops /\ conn \in [Conns -> [state : States, loop : Loops, fd : Fds]]
  BY KnownFacts, ConnFacts, ServerAssumption DEF IInv, Base, Loops, Known, Shutdown, acceptVars
<1>2. /\ UNCHANGED <<server, connections, registered, destroyed, failed>> /\ Todo' = Todo
      /\ c \in registered /\ conn[c].state = "kConnected" /\ pc[conn[c].loop] # "exited"
      /\ conn' = [conn EXCEPT ![c].state = "kDisconnecting"]
      /\ pc' = [pc EXCEPT ![conn[c].loop] = "handled"]
  BY SameTodo DEF Shutdown, InHandlers, Handlers, Go
<1>3. c \in Known /\ Lives(c)
  BY <1>2, LivesNow DEF IInv, KnownInv
<1>4. /\ conn'[c].state = "kDisconnecting" /\ conn'[c].loop = conn[c].loop
      /\ \A d \in Known \ {c} : conn'[d] = conn[d]
  BY <1>1, <1>2
<1>5. ~ Has(Todo[Base], <<"removeConnectionInLoop", c>>)
  BY <1>1, <1>2 DEF IInv, TodoInv, Waits
<1>6. TodoInv'
  BY <1>1, <1>2, <1>3, <1>4, TodoFrame DEF IInv, TodoInv, Orderly
<1>7. Lives(c)'
  BY <1>2, <1>3, <1>4, <1>5 DEF Lives, Waits
<1>8. ASSUME NEW d \in Known, d # c, pc'[conn'[d].loop] # "exited" PROVE Lives(d)'
  <2>1. conn'[d] = conn[d] /\ conn[d].loop \in Loops
    BY <1>1, <1>4, <1>8, ConnFacts
  <2>2. pc[conn[d].loop] # "exited"
    BY <1>1, <1>2, <1>8, <2>1 DEF TypeOK
  <2> QED  BY <1>2, <1>8, <2>1, <2>2, OthersLive
<1>9. failed' \subseteq {"isNoneEvent"} /\ (server' # "up" => connections' = {})
  BY <1>2 DEF IInv, LifeInv
<1> QED  BY <1>1, <1>6, <1>7, <1>8, <1>9 DEF LifeInv

(* handleClose sends the connection to the base loop.                      *)
LEMMA CloseStep ==
    ASSUME IInv, NEW c \in Conns, HandleClose(c)
    PROVE  TodoInv' /\ LifeInv'
<1> DEFINE l == conn[c].loop
<1>1. /\ TypeOK /\ Known \subseteq Conns /\ Known' = Known /\ Base \in Loops
      /\ l \in Loops /\ conn \in [Conns -> [state : States, loop : Loops, fd : Fds]]
  BY KnownFacts, ConnFacts, ServerAssumption DEF IInv, Base, Loops, Known, HandleClose, acceptVars
<1>2. /\ UNCHANGED <<server, registered, destroyed, batch>>
      /\ c \in registered /\ conn[c].state \in {"kConnected", "kDisconnecting"} /\ pc[l] # "exited"
      /\ conn' = [conn EXCEPT ![c].state = "kDisconnected"]
      /\ pc' = [pc EXCEPT ![l] = "handled"]
      /\ IF l = Base
         THEN RemoveConnectionInLoop(c)
         ELSE Push(Base, "removeConnectionInLoop", c) /\ UNCHANGED <<connections, failed>>
  BY DEF HandleClose, InHandlers, Handlers, Go
<1>3. c \in Known /\ Lives(c)
  BY <1>2, LivesNow DEF IInv, KnownInv
<1>4. /\ conn'[c].state = "kDisconnected" /\ conn'[c].loop = l
      /\ \A d \in Known \ {c} : conn'[d] = conn[d]
  BY <1>1, <1>2
<1>5. ~ Has(Todo[Base], <<"removeConnectionInLoop", c>>)
  BY <1>1, <1>2 DEF IInv, TodoInv, Waits
<1>6. /\ "connectEstablished" \in Functors /\ "connectDestroyed" \in Functors
      /\ "removeConnectionInLoop" \in Functors
  BY DEF Functors
<1>7. server = "up" => c \in connections
  BY <1>2, <1>3 DEF Lives
<1>8. l = Base => server = "up"
  BY <1>2, <1>3 DEF Lives
<1> DEFINE f == IF l = Base THEN "connectDestroyed" ELSE "removeConnectionInLoop"
<1>9. Push(Base, f, c) /\ f \in Functors /\ f # "connectEstablished"
  BY <1>2, <1>6 DEF RemoveConnectionInLoop
<1>10. ~ Waits(Base, f, c)
  <2>1. CASE l = Base
    BY <1>3, <1>7, <1>8, <2>1 DEF Lives
  <2>2. CASE l # Base
    BY <1>5, <2>2 DEF Waits
  <2> QED  BY <2>1, <2>2
<1>11. /\ Orderly(Todo')
       /\ \A m \in Loops : \A g, d :
             Has(Todo'[m], <<g, d>>) <=> Has(Todo[m], <<g, d>>) \/ (m = Base /\ g = f /\ d = c)
  <2> HIDE DEF f, l
  <2> QED  BY <1>1, <1>2, <1>9, <1>10, PushEffect
<1>12. TodoInv'
  <2>1. \A m \in Loops, d \in Conns, g \in Functors :
              Has(Todo'[m], <<g, d>>) =>
                 \/ Has(Todo[m], <<g, d>>)
                 \/ /\ d \in Known'
                    /\ IF g = "removeConnectionInLoop"
                       THEN m = Base /\ conn'[d].state = "kDisconnected" ELSE conn'[d].loop = m
    <3>1. f = "removeConnectionInLoop" \/ l = Base
      OBVIOUS
    <3> HIDE DEF f, l
    <3> QED  BY <1>1, <1>3, <1>4, <1>11, <3>1
  <2>2. \A d \in Known : conn'[d].loop = conn[d].loop
           /\ (conn[d].state = "kDisconnected" => conn'[d].state = "kDisconnected")
    BY <1>4
  <2> QED  BY <1>1, <1>11, <2>1, <2>2, TodoFrame
<1>13. Lives(c)' /\ failed' \subseteq {"isNoneEvent"} /\ (server' # "up" => connections' = {})
  <2>1. failed \subseteq {"isNoneEvent"} /\ (server # "up" => connections = {})
    BY DEF IInv, LifeInv
  <2>2. CASE l = Base
    <3>1. connections' = connections \ {c} /\ failed' = failed \union Unless(c \in connections, "erased")
      BY <1>2, <2>2 DEF RemoveConnectionInLoop
    <3>2. /\ Has(Todo'[l], <<"connectEstablished", c>>) <=> Has(Todo[l], <<"connectEstablished", c>>)
          /\ Has(Todo'[l], <<"connectDestroyed", c>>)
          /\ ~ Has(Todo'[Base], <<"removeConnectionInLoop", c>>)
      BY <1>1, <1>5, <1>11, <2>2
    <3>3. failed' \subseteq {"isNoneEvent"} /\ server' = "up"
      BY <1>2, <1>7, <1>8, <2>1, <2>2, <3>1 DEF Unless
    <3> QED  BY <1>2, <1>3, <1>4, <2>1, <2>2, <3>1, <3>2, <3>3 DEF Lives, Waits
  <2>3. CASE l # Base
    <3>1. /\ Has(Todo'[l], <<"connectEstablished", c>>) <=> Has(Todo[l], <<"connectEstablished", c>>)
          /\ Has(Todo'[l], <<"connectDestroyed", c>>) <=> Has(Todo[l], <<"connectDestroyed", c>>)
      BY <1>1, <1>11, <2>3
    <3>2. UNCHANGED <<connections, failed>>
      BY <1>2, <2>3
    <3> QED  BY <1>2, <1>3, <1>4, <1>7, <2>1, <2>3, <3>1, <3>2 DEF Lives, Waits
  <2> QED  BY <2>2, <2>3
<1>14. ASSUME NEW d \in Known, d # c, pc'[conn'[d].loop] # "exited" PROVE Lives(d)'
  <2>1. conn'[d] = conn[d] /\ conn[d].loop \in Loops
    BY <1>1, <1>4, <1>14, ConnFacts
  <2>2. pc[conn[d].loop] # "exited"
    <3> HIDE DEF l
    <3> QED  BY <1>1, <1>2, <1>14, <2>1 DEF TypeOK
  <2>3. d \in connections' <=> d \in connections
    BY <1>2, <1>14 DEF RemoveConnectionInLoop
  <2>4. \A m \in Loops, g \in Functors :
           \A e \in Conns : e # c => (Has(Todo'[m], <<g, e>>) <=> Has(Todo[m], <<g, e>>))
    BY <1>11
  <2> QED  BY <1>2, <1>14, <2>1, <2>2, <2>3, <2>4, OthersLive
<1> QED  BY <1>1, <1>12, <1>13, <1>14 DEF LifeInv

(* A functor is run.                                                       *)
LEMMA RunStep ==
    ASSUME IInv, NEW l \in Loops, RunFunctor(l)
    PROVE  TodoInv' /\ LifeInv'
<1>0. PICK f \in Functors, c \in Conns : f = Head(batch[l])[1] /\ c = Head(batch[l])[2]
  BY RunFacts
<1>1. /\ TypeOK /\ Known \subseteq Conns /\ Known' = Known /\ Base \in Loops
      /\ conn \in [Conns -> [state : States, loop : Loops, fd : Fds]] /\ conn[c].loop \in Loops
  BY KnownFacts, ConnFacts, ServerAssumption DEF IInv, Base, Loops, Known, RunFunctor, acceptVars
<1>2. /\ c \in Known /\ Has(Todo[l], <<f, c>>) /\ pc[l] = "run" /\ UNCHANGED <<pc, server, destroyed>>
      /\ f = "connectDestroyed" => ~ Has(Todo[l], <<"connectEstablished", c>>)
  BY <1>0, RunFacts DEF Waits, RunFunctor, At
<1>3. /\ f # "removeConnectionInLoop" => conn[c].loop = l
      /\ f = "removeConnectionInLoop" => l = Base /\ conn[c].state = "kDisconnected"
  BY <1>1, <1>2 DEF IInv, TodoInv, Waits, Functors
<1>4. failed \subseteq {"isNoneEvent"} /\ (server # "up" => connections = {})
  BY DEF IInv, LifeInv
<1>5. /\ "connectEstablished" \in Functors /\ "connectDestroyed" \in Functors
      /\ "removeConnectionInLoop" \in Functors
  BY DEF Functors
<1>6. \/ /\ f = "connectEstablished" /\ Established(c)
         /\ failed' = failed \union Unless(conn[c].state = "kConnecting", "kConnecting") /\ UNCHANGED <<connections, queue>>
      \/ /\ f = "connectDestroyed" /\ ConnectDestroyed({c})
         /\ UNCHANGED <<connections, queue>>
      \/ /\ f = "removeConnectionInLoop" /\ server = "up" /\ RemoveConnectionInLoop(c)
         /\ UNCHANGED <<conn, registered>>
      \/ f = "removeConnectionInLoop" /\ server = "gone" /\ UNCHANGED <<connVars, queue, failed>>
  BY <1>0 DEF RunFunctor
<1>7. ASSUME queue' = queue
      PROVE  /\ Orderly(Todo')
             /\ \A m \in Loops : \A g, d :
                   Has(Todo'[m], <<g, d>>) <=> Has(Todo[m], <<g, d>>) /\ ~ (m = l /\ g = f /\ d = c)
  BY <1>0, <1>7, PopEffect
<1>8. CASE /\ f = "connectEstablished" /\ Established(c)
           /\ failed' = failed \union Unless(conn[c].state = "kConnecting", "kConnecting") /\ UNCHANGED <<connections, queue>>
  <2>1. Lives(c) /\ conn[c].loop = l
    BY <1>2, <1>3, <1>8, LivesNow
  <2>2. conn[c].state = "kConnecting" /\ c \notin registered /\ l # Base
    BY <1>2, <1>8, <2>1 DEF Lives, Waits
  <2>3. /\ conn'[c].state = "kConnected" /\ conn'[c].loop = l /\ registered' = registered \union {c}
        /\ \A d \in Known \ {c} : conn'[d] = conn[d]
    BY <1>1, <1>8, <2>1 DEF Established
  <2>4. /\ ~ Has(Todo'[l], <<"connectEstablished", c>>)
        /\ Has(Todo'[l], <<"connectDestroyed", c>>) <=> Has(Todo[l], <<"connectDestroyed", c>>)
        /\ ~ Has(Todo'[Base], <<"removeConnectionInLoop", c>>)
    <3>1. ~ Has(Todo[Base], <<"removeConnectionInLoop", c>>)
      BY <1>1, <2>2 DEF IInv, TodoInv, Waits
    <3> QED  BY <1>1, <1>7, <1>8, <3>1
  <2>5. Lives(c)'
    BY <1>2, <1>8, <2>1, <2>2, <2>3, <2>4 DEF Lives, Waits
  <2>6. \A d \in Known : conn'[d].loop = conn[d].loop
           /\ (conn[d].state = "kDisconnected" => conn'[d].state = "kDisconnected")
    BY <2>1, <2>2, <2>3
  <2>7. TodoInv'
    BY <1>1, <1>7, <1>8, <2>6, TodoFrame
  <2>8. ASSUME NEW d \in Known, d # c, pc'[conn'[d].loop] # "exited" PROVE Lives(d)'
    <3>1. conn'[d] = conn[d] /\ pc[conn[d].loop] # "exited"
      BY <1>2, <2>3, <2>8
    <3>2. (d \in connections' <=> d \in connections) /\ (d \in registered' <=> d \in registered)
      BY <1>8, <2>3, <2>8
    <3>3. \A m \in Loops, g \in Functors :
             \A e \in Conns : e # c => (Has(Todo'[m], <<g, e>>) <=> Has(Todo[m], <<g, e>>))
      BY <1>7, <1>8
    <3> QED  BY <1>2, <2>8, <3>1, <3>2, <3>3, OthersLive
  <2>9. failed' \subseteq {"isNoneEvent"} /\ (server' # "up" => connections' = {})
    BY <1>2, <1>4, <1>8, <2>2 DEF Unless
  <2> QED  BY <1>1, <2>5, <2>7, <2>8, <2>9 DEF LifeInv
<1>9. CASE /\ f = "connectDestroyed" /\ ConnectDestroyed({c})
           /\ UNCHANGED <<connections, queue>>
  <2>1. Lives(c) /\ conn[c].loop = l
    BY <1>2, <1>3, <1>9, LivesNow
  <2>2. /\ conn[c].state \in {"kConnected", "kDisconnecting", "kDisconnected"}
        /\ c \in registered /\ c \notin connections
    <3>1. conn[c].state \in States
      BY <1>1, ConnFacts
    <3>2. conn[c].state # "kConnecting"
      BY <1>2, <1>9, <2>1 DEF Lives, Waits
    <3>3. c \notin connections /\ c \in registered /\ conn[c].state # "none"
      BY <1>2, <1>9, <2>1, <3>2 DEF Lives, Waits
    <3> QED  BY <3>1, <3>2, <3>3 DEF States
  <2>3. /\ conn'[c].state = (IF conn[c].state = "kConnected" THEN "kDisconnected" ELSE conn[c].state)
        /\ conn'[c].loop = l /\ registered' = registered \ {c}
        /\ \A d \in Known \ {c} : conn'[d] = conn[d]
    BY <1>1, <1>9, <2>1 DEF ConnectDestroyed
  <2>4. /\ Has(Todo'[l], <<"connectEstablished", c>>) <=> Has(Todo[l], <<"connectEstablished", c>>)
        /\ ~ Has(Todo'[l], <<"connectDestroyed", c>>)
        /\ Has(Todo'[Base], <<"removeConnectionInLoop", c>>) => Has(Todo[Base], <<"removeConnectionInLoop", c>>)
    BY <1>1, <1>7, <1>9
  <2>5. Lives(c)'
    BY <1>2, <1>9, <2>1, <2>2, <2>3, <2>4 DEF Lives, Waits
  <2>6. \A d \in Known : conn'[d].loop = conn[d].loop
           /\ (conn[d].state = "kDisconnected" => conn'[d].state = "kDisconnected")
    BY <2>1, <2>2, <2>3
  <2>7. TodoInv'
    BY <1>1, <1>7, <1>9, <2>6, TodoFrame
  <2>8. ASSUME NEW d \in Known, d # c, pc'[conn'[d].loop] # "exited" PROVE Lives(d)'
    <3>1. conn'[d] = conn[d] /\ pc[conn[d].loop] # "exited"
      BY <1>2, <2>3, <2>8
    <3>2. (d \in connections' <=> d \in connections) /\ (d \in registered' <=> d \in registered)
      BY <1>9, <2>3, <2>8
    <3>3. \A m \in Loops, g \in Functors :
             \A e \in Conns : e # c => (Has(Todo'[m], <<g, e>>) <=> Has(Todo[m], <<g, e>>))
      BY <1>7, <1>9
    <3> QED  BY <1>2, <2>8, <3>1, <3>2, <3>3, OthersLive
  <2>9. failed' \subseteq {"isNoneEvent"} /\ (server' # "up" => connections' = {})
    BY <1>2, <1>4, <1>9, <2>2 DEF ConnectDestroyed, Unless
  <2> QED  BY <1>1, <2>5, <2>7, <2>8, <2>9 DEF LifeInv
<1>10. CASE /\ f = "removeConnectionInLoop" /\ server = "up" /\ RemoveConnectionInLoop(c)
            /\ UNCHANGED <<conn, registered>>
  <2> DEFINE k == conn[c].loop
  <2>1. pc[k] # "exited"
    BY <1>1, <1>10 DEF IInv, LoopInv
  <2>2. Lives(c) /\ l = Base /\ conn[c].state = "kDisconnected"
    BY <1>2, <1>3, <1>10, <2>1, LivesNow
  <2>3. c \in connections /\ c \in registered
    BY <1>2, <1>10, <2>2 DEF Lives, Waits
  <2>4. /\ connections' = connections \ {c} /\ failed' = failed \union Unless(c \in connections, "erased")
        /\ Push(k, "connectDestroyed", c)
    BY <1>10 DEF RemoveConnectionInLoop
  <2>5. ~ Waits(k, "connectDestroyed", c)
    BY <2>2, <2>3 DEF Lives
  <2>6. /\ Orderly(Todo')
        /\ \A m \in Loops : \A g, d :
              Has(Todo'[m], <<g, d>>) <=>
                 \/ Has(Todo[m], <<g, d>>) /\ ~ (m = l /\ g = f /\ d = c)
                 \/ m = k /\ g = "connectDestroyed" /\ d = c
    <3> HIDE DEF k
    <3>1. k \in Loops
      BY <1>1 DEF k
    <3> QED  BY <1>0, <1>10, <2>4, <2>5, <3>1, PopPushEffect
  <2>7. TodoInv'
    <3>1. \A m \in Loops, d \in Conns, g \in Functors :
              Has(Todo'[m], <<g, d>>) =>
                 \/ Has(Todo[m], <<g, d>>)
                 \/ /\ d \in Known'
                    /\ IF g = "removeConnectionInLoop"
                       THEN m = Base /\ conn'[d].state = "kDisconnected" ELSE conn'[d].loop = m
      BY <1>1, <1>2, <1>10, <2>6
    <3> QED  BY <1>1, <1>10, <2>6, <3>1, TodoFrame
  <2>8. Lives(c)'
    <3>1. /\ Has(Todo'[k], <<"connectEstablished", c>>) <=> Has(Todo[k], <<"connectEstablished", c>>)
          /\ Has(Todo'[k], <<"connectDestroyed", c>>)
          /\ ~ Has(Todo'[Base], <<"removeConnectionInLoop", c>>)
      BY <1>1, <1>10, <2>2, <2>6
    <3> QED  BY <1>2, <1>10, <2>2, <2>3, <2>4, <3>1 DEF Lives, Waits
  <2>9. ASSUME NEW d \in Known, d # c, pc'[conn'[d].loop] # "exited" PROVE Lives(d)'
    <3>1. conn'[d] = conn[d] /\ pc[conn[d].loop] # "exited"
      BY <1>2, <1>10, <2>9
    <3>2. (d \in connections' <=> d \in connections) /\ (d \in registered' <=> d \in registered)
      BY <1>10, <2>4, <2>9
    <3>3. \A m \in Loops, g \in Functors :
             \A e \in Conns : e # c => (Has(Todo'[m], <<g, e>>) <=> Has(Todo[m], <<g, e>>))
      BY <2>6
    <3> QED  BY <1>2, <2>9, <3>1, <3>2, <3>3, OthersLive
  <2>10. failed' \subseteq {"isNoneEvent"} /\ (server' # "up" => connections' = {})
    BY <1>2, <1>4, <1>10, <2>3, <2>4 DEF Unless
  <2> QED  BY <1>1, <2>7, <2>8, <2>9, <2>10 DEF LifeInv
<1>11. CASE f = "removeConnectionInLoop" /\ server = "gone" /\ UNCHANGED <<connVars, queue, failed>>
  <2>1. UNCHANGED <<conn, connections, registered>> /\ server # "up"
    BY <1>11 DEF connVars
  <2>2. TodoInv'
    BY <1>1, <1>7, <1>11, <2>1, TodoFrame
  <2>3. ASSUME NEW d \in Known, pc'[conn'[d].loop] # "exited" PROVE Lives(d)'
    <3>1. Lives(d) /\ conn[d].loop \in Loops
      BY <1>1, <1>2, <2>1, <2>3, LivesNow, ConnFacts
    <3>2. \A m \in Loops, g \in {"connectEstablished", "connectDestroyed"} :
             Has(Todo'[m], <<g, d>>) <=> Has(Todo[m], <<g, d>>)
      BY <1>7, <1>11
    <3> QED  BY <1>2, <2>1, <3>1, <3>2, LivesFrame
  <2>4. failed' \subseteq {"isNoneEvent"} /\ (server' # "up" => connections' = {})
    BY <1>2, <1>4, <1>11, <2>1
  <2> QED  BY <1>1, <2>2, <2>3, <2>4 DEF LifeInv
<1> QED  BY <1>6, <1>8, <1>9, <1>10, <1>11

(* A round ends, and with it the life of connections nothing refers to.    *)
LEMMA EndStep ==
    ASSUME IInv, TypeOK', LoopInv', NEW l \in Loops, EndRound(l)
    PROVE  TodoInv' /\ LifeInv'
<1>1. TypeOK /\ Known \subseteq Conns /\ Known' = Known /\ Base \in Loops
  BY KnownFacts, ServerAssumption DEF IInv, Base, Loops, Known, EndRound, acceptVars
<1>2. /\ UNCHANGED <<conn, connections, registered, server, failed, nextConnId>> /\ Release
      /\ pc[l] = "run" /\ pc' = [pc EXCEPT ![l] = IF quit[l] THEN "exited" ELSE "poll"]
  BY DEF EndRound, connVars, acceptVars, At, Go
<1>3. /\ Orderly(Todo')
      /\ \A m \in Loops : \A y : Has(Todo'[m], y) <=> Has(Todo[m], y) /\ ~ (m = l /\ quit[l])
  BY DropEffect
<1>4. TodoInv'
  BY <1>1, <1>2, <1>3, TodoFrame
<1>5. ASSUME NEW c \in Known, pc'[conn'[c].loop] # "exited" PROVE Lives(c)'
  <2> DEFINE k == conn[c].loop
  <2>1. k \in Loops /\ pc'[k] # "exited" /\ c \in Conns
    BY <1>1, <1>2, <1>5, ConnFacts
  <2>2. pc[k] # "exited" /\ ~ (k = l /\ quit[l])
    <3> HIDE DEF k
    <3> QED  BY <1>1, <1>2, <2>1 DEF TypeOK
  <2>3. Lives(c)
    BY <2>2, LivesNow
  <2>4. \A y : (Has(Todo'[k], y) <=> Has(Todo[k], y)) /\ (Has(Todo'[Base], y) => Has(Todo[Base], y))
    <3> HIDE DEF k
    <3> QED  BY <1>1, <1>3, <2>1, <2>2
  <2>5. CASE c \in destroyed' <=> c \in destroyed
    BY <1>2, <2>3, <2>4, <2>5, LivesFrame
  <2>6. CASE c \in destroyed' /\ c \notin destroyed
    <3>1. c \notin Referenced'
      BY <1>2, <2>6 DEF Release
    <3>2. "connectDestroyed" \in Functors
      BY DEF Functors
    <3>3. c \notin connections' /\ ~ Has(Todo'[k], <<"connectDestroyed", c>>)
      <4> HIDE DEF k
      <4> QED  BY <2>1, <3>1, <3>2, Unreferenced
    <3> QED  BY <1>2, <2>3, <2>4, <3>3 DEF Lives, Waits
  <2>7. c \in destroyed => c \in destroyed'
    BY <1>2 DEF Release
  <2> QED  BY <2>5, <2>6, <2>7
<1>6. failed' \subseteq {"isNoneEvent"} /\ (server' # "up" => connections' = {})
  BY <1>2 DEF IInv, LifeInv
<1> QED  BY <1>1, <1>4, <1>5, <1>6 DEF LifeInv

(* ~TcpServer destroys every connection, now or by a functor.              *)
LEMMA DtorStep ==
    ASSUME IInv, TypeOK', LoopInv', DtorBody
    PROVE  TodoInv' /\ LifeInv'
<1> DEFINE cs == {c \in connections : conn[c].loop = Base}
<1>1. /\ TypeOK /\ Known \subseteq Conns /\ Known' = Known /\ Base \in Loops
      /\ conn \in [Conns -> [state : States, loop : Loops, fd : Fds]]
  <2>1. TypeOK
    BY DEF IInv
  <2>2. Base \in Loops
    BY ServerAssumption DEF Base, Loops
  <2>3. Known' = Known
    BY DEF Known, DtorBody, acceptVars
  <2>4. conn \in [Conns -> [state : States, loop : Loops, fd : Fds]]
    BY <2>1 DEF TypeOK
  <2> QED  BY <2>1, <2>2, <2>3, <2>4, KnownFacts
<1>2. /\ server = "up" /\ server' = "dtor" /\ connections' = {} /\ ConnectDestroyed(cs)
      /\ UNCHANGED nextConnId /\ Release /\ pc' = [pc EXCEPT ![Base] = "dtor"]
  BY DEF DtorBody, acceptVars, Go
<1>3. /\ Orderly(Todo')
      /\ \A m \in Loops : \A g, d :
            Has(Todo'[m], <<g, d>>) <=>
               \/ Has(Todo[m], <<g, d>>)
               \/ g = "connectDestroyed" /\ d \in connections /\ conn[d].loop = m /\ m # Base
  BY DtorEffect
<1>4. \A c \in Conns :
         /\ conn'[c].loop = conn[c].loop
         /\ c \notin cs => conn'[c] = conn[c]
         /\ c \in cs => conn'[c].state = IF conn[c].state = "kConnected" THEN "kDisconnected" ELSE conn[c].state
  <2> SUFFICES ASSUME NEW c \in Conns
               PROVE  /\ conn'[c].loop = conn[c].loop
                      /\ c \notin cs => conn'[c] = conn[c]
                      /\ c \in cs => conn'[c].state = IF conn[c].state = "kConnected" THEN "kDisconnected"
                                                      ELSE conn[c].state
    OBVIOUS
  <2> HIDE DEF cs
  <2>1. conn'[c] = IF c \in cs /\ conn[c].state = "kConnected"
                   THEN [conn[c] EXCEPT !.state = "kDisconnected"] ELSE conn[c]
    BY <1>2 DEF ConnectDestroyed
  <2>2. conn[c] \in [state : States, loop : Loops, fd : Fds]
    BY <1>1
  <2>3. CASE c \in cs /\ conn[c].state = "kConnected"
    BY <2>1, <2>2, <2>3
  <2>4. CASE ~ (c \in cs /\ conn[c].state = "kConnected")
    BY <2>1, <2>4
  <2> QED  BY <2>3, <2>4
<1>5. registered' = registered \ cs
  BY <1>2 DEF ConnectDestroyed
<1>6. connections \subseteq Known
  BY DEF IInv, KnownInv
<1>7. TodoInv'
  <2>1. \A m \in Loops, d \in Conns, g \in Functors :
              Has(Todo'[m], <<g, d>>) =>
                 \/ Has(Todo[m], <<g, d>>)
                 \/ /\ d \in Known'
                    /\ IF g = "removeConnectionInLoop"
                       THEN m = Base /\ conn'[d].state = "kDisconnected" ELSE conn'[d].loop = m
    <3> HIDE DEF cs
    <3> QED  BY <1>1, <1>3, <1>4, <1>6
  <2>2. \A d \in Known : conn'[d].loop = conn[d].loop
           /\ (conn[d].state = "kDisconnected" => conn'[d].state = "kDisconnected")
    <3> HIDE DEF cs
    <3> SUFFICES ASSUME NEW d \in Known
                 PROVE  conn'[d].loop = conn[d].loop
                        /\ (conn[d].state = "kDisconnected" => conn'[d].state = "kDisconnected")
      OBVIOUS
    <3>1. d \in Conns
      BY <1>1
    <3> QED  BY <1>4, <3>1
  <2> QED  BY <1>1, <1>3, <2>1, <2>2, TodoFrame
<1>8. ASSUME NEW c \in Known, pc'[conn'[c].loop] # "exited" PROVE Lives(c)'
  <2> DEFINE k == conn[c].loop
  <2>1. k \in Loops /\ c \in Conns /\ pc[k] # "exited" /\ conn'[c].loop = k
    <3>1. c \in Conns /\ k \in Loops /\ pc[k] # "exited"
      BY <1>1, <1>2, ConnFacts DEF IInv, LoopInv
    <3> QED  BY <1>4, <3>1
  <2>2. Lives(c) /\ conn[c].state \in States
    BY <1>1, <2>1, LivesNow, ConnFacts
  <2>3. /\ Has(Todo'[k], <<"connectEstablished", c>>) <=> Has(Todo[k], <<"connectEstablished", c>>)
        /\ Has(Todo'[k], <<"connectDestroyed", c>>) <=>
              Has(Todo[k], <<"connectDestroyed", c>>) \/ (c \in connections /\ k # Base)
    BY <1>3, <2>1
  <2>4. c \in destroyed' => c \in destroyed \/ ~ Has(Todo'[k], <<"connectDestroyed", c>>)
    <3>1. "connectDestroyed" \in Functors
      BY DEF Functors
    <3>2. ASSUME c \in destroyed', c \notin destroyed PROVE ~ Has(Todo'[k], <<"connectDestroyed", c>>)
      <4>1. c \notin Referenced'
        BY <1>2, <3>2 DEF Release
      <4> HIDE DEF k
      <4> QED  BY <2>1, <3>1, <4>1, Unreferenced
    <3> QED  BY <3>2
  <2>5. CASE c \in cs
    <3>1. c \in connections /\ k = Base
      BY <2>5
    <3>2. c \notin registered' /\ conn'[c].state = IF conn[c].state = "kConnected" THEN "kDisconnected" ELSE conn[c].state
      BY <1>4, <1>5, <2>1, <2>5
    <3>3. conn[c].state # "kConnecting" /\ conn[c].state # "none"
      BY <2>2, <3>1 DEF Lives
    <3> HIDE DEF cs, k
    <3> QED  BY <1>2, <2>1, <2>2, <2>3, <3>1, <3>2, <3>3 DEF Lives, Waits, k
  <2>6. CASE c \in connections /\ k # Base
    <3>1. conn'[c] = conn[c] /\ (c \in registered' <=> c \in registered)
      BY <1>4, <1>5, <2>1, <2>6
    <3> QED  BY <1>2, <2>2, <2>3, <2>4, <2>6, <3>1 DEF Lives, Waits
  <2>7. CASE c \notin connections
    <3>1. conn'[c] = conn[c] /\ (c \in registered' <=> c \in registered)
      BY <1>4, <1>5, <2>1, <2>7
    <3> QED  BY <1>2, <2>2, <2>3, <2>4, <2>7, <3>1 DEF Lives, Waits
  <2> QED  BY <2>5, <2>6, <2>7
<1>9. failed' \subseteq {"isNoneEvent"} /\ connections' = {}
  <2>1. cs \subseteq registered
    <3> SUFFICES ASSUME NEW c \in cs PROVE c \in registered
      OBVIOUS
    <3>1. c \in Known /\ pc[conn[c].loop] # "exited"
      BY <1>6 DEF IInv, LoopInv
    <3> QED  BY <3>1, LivesNow DEF Lives
  <2>2. failed \subseteq {"isNoneEvent"}
    BY DEF IInv, LifeInv
  <2> HIDE DEF cs
  <2> QED  BY <1>2, <2>1, <2>2 DEF ConnectDestroyed, Unless
<1> QED  BY <1>1, <1>7, <1>8, <1>9 DEF LifeInv

(* Every step keeps connections on their way.                              *)
LEMMA WayStep == IInv /\ [Next]_vars => TodoInv' /\ LifeInv'
<1> SUFFICES ASSUME IInv, [Next]_vars PROVE TodoInv' /\ LifeInv'
  OBVIOUS
<1>1. TypeOK' /\ LoopInv' /\ TypeOK /\ LoopInv /\ failed \subseteq {"isNoneEvent"}
  BY TypeStep, LoopStep DEF IInv, LifeInv
<1>p. pc \in [Loops -> {"none", "callback", "published", "poll", "handled",
                         "run", "start", "dtor", "join", "exited"}] /\ Base \in Loops
  BY <1>1, ServerAssumption DEF TypeOK, Base, Loops
<1>2. ASSUME NEW c \in Conns, Shutdown(c) \/ HandleClose(c) PROVE TodoInv' /\ LifeInv'
  BY <1>2, ShutdownStep, CloseStep
<1>3. ASSUME NEW l \in Loops, RunFunctor(l) \/ EndRound(l) PROVE TodoInv' /\ LifeInv'
  BY <1>1, <1>3, RunStep, EndStep
<1>4. CASE HandleRead
  BY <1>4, AcceptStep
<1>5. CASE DtorBody
  BY <1>1, <1>5, DtorStep
<1>6. ASSUME NEW n \in 0..MaxThreads, SetThreadNum(n) PROVE TodoInv' /\ LifeInv'
  BY <1>1, <1>6, QuietStep, SameTodo DEF SetThreadNum, loopVars, acceptVars
<1>7. CASE Start
  <2>1. failed' \subseteq {"isNoneEvent"}
    BY <1>1, <1>7 DEF Start, Listen, LoopInv, Unless
  <2>2. \A l \in Loops : pc'[l] # "exited" => pc[l] # "exited"
    BY <1>p, <1>7 DEF Start, Go, At
  <2> QED  BY <1>1, <1>7, <2>1, <2>2, QuietStep, SameTodo DEF Start, acceptVars
<1>8. CASE StartElsewhere
  BY <1>1, <1>8, QuietStep, SameTodo DEF StartElsewhere, loopVars, acceptVars
<1>9. CASE ClientConnects
  BY <1>1, <1>9, QuietStep, SameTodo DEF ClientConnects, loopVars
<1>10. ASSUME NEW e \in AcceptErrors \union {"EMFILE"}, HandleReadFails(e) PROVE TodoInv' /\ LifeInv'
  BY <1>1, <1>10, QuietStep, SameTodo DEF HandleReadFails, ErrnoOf, Expected
<1>11. CASE QuitThread \/ JoinReturns
  <2>1. \A l \in Loops : pc'[l] # "exited" => pc[l] # "exited"
    BY <1>p, <1>11 DEF QuitThread, JoinReturns, Go, At
  <2> QED  BY <1>1, <1>11, <2>1, QuietStep, SameTodo DEF QuitThread, JoinReturns, acceptVars
<1>12. CASE DtorEnds
  <2>1. \A l \in Loops : pc'[l] # "exited" => pc[l] # "exited"
    BY <1>p, <1>12 DEF DtorEnds, Go, At
  <2>2. server = "dtor" /\ server' = "gone"
    BY <1>1, <1>12 DEF DtorEnds, At, LoopInv
  <2> QED  BY <1>1, <1>12, <2>1, <2>2, QuietStep, SameTodo DEF DtorEnds
<1>13. ASSUME NEW l \in Loops, StartThread(l) \/ Publish(l) \/ EnterLoop(l) PROVE TodoInv' /\ LifeInv'
  <2>1. \A m \in Loops : pc'[m] # "exited" => pc[m] # "exited"
    BY <1>p, <1>13 DEF StartThread, Publish, EnterLoop, Go, At
  <2> QED  BY <1>1, <1>13, <2>1, QuietStep, SameTodo DEF StartThread, Publish, EnterLoop, acceptVars
<1>14. ASSUME NEW l \in Loops, StartLoopReturns(l) PROVE TodoInv' /\ LifeInv'
  <2>1. failed' \subseteq {"isNoneEvent"}
    BY <1>1, <1>14 DEF StartLoopReturns, Listen, LoopInv, At, Unless
  <2>2. \A m \in Loops : pc'[m] # "exited" => pc[m] # "exited"
    BY <1>p, <1>14 DEF StartLoopReturns, Go, At
  <2> QED  BY <1>1, <1>14, <2>1, <2>2, QuietStep, SameTodo DEF StartLoopReturns, acceptVars
<1>15. ASSUME NEW l \in Loops, TakeFunctors(l) PROVE TodoInv' /\ LifeInv'
  <2>1. \A m \in Loops : pc'[m] # "exited" => pc[m] # "exited"
    BY <1>p, <1>15 DEF TakeFunctors, InHandlers, Handlers, Go
  <2>2. batch[l] = <<>>
    BY <1>1, <1>15 DEF LoopInv, TakeFunctors, InHandlers, Handlers
  <2>3. Todo' = Todo
    BY <1>1, <1>15, <2>2, TakeTodo DEF TakeFunctors
  <2> QED  BY <1>1, <1>15, <2>1, <2>3, QuietStep DEF TakeFunctors, acceptVars
<1>16. CASE UNCHANGED vars
  BY <1>1, <1>16, QuietStep, SameTodo DEF vars, loopVars, acceptVars
<1> QED  BY <1>2, <1>3, <1>4, <1>5, <1>6, <1>7, <1>8, <1>9, <1>10, <1>11, <1>12, <1>13, <1>14,
            <1>15, <1>16 DEF Next, BaseStep, ThreadStep

-----------------------------------------------------------------------------
(* The constructors establish the invariant.                               *)
LEMMA InitOK == Init => IInv
<1> SUFFICES ASSUME Init PROVE IInv
  OBVIOUS
<1>1. MaxThreads \in Nat /\ MaxConns \in Nat /\ listenFd \in Fds /\ idleFd \in Fds
  BY ServerAssumption DEF listenFd, idleFd
<1>2. Base \in Loops
  BY <1>1 DEF Base, Loops
<1>3. TypeOK
  <2>1. <<>> \in Seq(Functors \X Conns) /\ <<>> \in Seq(Loops \ {Base})
    OBVIOUS
  <2>2. conn \in [Conns -> [state : States, loop : Loops, fd : Fds]]
    BY <1>1, <1>2 DEF Init, States
  <2>3. pc \in [Loops -> {"none", "callback", "published", "poll", "handled",
                         "run", "start", "dtor", "join", "exited"}]
    BY DEF Init
  <2>4. \A q \in {queue, batch} : q \in [Loops -> Seq(Functors \X Conns)]
    BY <2>1 DEF Init
  <2>5. joined \in Loops /\ numThreads \in 0..MaxThreads /\ next \in Nat /\ backlog \in 0..MaxConns
        /\ nextConnId \in 1..(MaxConns + 1)
    BY <1>1 DEF Init, Loops
  <2> QED  BY <1>1, <2>1, <2>2, <2>3, <2>4, <2>5 DEF Init, TypeOK
<1>4. Known = {} /\ Live = {}
  BY <1>1 DEF Init, Known, Live, Conns
<1>5. Todo = [l \in Loops |-> <<>>]
  <2>1. <<>> \o <<>> = <<>>
    OBVIOUS
  <2> QED  BY <2>1 DEF Init, Todo
<1>6. LoopInv
  <2>1. Len(<<>>) = 0 /\ Bound(<<>>) = {}
    BY DEF Bound
  <2> QED  BY <1>2, <2>1 DEF Init, LoopInv
<1>7. KnownInv
  BY <1>1, <1>4 DEF Init, KnownInv
<1>8. FdInv
  BY <1>4 DEF Init, FdInv
<1>9. TodoInv
  BY <1>5 DEF TodoInv, Once, Early, Waits, Has
<1>10. LifeInv
  BY <1>4 DEF Init, LifeInv
<1>11. ShareInv
  <2>1. \A i \in 1..Len(loops) : FALSE
    BY DEF Init
  <2>2. 0 \in Nat /\ \A i \in 1..Len(loops) : Given(loops[i]) = IF i <= next THEN 0 + 1 ELSE 0
    BY <2>1
  <2> QED  BY <1>4, <2>2 DEF Init, ShareInv
<1> QED  BY <1>3, <1>6, <1>7, <1>8, <1>9, <1>10, <1>11 DEF IInv

(* Connections, descriptors and functors stay as IInv describes.           *)
THEOREM Invariance == Spec => []IInv
<1>1. IInv /\ [Next]_vars => IInv'
  BY TypeStep, LoopStep, KnownStep, FdStep, WayStep, ShareStep DEF IInv
<1> QED  BY <1>1, InitOK, PTL DEF Spec

(* Descriptors are neither leaked nor closed twice, whichever loop drops   *)
(* the last reference to a connection.                                     *)
THEOREM FdsOwnedHolds == Spec => []FdsOwned
<1>1. IInv => FdsOwned
  BY DEF IInv, FdInv, FdsOwned
<1> QED  BY <1>1, Invariance, PTL

-----------------------------------------------------------------------------
(* A connection whose channel was removed with its events enabled.         *)
Refused(c) == c \notin registered /\ conn[c].state = "kDisconnecting"

RefuseInv == "isNoneEvent" \in failed <=> \E c \in Known : Refused(c)

(* connectDestroyed refuses exactly the connections shutting down.         *)
LEMMA RefuseDestroyed ==
    ASSUME IInv, RefuseInv, NEW cs, cs \subseteq Known, ConnectDestroyed(cs), nextConnId' = nextConnId
    PROVE  RefuseInv'
<1>1. /\ Known' = Known /\ Known \subseteq Conns
      /\ conn \in [Conns -> [state : States, loop : Loops, fd : Fds]]
  BY KnownFacts DEF Known, IInv, TypeOK
<1>2. "isNoneEvent" \in failed' <=>
         "isNoneEvent" \in failed \/ \E c \in cs : conn[c].state = "kDisconnecting"
  BY DEF ConnectDestroyed, Unless
<1>3. ASSUME NEW c \in Known
      PROVE  Refused(c)' <=> Refused(c) \/ (c \in cs /\ conn[c].state = "kDisconnecting")
  <2>1. conn'[c] = IF c \in cs /\ conn[c].state = "kConnected"
                   THEN [conn[c] EXCEPT !.state = "kDisconnected"] ELSE conn[c]
    BY <1>1 DEF ConnectDestroyed
  <2>2. conn[c] \in [state : States, loop : Loops, fd : Fds]
    BY <1>1
  <2>3. conn'[c].state = "kDisconnecting" <=> conn[c].state = "kDisconnecting"
    <3>1. CASE c \in cs /\ conn[c].state = "kConnected"
      BY <2>1, <2>2, <3>1
    <3>2. CASE ~ (c \in cs /\ conn[c].state = "kConnected")
      BY <2>1, <3>2
    <3> QED  BY <3>1, <3>2
  <2>4. c \in registered' <=> c \in registered /\ c \notin cs
    BY DEF ConnectDestroyed
  <2> QED  BY <2>3, <2>4 DEF Refused
<1> QED  BY <1>1, <1>2, <1>3 DEF RefuseInv

(* No other step makes or ends a connection of that kind.                  *)
LEMMA RefuseFrame ==
    ASSUME RefuseInv, Known' = Known, "isNoneEvent" \in failed' <=> "isNoneEvent" \in failed,
           \A c \in Known : Refused(c)' <=> Refused(c)
    PROVE  RefuseInv'
BY DEF RefuseInv

LEMMA RefuseStep == IInv /\ RefuseInv /\ [Next]_vars => RefuseInv'
<1> SUFFICES ASSUME IInv, RefuseInv, [Next]_vars PROVE RefuseInv'
  OBVIOUS
<1>1. /\ TypeOK /\ Known \subseteq Conns /\ registered \subseteq Known
      /\ conn \in [Conns -> [state : States, loop : Loops, fd : Fds]]
  BY KnownFacts DEF IInv, TypeOK, KnownInv
<1>2. CASE HandleRead
  <2>0. PICK c \in Conns : c = nextConnId
    BY <1>2, AcceptFacts
  <2>1. /\ c \notin Known /\ nextConnId' = c + 1
        /\ registered' = (IF NextLoop = Base THEN registered \union {c} ELSE registered)
    BY <1>2, <2>0, AcceptFacts
  <2>2. PICK fd \in Fds \ open :
           conn' = [conn EXCEPT ![c] =
                       [state |-> IF NextLoop = Base THEN "kConnected" ELSE "kConnecting",
                        loop |-> NextLoop, fd |-> fd]]
    BY <1>2, <2>0, AcceptFacts
  <2>3. Known' = Known \union {c} /\ failed' = failed
    BY <1>1, <1>2, <2>0, <2>1, KnownFacts DEF Known, HandleRead, TypeOK
  <2>4. conn'[c].state # "kDisconnecting" /\ \A d \in Known : conn'[d] = conn[d]
    BY <1>1, <2>1, <2>2
  <2>5. ~ Refused(c)' /\ \A d \in Known : Refused(d)' <=> Refused(d)
    BY <2>1, <2>4 DEF Refused
  <2> QED  BY <2>3, <2>5 DEF RefuseInv
<1>3. ASSUME NEW c \in Conns, Shutdown(c) \/ HandleClose(c) PROVE RefuseInv'
  <2>1. /\ c \in registered /\ UNCHANGED <<registered, nextConnId>>
        /\ \A d \in Known : d # c => conn'[d] = conn[d]
    BY <1>1, <1>3 DEF Shutdown, HandleClose, acceptVars
  <2>2. "isNoneEvent" \in failed' <=> "isNoneEvent" \in failed
    BY <1>3 DEF Shutdown, HandleClose, RemoveConnectionInLoop, Unless
  <2>3. ASSUME NEW d \in Known PROVE Refused(d)' <=> Refused(d)
    BY <2>1 DEF Refused
  <2> QED  BY <2>1, <2>2, <2>3, RefuseFrame DEF Known
<1>4. CASE DtorBody
  BY <1>1, <1>4, RefuseDestroyed DEF DtorBody, acceptVars, IInv, KnownInv
<1>5. ASSUME NEW l \in Loops, RunFunctor(l) PROVE RefuseInv'
  <2>0. PICK f \in Functors, c \in Conns : f = Head(batch[l])[1] /\ c = Head(batch[l])[2]
    BY <1>5, RunFacts
  <2>1. /\ c \in Known /\ Has(Todo[l], <<f, c>>) /\ pc[l] = "run" /\ nextConnId' = nextConnId
    BY <1>5, <2>0, RunFacts DEF Waits, RunFunctor, At, acceptVars
  <2>2. \/ /\ f = "connectEstablished" /\ Established(c)
           /\ failed' = failed \union Unless(conn[c].state = "kConnecting", "kConnecting")
        \/ f = "connectDestroyed" /\ ConnectDestroyed({c})
        \/ RemoveConnectionInLoop(c) /\ UNCHANGED <<conn, registered>>
        \/ UNCHANGED <<connVars, queue, failed>>
    BY <1>5, <2>0 DEF RunFunctor
  <2>3. CASE /\ f = "connectEstablished" /\ Established(c)
             /\ failed' = failed \union Unless(conn[c].state = "kConnecting", "kConnecting")
    <3>1. conn[c].loop = l
      BY <2>1, <2>3 DEF IInv, TodoInv, Waits
    <3>2. conn[c].state = "kConnecting"
      BY <2>1, <2>3, <3>1, LivesNow DEF Lives, Waits
    <3>3. conn'[c].state = "kConnected" /\ \A d \in Known : d # c => conn'[d] = conn[d]
      BY <1>1, <2>3 DEF Established
    <3>4. ASSUME NEW d \in Known PROVE Refused(d)' <=> Refused(d)
      BY <2>3, <3>2, <3>3 DEF Refused, Established
    <3>5. "isNoneEvent" \in failed' <=> "isNoneEvent" \in failed
      BY <2>3 DEF Unless
    <3> QED  BY <2>1, <3>4, <3>5, RefuseFrame DEF Known
  <2>4. CASE ConnectDestroyed({c})
    <3>1. {c} \subseteq Known
      BY <2>1
    <3> QED  BY <2>1, <2>4, <3>1, RefuseDestroyed
  <2>5. CASE \/ RemoveConnectionInLoop(c) /\ UNCHANGED <<conn, registered>>
             \/ UNCHANGED <<connVars, queue, failed>>
    <3>1. \A d \in Known : Refused(d)' <=> Refused(d)
      BY <2>5 DEF Refused, connVars
    <3>2. "isNoneEvent" \in failed' <=> "isNoneEvent" \in failed
      BY <2>5 DEF RemoveConnectionInLoop, Unless
    <3> QED  BY <2>1, <3>1, <3>2, RefuseFrame DEF Known
  <2> QED  BY <2>2, <2>3, <2>4, <2>5
<1>6. ASSUME UNCHANGED <<conn, registered, nextConnId>>,
             "isNoneEvent" \in failed' <=> "isNoneEvent" \in failed
      PROVE  RefuseInv'
  BY <1>6, RefuseFrame DEF Known, Refused
<1>7. CASE Start \/ \E l \in Loops : StartLoopReturns(l)
  BY <1>6, <1>7 DEF Start, StartLoopReturns, Listen, Unless, acceptVars, connVars
<1>8. CASE \/ \E n \in 0..MaxThreads : SetThreadNum(n)
           \/ StartElsewhere \/ ClientConnects \/ QuitThread \/ JoinReturns \/ DtorEnds
           \/ \E e \in AcceptErrors \union {"EMFILE"} : HandleReadFails(e)
  BY <1>6, <1>8 DEF SetThreadNum, StartElsewhere, ClientConnects, QuitThread, JoinReturns, DtorEnds,
                    HandleReadFails, acceptVars, connVars
<1>9. CASE \/ \E l \in Loops : \/ StartThread(l) \/ Publish(l) \/ EnterLoop(l) \/ TakeFunctors(l)
                               \/ EndRound(l)
           \/ UNCHANGED vars
  BY <1>6, <1>9 DEF StartThread, Publish, EnterLoop, TakeFunctors, EndRound, acceptVars, connVars, vars
<1> QED  BY <1>2, <1>3, <1>4, <1>5, <1>7, <1>8, <1>9 DEF Next, BaseStep, ThreadStep

(* No assert on a connection's way from newConnection over handleClose and *)
(* removeConnectionInLoop to connectDestroyed fails but the one ~TcpServer *)
(* runs into while a connection is shutting down, and only a connection    *)
(* that is closed, or is that one, is destroyed.                           *)
THEOREM NoAssertFailsHolds == Spec => []NoAssertFails
<1>1. IInv /\ RefuseInv => NoAssertFails
  <2> SUFFICES ASSUME IInv, RefuseInv PROVE NoAssertFails
    OBVIOUS
  <2>1. failed \subseteq {"isNoneEvent"}
    BY DEF IInv, LifeInv
  <2>2. ASSUME NEW c \in destroyed, pc[conn[c].loop] # "exited"
        PROVE  /\ c \notin registered
               /\ \/ conn[c].state = "kDisconnected"
                  \/ conn[c].state = "kDisconnecting" /\ "isNoneEvent" \in failed
    <3>1. c \in Known /\ c \in Conns
      BY KnownFacts DEF IInv, KnownInv
    <3>2. Lives(c) /\ conn[c].state \in States
      BY <2>2, <3>1, LivesNow, ConnFacts DEF IInv
    <3> QED  BY <2>2, <3>1, <3>2 DEF Lives, States, RefuseInv, Refused
  <2>3. ASSUME "isNoneEvent" \in failed
        PROVE  server # "up" /\ \E c \in Conns \ registered : conn[c].state = "kDisconnecting"
    <3>1. PICK c \in Known : c \notin registered /\ conn[c].state = "kDisconnecting"
      BY <2>3 DEF RefuseInv, Refused
    <3>2. c \in Conns /\ conn[c].loop \in Loops
      BY <3>1, KnownFacts, ConnFacts DEF IInv
    <3>3. ASSUME server = "up" PROVE FALSE
      <4>1. pc[conn[c].loop] # "exited"
        BY <3>2, <3>3 DEF IInv, LoopInv
      <4> QED  BY <3>1, <3>3, <4>1, LivesNow DEF Lives
    <3> QED  BY <3>1, <3>2, <3>3
  <2> QED  BY <2>1, <2>2, <2>3 DEF NoAssertFails
<1>2. Init => RefuseInv
  <2> SUFFICES ASSUME Init PROVE RefuseInv
    OBVIOUS
  <2>1. Known = {} /\ failed = {}
    BY DEF Init, Known
  <2> QED  BY <2>1 DEF RefuseInv
<1> QED  BY <1>1, <1>2, Invariance, RefuseStep, PTL DEF Spec

(* getNextLoop spreads the connections evenly over the loops of the pool.  *)
THEOREM BalancedHolds == Spec => []Balanced
<1>1. IInv => Balanced
  <2> SUFFICES ASSUME IInv, loops # <<>>
               PROVE  Given(Base) = 0 /\ \A l, m \in Range(loops) : Given(l) <= Given(m) + 1
    BY DEF Balanced
  <2>1. TypeOK /\ ShareInv
    BY DEF IInv
  <2>2. Given(Base) = 0
    <3>1. On(Base) = {}
      BY <2>1 DEF On, ShareInv
    <3> QED  BY <2>1, <3>1, GivenFacts, FS_EmptySet
  <2>3. PICK q \in Nat : \A i \in 1..Len(loops) : Given(loops[i]) = IF i <= next THEN q + 1 ELSE q
    BY <2>1 DEF ShareInv
  <2>4. ASSUME NEW l \in Range(loops), NEW m \in Range(loops) PROVE Given(l) <= Given(m) + 1
    <3>1. DOMAIN loops = 1..Len(loops)
      BY <2>1 DEF TypeOK
    <3>2. PICK i \in 1..Len(loops), j \in 1..Len(loops) : l = loops[i] /\ m = loops[j]
      BY <2>4, <3>1 DEF Range
    <3>3. Given(l) \in {q, q + 1} /\ Given(m) \in {q, q + 1}
      BY <2>3, <3>2
    <3> QED  BY <2>3, <3>3
  <2> QED  BY <2>2, <2>4
<1> QED  BY <1>1, Invariance, PTL
=============================================================================
