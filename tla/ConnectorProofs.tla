-------------------------- MODULE ConnectorProofs ---------------------------
(***************************************************************************)
(* Connector and TcpClient make one attempt at a time, own every socket    *)
(* they open and keep their asserts unless connect() or ~TcpClient comes   *)
(* too early, for all delays and any number of sockets.                    *)
(***************************************************************************)
EXTENDS Connector, TLAPS, FiniteSetTheorems

(* The functors still to be run.                                           *)
Todo == batch \o queue

Has(s, x) == \E i \in 1..Len(s) : s[i] = x

(* Only stop() may be queued twice.                                        *)
Singly(s) == \A i, j \in 1..Len(s) : s[i] = s[j] /\ s[i][1] # "stopInLoop" => i = j

Names == {"startInLoop", "stopInLoop", "resetChannel", "forceCloseInLoop"}
Waits(name) == Has(Todo, Functor(name))
Queued(name) == Has(queue, Functor(name))
Doomed(s) == Has(Todo, <<"connectDestroyed", s>>)

(* The ways in which an attempt is under way: besides those OneAttempt     *)
(* counts, a connect() that another thread has begun.                      *)
Calling == pc[1] \in Connects
Expired == "timer" \in ready
Restarting == phase = "restart"
Starting == Waits("startInLoop") \/ Calling \/ Expired \/ Restarting

(* Where the loop and the calls are.                                       *)
PhaseInv ==
    /\ phase # "functors" => batch = <<>>
    /\ ready # {} => phase \in {"handlers", "restart"}
    /\ Restarting => client = "up"
    /\ pc # Idle => client = "up" /\ pc[1] \in called \ returned
    /\ "connect" \notin called => called = {} /\ client = "up"
    /\ rushed # "nothing" => "reconnect" \in called \/ client = "gone"
    /\ client = "dtor" => ~goOn

(* What functors are queued.                                               *)
FunctorInv ==
    /\ Waits("forceCloseInLoop") => client = "gone"
    /\ \A f \in Functors : Has(Todo, f) => (f[1] = "connectDestroyed" <=> f[2] # NoSocket)

(* One of a timer, a functor, a call, a channel and a connection at most.  *)
OneInv ==
    /\ Singly(Todo) /\ timers <= 1
    /\ timers > 0 => ~Starting /\ sock = NoSocket /\ connection = NoSocket
    /\ Waits("startInLoop") => ~Calling /\ ~Expired /\ ~Restarting
    /\ Calling => ~Expired /\ ~Restarting
    /\ Expired => ~Restarting
    /\ Starting => sock = NoSocket /\ connection = NoSocket
    /\ sock # NoSocket => connection = NoSocket
    /\ "connect" \notin called =>
          /\ timers = 0 /\ ~Starting /\ channel = "none" /\ connection = NoSocket
          /\ state = "kDisconnected" /\ ready = {}

(* The channel: in the poller while it connects, then waiting for its      *)
(* functor; it is gone before anything starts anew.                        *)
ChannelInv ==
    /\ channel = "added" <=> state = "kConnecting"
    /\ channel = "added" <=> sock # NoSocket
    /\ channel = "removed" <=> Waits("resetChannel")
    /\ Starting \/ "close" \in ready => channel = "none"
    /\ connection # NoSocket /\ phase \in {"functors", "poll"} => ~ Queued("resetChannel")
    /\ "close" \in ready => connection # NoSocket
    /\ ready \intersect {"write", "error"} # {} =>
          state # "kConnected" /\ ~Expired /\ ~Restarting /\ "close" \notin ready
    /\ client = "gone" => timers = 0 /\ ~Starting /\ channel = "none"
    /\ client = "dtor" /\ channel = "added" => Waits("stopInLoop")

SocketInv ==
    \A s \in Sockets :
        /\ s \in open <=> s = sock \/ s = connection \/ Doomed(s)
        /\ Doomed(s) => s # sock /\ s # connection

AssertInv ==
    rushed = "nothing" =>
       /\ ~failed /\ ~broken
       /\ timers > 0 \/ Waits("startInLoop") \/ Calling \/ Expired => state = "kDisconnected"

(* The functor of stop() has run before the connector is destroyed.        *)
StopInv == rushed = "nothing" /\ client = "gone" => ~Waits("stopInLoop")

IInv == /\ TypeOK /\ PhaseInv /\ FunctorInv /\ StopInv
        /\ rushed # "pending" => OneInv /\ ChannelInv /\ SocketInv
        /\ AssertInv

-----------------------------------------------------------------------------
(* A functor queued at the end.                                            *)
LEMMA PushFacts ==
    ASSUME NEW s \in Seq(Functors), NEW x \in Functors
    PROVE  LET t == s \o <<x>>
           IN  /\ t \in Seq(Functors)
               /\ \A y : Has(t, y) <=> Has(s, y) \/ y = x
               /\ Singly(s) /\ (Has(s, x) => x[1] = "stopInLoop") => Singly(t)
<1> DEFINE t == s \o <<x>>
           n == Len(s)
<1>1. /\ n \in Nat /\ t \in Seq(Functors) /\ Len(t) = n + 1 /\ t[n + 1] = x
      /\ \A i \in 1..n : t[i] = s[i]
  <2> HIDE DEF Functors
  <2> QED  OBVIOUS
<1>2. (\A i \in 1..(n + 1) : i \in 1..n \/ i = n + 1)
      /\ (\A i \in 1..n : i \in 1..(n + 1)) /\ n + 1 \in 1..(n + 1)
  BY <1>1
<1> HIDE DEF t, n
<1>3. \A y : Has(t, y) <=> Has(s, y) \/ y = x
  BY <1>1, <1>2 DEF Has, n
<1>4. ASSUME Singly(s), Has(s, x) => x[1] = "stopInLoop" PROVE Singly(t)
  BY <1>1, <1>2, <1>4 DEF Singly, Has, n
<1> QED  BY <1>1, <1>3, <1>4 DEF t

(* The first functor run.                                                  *)
LEMMA PopFacts ==
    ASSUME NEW s \in Seq(Functors), s # <<>>
    PROVE  LET t == Tail(s)
               x == Head(s)
           IN  /\ t \in Seq(Functors) /\ x \in Functors /\ Has(s, x)
               /\ \A y : Has(t, y) => Has(s, y)
               /\ \A y : Has(s, y) /\ y # x => Has(t, y)
               /\ Singly(s) => Singly(t) /\ (x[1] # "stopInLoop" => ~ Has(t, x))
<1> DEFINE t == Tail(s)
           x == Head(s)
           n == Len(s)
<1>1. /\ n \in Nat /\ n >= 1 /\ t \in Seq(Functors) /\ Len(t) = n - 1 /\ x = s[1]
      /\ \A i \in 1..(n - 1) : t[i] = s[i + 1]
  <2> HIDE DEF Functors
  <2> QED  OBVIOUS
<1>2. \A i \in 1..n : s[i] \in Functors
  <2> HIDE DEF Functors
  <2> QED  OBVIOUS
<1> HIDE DEF t, x, n
<1>3. 1 \in 1..n /\ \A i \in 1..(n - 1) : i \in Int /\ i + 1 \in 1..n /\ i + 1 # 1
  BY <1>1
<1>4. \A i \in 1..n : i = 1 \/ (i - 1 \in 1..(n - 1) /\ (i - 1) + 1 = i)
  BY <1>1
<1>5. x \in Functors /\ Has(s, x)
  BY <1>1, <1>2, <1>3 DEF Has, n
<1>6. \A y : Has(t, y) => Has(s, y)
  BY <1>1, <1>3 DEF Has, n
<1>7. ASSUME NEW y, Has(s, y), y # x PROVE Has(t, y)
  <2>1. PICK i \in 1..n : s[i] = y
    BY <1>7 DEF Has, n
  <2>2. i - 1 \in 1..(n - 1) /\ t[i - 1] = y
    BY <1>1, <1>4, <1>7, <2>1
  <2> QED  BY <1>1, <2>2 DEF Has
<1>8. ASSUME Singly(s) PROVE Singly(t)
  <2> SUFFICES ASSUME NEW i \in 1..(n - 1), NEW j \in 1..(n - 1), t[i] = t[j],
                      t[i][1] # "stopInLoop"
               PROVE  i = j
    BY <1>1 DEF Singly
  <2>1. i + 1 = j + 1
    BY <1>1, <1>3, <1>8 DEF Singly, n
  <2> QED  BY <1>3, <2>1
<1>9. ASSUME Singly(s), x[1] # "stopInLoop", Has(t, x) PROVE FALSE
  <2>1. PICK i \in 1..(n - 1) : t[i] = x
    BY <1>1, <1>9 DEF Has
  <2>2. i + 1 \in 1..n /\ i + 1 # 1 /\ s[i + 1] = s[1] /\ s[1][1] # "stopInLoop"
    BY <1>1, <1>3, <1>9, <2>1
  <2> QED  BY <1>3, <1>9, <2>2 DEF Singly, n
<1> QED  BY <1>1, <1>5, <1>6, <1>7, <1>8, <1>9 DEF t, x

(* What is to be done after a functor was queued, run, or both.            *)
LEMMA TodoType ==
    ASSUME TypeOK
    PROVE  batch \in Seq(Functors) /\ queue \in Seq(Functors) /\ Todo \in Seq(Functors)
<1>1. batch \in Seq(Functors) /\ queue \in Seq(Functors)
  BY DEF TypeOK
<1> HIDE DEF Functors
<1> QED  BY <1>1 DEF Todo

(* A functor queued behind both vectors.                                   *)
LEMMA Assoc ==
    ASSUME NEW b \in Seq(Functors), NEW q \in Seq(Functors), NEW r \in Seq(Functors)
    PROVE  b \o (q \o r) = (b \o q) \o r
<1> HIDE DEF Functors
<1> DEFINE u == b \o (q \o r)
           v == (b \o q) \o r
           n == Len(b)
           k == Len(q)
           m == Len(r)
<1>1. /\ n \in Nat /\ k \in Nat /\ m \in Nat /\ u \in Seq(Functors) /\ v \in Seq(Functors)
      /\ Len(u) = n + k + m /\ Len(v) = n + k + m
  OBVIOUS
<1>2. \A i \in 1..(n + k + m) : u[i] = v[i]
  <2> SUFFICES ASSUME NEW i \in 1..(n + k + m) PROVE u[i] = v[i]
    OBVIOUS
  <2>1. CASE i \in 1..n
    BY <2>1
  <2>2. CASE i \in (n + 1)..(n + k)
    BY <2>2
  <2>3. CASE i \in (n + k + 1)..(n + k + m)
    BY <2>3
  <2> QED  BY <1>1, <2>1, <2>2, <2>3
<1> HIDE DEF u, v, n, k, m
<1>3. u = v
  BY <1>1, <1>2
<1> QED  BY <1>3 DEF u, v

(* Running the first functor of the batch.                                 *)
LEMMA ConcatTail ==
    ASSUME NEW b \in Seq(Functors), NEW q \in Seq(Functors), b # <<>>
    PROVE  Tail(b) \o q = Tail(b \o q) /\ b \o q # <<>> /\ Head(b \o q) = Head(b)
<1> HIDE DEF Functors
<1> QED  OBVIOUS

(* queueInLoop adds one functor to what is to be done.                     *)
LEMMA PushTodo ==
    ASSUME TypeOK, NEW x \in Functors, UNCHANGED batch, Push(<<x>>)
    PROVE  /\ \A y : Has(Todo', y) <=> Has(Todo, y) \/ y = x
           /\ \A y : Has(queue', y) <=> Has(queue, y) \/ y = x
           /\ Singly(Todo) /\ (Has(Todo, x) => x[1] = "stopInLoop") => Singly(Todo')
<1>1. Todo' = Todo \o <<x>>
  <2>1. <<x>> \in Seq(Functors)
    <3> HIDE DEF Functors
    <3> QED  OBVIOUS
  <2> QED  BY <2>1, TodoType, Assoc DEF Todo, Push
<1> QED  BY <1>1, TodoType, PushFacts DEF Push

(* A functor that is run is no longer to be done.                          *)
LEMMA PopTodo ==
    ASSUME TypeOK, batch # <<>>, batch' = Tail(batch), UNCHANGED queue
    PROVE  LET x == Head(batch)
           IN  /\ x \in Functors /\ Has(Todo, x)
               /\ \A y : Has(Todo', y) => Has(Todo, y)
               /\ \A y : Has(Todo, y) /\ y # x => Has(Todo', y)
               /\ Singly(Todo) => Singly(Todo') /\ (x[1] # "stopInLoop" => ~ Has(Todo', x))
<1>1. Todo' = Tail(Todo) /\ Todo # <<>> /\ Head(Todo) = Head(batch)
  BY TodoType, ConcatTail DEF Todo
<1> QED  BY <1>1, TodoType, PopFacts

(* A functor that is run and queues another.                               *)
LEMMA PopPushTodo ==
    ASSUME TypeOK, batch # <<>>, batch' = Tail(batch), NEW z \in Functors, Push(<<z>>)
    PROVE  LET x == Head(batch)
           IN  /\ x \in Functors /\ Has(Todo, x)
               /\ \A y : Has(Todo', y) => Has(Todo, y) \/ y = z
               /\ \A y : Has(Todo, y) /\ y # x => Has(Todo', y)
               /\ Has(Todo', z)
               /\ \A y : Has(queue', y) <=> Has(queue, y) \/ y = z
               /\ Singly(Todo) /\ ~ Has(Todo, z) => Singly(Todo')
<1> DEFINE t == Tail(batch) \o queue
           x == Head(batch)
<1>1. t = Tail(Todo) /\ Todo # <<>> /\ Head(Todo) = x
  BY TodoType, ConcatTail DEF Todo
<1>2. /\ t \in Seq(Functors) /\ x \in Functors /\ Has(Todo, x)
      /\ \A y : Has(t, y) => Has(Todo, y)
      /\ \A y : Has(Todo, y) /\ y # x => Has(t, y)
      /\ Singly(Todo) => Singly(t)
  BY <1>1, TodoType, PopFacts
<1>3. Todo' = t \o <<z>>
  <2>1. <<z>> \in Seq(Functors) /\ Tail(batch) \in Seq(Functors)
    <3>1. batch \in Seq(Functors)
      BY TodoType
    <3> HIDE DEF Functors
    <3> QED  BY <3>1
  <2> QED  BY <2>1, TodoType, Assoc DEF Todo, Push
<1>4. \A y : Has(queue', y) <=> Has(queue, y) \/ y = z
  BY TodoType, PushFacts DEF Push
<1> HIDE DEF t, x
<1>5. /\ \A y : Has(Todo', y) <=> Has(t, y) \/ y = z
      /\ Singly(t) /\ ~ Has(t, z) => Singly(Todo')
  BY <1>2, <1>3, PushFacts
<1> QED  BY <1>2, <1>4, <1>5 DEF x

(* A step that touches neither vector.                                     *)
LEMMA SameTodo ==
    ASSUME UNCHANGED <<batch, queue>>
    PROVE  Todo' = Todo
BY DEF Todo

(* doPendingFunctors takes all that is to be done.                         *)
LEMMA TakeTodo ==
    ASSUME TypeOK, batch = <<>>, batch' = queue, queue' = <<>>
    PROVE  Todo' = Todo
<1>1. queue \in Seq(Functors)
  BY TodoType
<1> HIDE DEF Functors
<1> QED  BY <1>1 DEF Todo

(* Between rounds all of it is in the queue.                               *)
LEMMA QueueIsTodo ==
    ASSUME TypeOK, batch = <<>>
    PROVE  Todo = queue
<1>1. queue \in Seq(Functors)
  BY TodoType
<1> HIDE DEF Functors
<1> QED  BY <1>1 DEF Todo

-----------------------------------------------------------------------------
(* The parts of the handlers keep the types.                               *)
LEMMA RetryType ==
    ASSUME TypeOK, NEW s, NEW again \in BOOLEAN, NEW d \in InitRetryDelay..MaxRetryDelay,
           Retry(s, again, d)
    PROVE  /\ state' \in States /\ open' \in SUBSET Sockets /\ timers' \in Nat
           /\ delay' \in InitRetryDelay..MaxRetryDelay
<1>1. timers \in Nat /\ open \in SUBSET Sockets
  BY DEF TypeOK
<1>2. delay' \in InitRetryDelay..MaxRetryDelay
  BY DelayAssumption DEF Retry
<1> QED  BY <1>1, <1>2 DEF Retry, States

(* startInLoop keeps the types.                                            *)
LEMMA StartType ==
    ASSUME TypeOK, NEW st \in States, NEW again \in BOOLEAN,
           NEW d \in InitRetryDelay..MaxRetryDelay, StartInLoop(st, again, d)
    PROVE  /\ state' \in States /\ open' \in SUBSET Sockets /\ timers' \in Nat
           /\ delay' \in InitRetryDelay..MaxRetryDelay
           /\ channel' \in {"none", "added", "removed"}
           /\ sock' \in Sockets \union {NoSocket}
           /\ gaveUp' \in BOOLEAN /\ broken' \in BOOLEAN /\ failed' \in BOOLEAN
<1>0. /\ timers \in Nat /\ open \in SUBSET Sockets /\ channel \in {"none", "added", "removed"}
      /\ sock \in Sockets \union {NoSocket}
      /\ gaveUp \in BOOLEAN /\ broken \in BOOLEAN /\ failed \in BOOLEAN
  BY DEF TypeOK
<1>1. CASE ~again
  BY <1>0, <1>1 DEF StartInLoop
<1>2. CASE again
  <2>1. PICK s \in Sockets \ open :
           \/ Connecting(s, st # "kDisconnected") /\ delay' = d /\ UNCHANGED <<timers, gaveUp>>
           \/ /\ Retry(s, TRUE, d) /\ failed' = (failed \/ st # "kDisconnected")
              /\ UNCHANGED <<channel, sock, gaveUp, broken>>
           \/ /\ gaveUp' = TRUE /\ state' = st /\ delay' = d
              /\ failed' = (failed \/ st # "kDisconnected")
              /\ UNCHANGED <<channel, sock, open, timers, broken>>
    BY <1>2 DEF StartInLoop, Connect
  <2>2. CASE Connecting(s, st # "kDisconnected") /\ delay' = d /\ UNCHANGED <<timers, gaveUp>>
    BY <1>0, <2>2 DEF Connecting, States
  <2>3. CASE Retry(s, TRUE, d) /\ failed' = (failed \/ st # "kDisconnected")
             /\ UNCHANGED <<channel, sock, gaveUp, broken>>
    BY <1>0, <2>3, RetryType
  <2>4. CASE gaveUp' = TRUE /\ state' = st /\ delay' = d
             /\ failed' = (failed \/ st # "kDisconnected")
             /\ UNCHANGED <<channel, sock, open, timers, broken>>
    BY <1>0, <2>4
  <2> QED  BY <2>1, <2>2, <2>3, <2>4
<1> QED  BY <1>1, <1>2

(* So do the queues.                                                       *)
LEMMA PushType ==
    ASSUME TypeOK, NEW f \in Seq(Functors), Push(f)
    PROVE  queue' \in Seq(Functors)
<1>1. queue \in Seq(Functors)
  BY TodoType
<1> HIDE DEF Functors
<1> QED  BY <1>1 DEF Push

(* One functor is a sequence of functors.                                  *)
LEMMA OneType ==
    ASSUME NEW f \in Functors
    PROVE  <<f>> \in Seq(Functors)
<1> HIDE DEF Functors
<1> QED  OBVIOUS

(* The functors the code queues are functors of the model.                 *)
LEMMA NamesType ==
    /\ \A n \in Names :
          Functor(n) \in Functors /\ <<Functor(n)>> \in Seq(Functors)
    /\ \A s \in Sockets :
          <<"connectDestroyed", s>> \in Functors /\ <<<<"connectDestroyed", s>>>> \in Seq(Functors)
    /\ <<>> \in Seq(Functors)
<1>1. /\ \A n \in Names :
            Functor(n) \in Functors
      /\ \A s \in Sockets : <<"connectDestroyed", s>> \in Functors
  BY DEF Functor, Functors, Names
<1> HIDE DEF Functors
<1> QED  BY <1>1, OneType

(* The batch after a functor was run.                                      *)
LEMMA TailType ==
    ASSUME TypeOK, batch # <<>>, batch' = Tail(batch)
    PROVE  batch' \in Seq(Functors)
<1>1. batch \in Seq(Functors)
  BY TodoType
<1> HIDE DEF Functors
<1> QED  BY <1>1

(* Every handler and every part of a call keeps the types.                 *)
LEMMA HandlerType ==
    ASSUME TypeOK, Handle
    PROVE  TypeOK'
<1>1. CASE HandleWrite
  <2>1. queue' \in Seq(Functors)
    BY <1>1, TodoType, PushType, NamesType DEF Names, HandleWrite
  <2>2. CASE state = "kConnecting" /\ Retry(sock, goOn, delay) /\ UNCHANGED connection
    <3>1. /\ state' \in States /\ open' \in SUBSET Sockets /\ timers' \in Nat
          /\ delay' \in InitRetryDelay..MaxRetryDelay
      BY <2>2, RetryType DEF TypeOK
    <3> QED  BY <1>1, <2>1, <2>2, <3>1
             DEF TypeOK, HandleWrite, Handles, RemoveChannel, callVars, endVars
  <2>3. CASE /\ state = "kConnecting" /\ state' = "kConnected"
             /\ IF goOn THEN connection' = sock /\ UNCHANGED open
                ELSE open' = open \ {sock} /\ UNCHANGED connection
             /\ UNCHANGED <<timers, delay>>
    BY <1>1, <2>1, <2>3 DEF TypeOK, HandleWrite, Handles, RemoveChannel, callVars, endVars, States
  <2>4. CASE state # "kConnecting"
    BY <1>1, <2>1, <2>4 DEF TypeOK, HandleWrite, Handles, callVars, endVars
  <2> QED  BY <1>1, <2>2, <2>3, <2>4 DEF HandleWrite
<1>2. CASE HandleError
  <2>1. queue' \in Seq(Functors)
    BY <1>2, TodoType, PushType, NamesType DEF Names, HandleError
  <2>2. CASE state = "kConnecting"
    <3>1. /\ state' \in States /\ open' \in SUBSET Sockets /\ timers' \in Nat
          /\ delay' \in InitRetryDelay..MaxRetryDelay
      BY <1>2, <2>2, RetryType DEF TypeOK, HandleError
    <3> QED  BY <1>2, <2>1, <2>2, <3>1
             DEF TypeOK, HandleError, Handles, RemoveChannel, clientVars, callVars, endVars
  <2>3. CASE state # "kConnecting"
    BY <1>2, <2>1, <2>3 DEF TypeOK, HandleError, Handles, clientVars, callVars, endVars
  <2> QED  BY <2>2, <2>3
<1>3. CASE HandleClose
  <2>1. queue' \in Seq(Functors) /\ connection' \in Sockets \union {NoSocket}
    <3>1. CASE connection # NoSocket
      BY <1>3, <3>1, PushType, NamesType DEF Names, HandleClose, Close, TypeOK
    <3>2. CASE connection = NoSocket
      BY <1>3, <3>2 DEF HandleClose, TypeOK
    <3> QED  BY <3>1, <3>2
  <2> QED  BY <1>3, <2>1 DEF TypeOK, HandleClose, Handles, connVars, callVars, endVars
<1>4. CASE Restart
  <2>1. InitRetryDelay \in InitRetryDelay..MaxRetryDelay
    BY DelayAssumption
  <2>2. /\ state' \in States /\ open' \in SUBSET Sockets /\ timers' \in Nat
        /\ delay' \in InitRetryDelay..MaxRetryDelay
        /\ channel' \in {"none", "added", "removed"}
        /\ sock' \in Sockets \union {NoSocket}
        /\ gaveUp' \in BOOLEAN /\ broken' \in BOOLEAN /\ failed' \in BOOLEAN
    <3>1. "kDisconnected" \in States /\ StartInLoop("kDisconnected", TRUE, InitRetryDelay)
      BY <1>4 DEF Restart, States
    <3> QED  BY <2>1, <3>1, StartType
  <2> QED  BY <1>4, <2>2 DEF TypeOK, Restart, clientVars, callVars, endVars
<1>5. CASE HandleTimer
  <2>2. /\ state' \in States /\ open' \in SUBSET Sockets /\ timers' \in Nat
        /\ delay' \in InitRetryDelay..MaxRetryDelay
        /\ channel' \in {"none", "added", "removed"}
        /\ sock' \in Sockets \union {NoSocket}
        /\ gaveUp' \in BOOLEAN /\ broken' \in BOOLEAN /\ failed' \in BOOLEAN
    <3>1. state \in States /\ goOn \in BOOLEAN /\ delay \in InitRetryDelay..MaxRetryDelay
          /\ StartInLoop(state, goOn, delay)
      BY <1>5 DEF HandleTimer, TypeOK
    <3> QED  BY <3>1, StartType
  <2> QED  BY <1>5, <2>2 DEF TypeOK, HandleTimer, Handles, clientVars, callVars, endVars
<1> QED  BY <1>1, <1>2, <1>3, <1>4, <1>5 DEF Handle

(* The functors of a round keep the types.                                 *)
LEMMA FunctorType ==
    ASSUME TypeOK, TakeFunctors \/ RunStart \/ RunStop \/ RunReset \/ RunForceClose
                   \/ RunDestroyed \/ EndRound
    PROVE  TypeOK'
<1>1. CASE TakeFunctors
  <2>1. queue' \in Seq(Functors) /\ batch' \in Seq(Functors)
    BY <1>1, TodoType, NamesType DEF Names, TakeFunctors
  <2> QED  BY <1>1, <2>1 DEF TypeOK, TakeFunctors, connVars, clientVars, callVars, endVars
<1>2. CASE RunStart
  <2>1. batch' \in Seq(Functors)
    BY <1>2, TailType DEF RunStart, Runs
  <2>2. /\ state' \in States /\ open' \in SUBSET Sockets /\ timers' \in Nat
        /\ delay' \in InitRetryDelay..MaxRetryDelay
        /\ channel' \in {"none", "added", "removed"}
        /\ sock' \in Sockets \union {NoSocket}
        /\ gaveUp' \in BOOLEAN /\ broken' \in BOOLEAN /\ failed' \in BOOLEAN
    <3>1. CASE client = "gone"
      BY <1>2, <3>1 DEF RunStart, TypeOK, connVars
    <3>2. CASE client # "gone"
      <4>1. state \in States /\ goOn \in BOOLEAN /\ delay \in InitRetryDelay..MaxRetryDelay
            /\ StartInLoop(state, goOn, delay)
        BY <1>2, <3>2 DEF RunStart, TypeOK
      <4> QED  BY <4>1, StartType
    <3> QED  BY <3>1, <3>2
  <2> QED  BY <1>2, <2>1, <2>2 DEF TypeOK, RunStart, clientVars, callVars, endVars
<1>3. CASE RunStop
  <2>1. batch' \in Seq(Functors)
    BY <1>3, TailType DEF RunStop, Runs
  <2>2. CASE state = "kConnecting"
    <3>1. queue' \in Seq(Functors)
      BY <1>3, <2>2, PushType, NamesType DEF Names, RunStop, StopInLoop
    <3>2. /\ state' \in States /\ open' \in SUBSET Sockets /\ timers' \in Nat
          /\ delay' \in InitRetryDelay..MaxRetryDelay
      BY <1>3, <2>2, RetryType DEF TypeOK, RunStop, StopInLoop
    <3> QED  BY <1>3, <2>1, <2>2, <3>1, <3>2
             DEF TypeOK, RunStop, StopInLoop, RemoveChannel, clientVars, callVars, endVars
  <2>3. CASE state # "kConnecting"
    BY <1>3, <2>1, <2>3 DEF TypeOK, RunStop, StopInLoop, connVars, clientVars, callVars, endVars
  <2> QED  BY <2>2, <2>3
<1>4. CASE RunReset
  <2>1. batch' \in Seq(Functors)
    BY <1>4, TailType DEF RunReset, Runs
  <2> QED  BY <1>4, <2>1 DEF TypeOK, RunReset, clientVars, callVars, endVars
<1>5. CASE RunForceClose
  <2>1. batch' \in Seq(Functors)
    BY <1>5, TailType DEF RunForceClose, Runs
  <2>2. queue' \in Seq(Functors) /\ connection' \in Sockets \union {NoSocket}
    <3>1. CASE connection # NoSocket
      BY <1>5, <3>1, PushType, NamesType DEF Names, RunForceClose, Close, TypeOK
    <3>2. CASE connection = NoSocket
      BY <1>5, <3>2 DEF RunForceClose, TypeOK
    <3> QED  BY <3>1, <3>2
  <2> QED  BY <1>5, <2>1, <2>2 DEF TypeOK, RunForceClose, connVars, callVars, endVars
<1>6. CASE RunDestroyed
  <2>1. batch' \in Seq(Functors)
    BY <1>6, TailType DEF RunDestroyed, Runs
  <2> QED  BY <1>6, <2>1 DEF TypeOK, RunDestroyed, connVars, clientVars, callVars, endVars
<1>7. CASE EndRound
  BY <1>7 DEF TypeOK, EndRound, connVars, clientVars, callVars, endVars
<1> QED  BY <1>1, <1>2, <1>3, <1>4, <1>5, <1>6, <1>7

(* So do the calls.  A call that begins is one that has not been made      *)
(* since the last connect().                                               *)
LEMMA CallType ==
    ASSUME TypeOK, NEW op \in Ops, CallOnLoop(op) \/ CallBegins(op)
    PROVE  TypeOK'
<1>1. /\ Calls(op) \in SUBSET Ops /\ Returns(op) \in SUBSET Calls(op)
      /\ RushedBy(op) \in {"nothing", "state", "pending", "stop"}
  BY DEF TypeOK, Calls, Returns, RushedBy, Ops, Connects
<1>2. CASE CallOnLoop(op)
  <2>1. queue' \in Seq(Functors)
    BY <1>2, PushType, NamesType DEF Names, CallOnLoop
  <2>2. /\ state' \in States /\ open' \in SUBSET Sockets /\ timers' \in Nat
        /\ delay' \in InitRetryDelay..MaxRetryDelay
        /\ channel' \in {"none", "added", "removed"}
        /\ sock' \in Sockets \union {NoSocket}
        /\ gaveUp' \in BOOLEAN /\ broken' \in BOOLEAN /\ failed' \in BOOLEAN
    <3>1. CASE op \in Connects
      <4>1. state \in States /\ delay \in InitRetryDelay..MaxRetryDelay
            /\ StartInLoop(state, TRUE, delay)
        BY <1>2, <3>1 DEF CallOnLoop, TypeOK
      <4> QED  BY <4>1, StartType
    <3>2. CASE op \notin Connects
      BY <1>2, <3>2 DEF CallOnLoop, TypeOK
    <3> QED  BY <3>1, <3>2
  <2>3. goOn' \in BOOLEAN
    BY <1>2 DEF CallOnLoop, TypeOK, Ops, Connects
  <2>4. /\ connect' \in BOOLEAN /\ called' = Calls(op) /\ returned' = Returns(op)
        /\ rushed' = RushedBy(op)
        /\ UNCHANGED <<retry, connection, phase, ready, batch, pc, client, server>>
    BY <1>2 DEF CallOnLoop
  <2> QED  BY <1>1, <2>1, <2>2, <2>3, <2>4 DEF TypeOK
<1>3. CASE CallBegins(op)
  <2>1. pc' \in {Idle} \union (Ops \X (1..2))
    BY <1>3 DEF CallBegins
  <2>2. called' \in SUBSET Ops /\ returned' \in SUBSET called'
    BY <1>1, <1>3 DEF CallBegins, TypeOK
  <2> QED  BY <1>1, <1>3, <2>1, <2>2 DEF TypeOK, CallBegins, connVars, loopVars
<1> QED  BY <1>2, <1>3

(* So do the calls' later steps, the destructors and poll.                 *)
LEMMA OtherType ==
    ASSUME TypeOK, PhaseInv, CallSets \/ CallQueues \/ ConnectorDtor
                   \/ (\E unique \in BOOLEAN : Dtor(unique)) \/ ServerComesUp
                   \/ UNCHANGED vars \/ \E r \in SUBSET Events : Poll(r)
    PROVE  TypeOK'
<1>0. pc # Idle => pc[1] \in Ops /\ pc[2] \in 1..2 /\ pc[1] \in called
  BY DEF TypeOK, PhaseInv
<1>1. CASE CallSets
  <2>1. pc' \in Ops \X (1..2) /\ goOn' \in BOOLEAN
    BY <1>0, <1>1 DEF CallSets
  <2> QED  BY <1>1, <2>1 DEF TypeOK, CallSets, clientVars, loopVars, endVars
<1>2. CASE CallQueues
  <2>1. queue' \in Seq(Functors)
    BY <1>2, PushType, NamesType DEF Names, CallQueues
  <2> QED  BY <1>0, <1>2, <2>1 DEF TypeOK, CallQueues, connVars, clientVars, endVars
<1>3. CASE ConnectorDtor
  BY <1>3 DEF TypeOK, ConnectorDtor, ConnectorGone, connVars, clientVars, loopVars, callVars
<1>4. CASE \E unique \in BOOLEAN : Dtor(unique)
  <2>1. PICK unique \in BOOLEAN : Dtor(unique)
    BY <1>4
  <2>2. queue' \in Seq(Functors)
    BY <2>1, PushType, NamesType DEF Names, Dtor
  <2>3. CASE connection # NoSocket
    BY <2>1, <2>2, <2>3 DEF TypeOK, Dtor, ConnectorGone, clientVars, callVars
  <2>4. CASE connection = NoSocket
    <3>1. /\ client' = "dtor" /\ goOn' \in BOOLEAN
          /\ UNCHANGED <<rushed, broken, failed, state, channel, sock, delay, retry, connect,
                         connection, phase, ready, batch, timers, open, pc, called, returned,
                         server, gaveUp>>
      BY <2>1, <2>4 DEF Dtor, clientVars, callVars
    <3> QED  BY <2>2, <3>1 DEF TypeOK
  <2> QED  BY <2>3, <2>4
<1>5. CASE ServerComesUp
  BY <1>5 DEF TypeOK, ServerComesUp, connVars, clientVars, loopVars, callVars, endVars
<1>6. CASE UNCHANGED vars
  BY <1>6 DEF TypeOK, vars, connVars, clientVars, loopVars, callVars, endVars
<1>7. CASE \E r \in SUBSET Events : Poll(r)
  <2>1. PICK r \in SUBSET Events : Poll(r)
    BY <1>7
  <2>2. timers' \in Nat
    <3>1. timers \in Nat /\ ("timer" \in r => timers > 0)
      BY <2>1 DEF Poll, Pollable, TypeOK
    <3> QED  BY <2>1, <3>1 DEF Poll
  <2> QED  BY <2>1, <2>2 DEF TypeOK, Poll, Events, connVars, clientVars, callVars, endVars
<1> QED  BY <1>1, <1>2, <1>3, <1>4, <1>5, <1>6, <1>7

(* The type invariant is kept.                                             *)
LEMMA TypeStep == TypeOK /\ PhaseInv /\ [Next]_vars => TypeOK'
<1> SUFFICES ASSUME TypeOK, PhaseInv, [Next]_vars PROVE TypeOK'
  OBVIOUS
<1>1. CASE \E r \in SUBSET Events : Polls(r)
  BY <1>1, OtherType DEF Polls
<1>2. CASE LoopStep
  BY <1>2, HandlerType, FunctorType DEF LoopStep
<1>3. CASE CallStep
  BY <1>3, OtherType DEF CallStep
<1>4. CASE CallNext
  BY <1>4, CallType DEF CallNext
<1>5. CASE EndNext
  BY <1>5, OtherType DEF EndNext
<1>6. CASE ServerComesUp \/ Undefined \/ UNCHANGED vars
  BY <1>6, OtherType DEF Undefined
<1> QED  BY <1>1, <1>2, <1>3, <1>4, <1>5, <1>6 DEF Next

-----------------------------------------------------------------------------
(* Where the loop and the calls are.                                       *)
LEMMA PhaseStep == TypeOK /\ PhaseInv /\ [Next]_vars => PhaseInv'
<1> SUFFICES ASSUME TypeOK, PhaseInv, [Next]_vars PROVE PhaseInv'
  OBVIOUS
<1> USE DEF PhaseInv, Restarting
<1>1. CASE \E r \in SUBSET Events : Polls(r)
  BY <1>1 DEF Polls, Poll, connVars, clientVars, callVars, endVars
<1>2. CASE HandleWrite
  BY <1>2 DEF HandleWrite, Handles, callVars, endVars
<1>3. CASE HandleError
  BY <1>3 DEF HandleError, Handles, callVars, endVars
<1>4. CASE HandleClose
  BY <1>4 DEF HandleClose, Handles, connVars, callVars, endVars
<1>5. CASE Restart
  BY <1>5 DEF Restart, callVars, endVars
<1>6. CASE HandleTimer
  BY <1>6 DEF HandleTimer, Handles, callVars, endVars
<1>7. CASE TakeFunctors
  BY <1>7 DEF TakeFunctors, connVars, callVars, endVars
<1>8. CASE RunStart
  BY <1>8 DEF RunStart, Runs, callVars, endVars
<1>9. CASE RunStop
  <2>1. goOn' = goOn
    BY <1>9 DEF RunStop, StopInLoop, connVars
  <2> QED  BY <1>9, <2>1 DEF RunStop, Runs, callVars, endVars
<1>10. CASE RunReset
  BY <1>10 DEF RunReset, Runs, callVars, endVars
<1>11. CASE RunForceClose
  BY <1>11 DEF RunForceClose, Runs, connVars, callVars, endVars
<1>12. CASE RunDestroyed
  BY <1>12 DEF RunDestroyed, Runs, connVars, callVars, endVars
<1>13. CASE EndRound
  BY <1>13 DEF EndRound, connVars, callVars, endVars
<1>14. CASE CallSets
  <2>1. pc' # Idle /\ pc'[1] = pc[1]
    BY <1>14 DEF CallSets, Idle
  <2> QED  BY <1>14, <2>1 DEF CallSets, loopVars, endVars
<1>15. CASE CallQueues
  BY <1>15 DEF CallQueues, connVars, endVars
<1>16. ASSUME NEW op \in Ops, CallOnLoop(op) PROVE PhaseInv'
  <2>1. /\ MayCall(op) /\ phase \in {"handlers", "functors"}
        /\ called' = Calls(op) /\ returned' = Returns(op) /\ rushed' = RushedBy(op)
        /\ UNCHANGED <<phase, ready, batch, pc, client>>
    BY <1>16 DEF CallOnLoop
  <2>2. client = "up" /\ op \notin called /\ (op # "connect" => "connect" \in returned)
        /\ (op = "reconnect" => pc = Idle)
    BY <2>1 DEF MayCall
  <2>3. "connect" \in called' /\ (op = "reconnect" => "reconnect" \in called')
        /\ (op # "reconnect" => called' = called \union {op} /\ returned' = returned \union {op}
                                /\ rushed' = rushed)
    BY <2>1, <2>2 DEF TypeOK, Calls, Returns, RushedBy, Connects
  <2> QED  BY <2>1, <2>2, <2>3
<1>17. ASSUME NEW op \in Ops, CallBegins(op) PROVE PhaseInv'
  <2>1. /\ MayCall(op) /\ pc = Idle
        /\ called' = Calls(op) /\ rushed' = RushedBy(op)
        /\ pc' = IF op = "disconnect" THEN Idle ELSE <<op, 1>>
        /\ returned' = (IF op = "disconnect" THEN Returns(op) ELSE returned) \intersect called'
        /\ UNCHANGED <<phase, ready, batch, client, goOn>>
    BY <1>17 DEF CallBegins, connVars, loopVars
  <2>2. client = "up" /\ op \notin called /\ op \notin returned
        /\ (op # "connect" => "connect" \in returned)
    BY <2>1 DEF MayCall, TypeOK
  <2>3. "connect" \in called' /\ op \in called' /\ (op = "reconnect" => "reconnect" \in called')
        /\ (op # "reconnect" => called' = called \union {op} /\ rushed' = rushed)
    BY <2>1, <2>2 DEF TypeOK, Calls, RushedBy, Connects
  <2>4. pc' # Idle => pc'[1] = op /\ op \notin returned'
    BY <2>1, <2>2
  <2> QED  BY <2>1, <2>2, <2>3, <2>4
<1>18. CASE ConnectorDtor
  BY <1>18 DEF ConnectorDtor, connVars, loopVars, callVars
<1>19. ASSUME NEW unique \in BOOLEAN, Dtor(unique) PROVE PhaseInv'
  <2>1. /\ client = "up" /\ pc = Idle /\ "connect" \in called /\ phase \in {"handlers", "functors"}
        /\ UNCHANGED <<phase, ready, batch, pc, called, returned>>
    BY <1>19 DEF Dtor, callVars, TypeOK
  <2>2. (client' = "gone" \/ (client' = "dtor" /\ ~goOn' /\ rushed' = rushed))
    BY <1>19 DEF Dtor
  <2> QED  BY <2>1, <2>2
<1>20. CASE ServerComesUp
  BY <1>20 DEF ServerComesUp, connVars, loopVars, callVars, endVars
<1>21. CASE UNCHANGED vars
  BY <1>21 DEF vars, connVars, clientVars, loopVars, callVars, endVars
<1> QED  BY <1>1, <1>2, <1>3, <1>4, <1>5, <1>6, <1>7, <1>8, <1>9, <1>10, <1>11, <1>12, <1>13,
            <1>14, <1>15, <1>16, <1>17, <1>18, <1>19, <1>20, <1>21
         DEF Next, LoopStep, Handle, CallStep, CallNext, EndNext, Undefined

(* The functors queued have the right shape.                               *)
LEMMA ShapeOf ==
    ASSUME FunctorInv, NEW Z, \A y : Has(Todo', y) => Has(Todo, y) \/ y \in Z,
           \A z \in Z : z[1] = "connectDestroyed" <=> z[2] # NoSocket,
           Functor("forceCloseInLoop") \in Z => client' = "gone",
           client = "gone" => client' = "gone"
    PROVE  FunctorInv'
<1>1. Waits("forceCloseInLoop")' => client' = "gone"
  BY DEF FunctorInv, Waits
<1>2. \A f \in Functors : Has(Todo', f) => (f[1] = "connectDestroyed" <=> f[2] # NoSocket)
  BY DEF FunctorInv
<1> QED  BY <1>1, <1>2 DEF FunctorInv

(* FunctorInv after a functor was queued.                                  *)
LEMMA ShapeOfPush ==
    ASSUME TypeOK, FunctorInv, UNCHANGED batch,
           NEW z \in Functors, z[1] = "connectDestroyed" <=> z[2] # NoSocket,
           z = Functor("forceCloseInLoop") => client' = "gone",
           Push(<<z>>), client = "gone" => client' = "gone"
    PROVE  FunctorInv'
<1> DEFINE Z == {z}
<1>1. \A y : Has(Todo', y) => Has(Todo, y) \/ y \in Z
  BY PushTodo
<1>2. /\ \A y \in Z : y[1] = "connectDestroyed" <=> y[2] # NoSocket
      /\ Functor("forceCloseInLoop") \in Z => client' = "gone"
      /\ client = "gone" => client' = "gone"
  OBVIOUS
<1> HIDE DEF Z
<1> QED  BY <1>1, <1>2, ShapeOf

(* FunctorInv after a step that leaves the functors alone.                 *)
LEMMA ShapeOfSame ==
    ASSUME FunctorInv, Todo' = Todo, client = "gone" => client' = "gone"
    PROVE  FunctorInv'
<1> DEFINE Z == {}
<1>1. \A y : Has(Todo', y) => Has(Todo, y) \/ y \in Z
  OBVIOUS
<1>2. /\ \A y \in Z : y[1] = "connectDestroyed" <=> y[2] # NoSocket
      /\ Functor("forceCloseInLoop") \in Z => client' = "gone"
      /\ client = "gone" => client' = "gone"
  OBVIOUS
<1> HIDE DEF Z
<1> QED  BY <1>1, <1>2, ShapeOf

(* FunctorInv after a functor was run.                                     *)
LEMMA ShapeOfPop ==
    ASSUME TypeOK, FunctorInv, batch # <<>>, batch' = Tail(batch), UNCHANGED <<queue, client>>
    PROVE  FunctorInv'
<1> DEFINE Z == {}
<1>1. \A y : Has(Todo', y) => Has(Todo, y) \/ y \in Z
  BY PopTodo
<1>2. /\ \A y \in Z : y[1] = "connectDestroyed" <=> y[2] # NoSocket
      /\ Functor("forceCloseInLoop") \in Z => client' = "gone"
      /\ client = "gone" => client' = "gone"
  OBVIOUS
<1> HIDE DEF Z
<1> QED  BY <1>1, <1>2, ShapeOf

(* FunctorInv after a functor that queued another.                         *)
LEMMA ShapeOfPopPush ==
    ASSUME TypeOK, FunctorInv, batch # <<>>, batch' = Tail(batch), UNCHANGED client,
           NEW z \in Functors, z[1] = "connectDestroyed" <=> z[2] # NoSocket,
           z # Functor("forceCloseInLoop"), Push(<<z>>)
    PROVE  FunctorInv'
<1> DEFINE Z == {z}
<1>1. \A y : Has(Todo', y) => Has(Todo, y) \/ y \in Z
  BY PopPushTodo
<1>2. /\ \A y \in Z : y[1] = "connectDestroyed" <=> y[2] # NoSocket
      /\ Functor("forceCloseInLoop") \in Z => client' = "gone"
      /\ client = "gone" => client' = "gone"
  OBVIOUS
<1> HIDE DEF Z
<1> QED  BY <1>1, <1>2, ShapeOf

(* Names apart.                                                            *)
LEMMA Shapes ==
    /\ \A n \in Names :
          /\ Functor(n) \in Functors /\ Functor(n)[1] = n /\ Functor(n)[2] = NoSocket
    /\ \A s \in Sockets :
          /\ <<"connectDestroyed", s>> \in Functors /\ s # NoSocket
          /\ <<"connectDestroyed", s>>[1] = "connectDestroyed"
          /\ <<"connectDestroyed", s>>[2] = s
BY SocketAssumption DEF Functor, Functors, NoSocket, Sockets, Names

(* A functor that waits is found by its name.                              *)
LEMMA WaitsWaiting ==
    ASSUME TypeOK, NEW n \in Names, Waits(n)
    PROVE  n \in Waiting
<1>0. batch \in Seq(Functors) /\ queue \in Seq(Functors)
  BY TodoType
<1>1. PICK i \in 1..Len(Todo) : Todo[i] = Functor(n)
  BY DEF Waits, Has
<1>2. (\E j \in 1..Len(batch) : batch[j] = Todo[i]) \/ (\E j \in 1..Len(queue) : queue[j] = Todo[i])
  <2> HIDE DEF Functors
  <2>1. i \in 1..(Len(batch) + Len(queue)) /\ Len(batch) \in Nat /\ Len(queue) \in Nat
    BY <1>0 DEF Todo
  <2>2. CASE i \in 1..Len(batch)
    BY <1>0, <2>2 DEF Todo
  <2>3. CASE i > Len(batch)
    <3>1. i - Len(batch) \in 1..Len(queue)
      BY <2>1, <2>3
    <3>2. Todo[i] = queue[i - Len(batch)]
      BY <1>0, <2>1, <2>3 DEF Todo
    <3> QED  BY <3>1, <3>2
  <2> QED  BY <2>1, <2>2, <2>3
<1>3. Functor(n)[1] = n
  BY Shapes
<1> QED  BY <1>1, <1>2, <1>3 DEF Waiting

(* Once the client is gone, stop() is not called any more.                 *)
LEMMA NoNewStop ==
    ASSUME TypeOK, PhaseInv, client = "gone", [Next]_vars
    PROVE  rushed' = rushed /\ (Waits("stopInLoop")' => Waits("stopInLoop"))
<1> DEFINE R == Functor("resetChannel")
           S == Functor("stopInLoop")
           D == <<"connectDestroyed", connection>>
<1>r. R \in Functors /\ R # S /\ (connection # NoSocket => D \in Functors /\ D # S)
  BY Shapes DEF Names, TypeOK
<1>0. SUFFICES rushed' = rushed /\ (Has(Todo', S) => Has(Todo, S))
  BY DEF Waits
<1>1. CASE UNCHANGED <<batch, queue, rushed>>
  BY <1>1, SameTodo
<1>2. CASE HandleWrite \/ HandleError
  <2>1. UNCHANGED <<batch, rushed>> /\ (UNCHANGED queue \/ Push(<<R>>))
    BY <1>2 DEF HandleWrite, HandleError, endVars
  <2> HIDE DEF R, S
  <2> QED  BY <1>r, <1>1, <2>1, PushTodo
<1>3. CASE HandleClose
  <2>0. UNCHANGED <<batch, rushed>>
    BY <1>3 DEF HandleClose, endVars
  <2>1. CASE connection = NoSocket
    BY <1>1, <1>3, <2>0, <2>1 DEF HandleClose
  <2>2. CASE connection # NoSocket
    <3>1. Push(<<D>>)
      BY <1>3, <2>2 DEF HandleClose, Close
    <3> HIDE DEF D, S
    <3> QED  BY <1>r, <2>0, <2>2, <3>1, PushTodo
  <2> QED  BY <2>1, <2>2
<1>4. CASE TakeFunctors
  <2>1. Todo' = Todo /\ rushed' = rushed
    BY <1>4, TakeTodo DEF TakeFunctors, PhaseInv, endVars
  <2> QED  BY <2>1
<1>5. CASE RunStart \/ RunStop \/ RunReset \/ RunForceClose \/ RunDestroyed
  <2>0. batch # <<>> /\ batch' = Tail(batch) /\ UNCHANGED rushed
    BY <1>5 DEF RunStart, RunStop, RunReset, RunForceClose, RunDestroyed, Runs, endVars
  <2>1. CASE UNCHANGED queue
    <3> HIDE DEF S
    <3> QED  BY <2>0, <2>1, PopTodo
  <2>2. CASE RunStop
    <3>1. UNCHANGED queue \/ Push(<<R>>)
      BY <2>2 DEF RunStop, StopInLoop
    <3> HIDE DEF R, S
    <3> QED  BY <1>r, <2>0, <2>1, <3>1, PopPushTodo
  <2>3. CASE RunForceClose /\ connection # NoSocket
    <3>1. Push(<<D>>)
      BY <2>3 DEF RunForceClose, Close
    <3> HIDE DEF D, S
    <3> QED  BY <1>r, <2>0, <2>3, <3>1, PopPushTodo
  <2> QED  BY <1>5, <2>1, <2>2, <2>3 DEF RunStart, RunReset, RunForceClose, RunDestroyed
<1>6. CASE \E r \in SUBSET Events : Poll(r)
  BY <1>1, <1>6 DEF Poll, endVars
<1>7. CASE Restart \/ HandleTimer \/ EndRound \/ ServerComesUp \/ UNCHANGED vars
  BY <1>1, <1>7 DEF Restart, HandleTimer, EndRound, ServerComesUp, vars, loopVars, endVars
<1>8. /\ ~CallSets /\ ~CallQueues /\ ~ConnectorDtor /\ \A unique \in BOOLEAN : ~Dtor(unique)
      /\ \A op \in Ops : ~CallOnLoop(op) /\ ~CallBegins(op)
  BY DEF PhaseInv, CallSets, CallQueues, ConnectorDtor, Dtor, CallOnLoop, CallBegins, MayCall
<1> QED  BY <1>2, <1>3, <1>4, <1>5, <1>6, <1>7, <1>8
         DEF Next, Polls, LoopStep, Handle, CallStep, CallNext, EndNext, Undefined

(* ~TcpClient with a stop() still to be run is one that came too early.    *)
LEMMA StopStep == TypeOK /\ PhaseInv /\ StopInv /\ [Next]_vars => StopInv'
<1> SUFFICES ASSUME TypeOK, PhaseInv, StopInv, [Next]_vars, rushed' = "nothing", client' = "gone",
                    Waits("stopInLoop")'
             PROVE  FALSE
  BY DEF StopInv
<1>1. CASE client = "gone"
  BY <1>1, NoNewStop DEF StopInv
<1>2. ASSUME NEW unique \in BOOLEAN, Dtor(unique) PROVE FALSE
  <2> DEFINE F == Functor("forceCloseInLoop")
             S == Functor("stopInLoop")
  <2>1. /\ UNCHANGED batch /\ (Push(<<F>>) \/ queue' = queue \o <<>>)
        /\ "stopInLoop" \notin Waiting
    BY <1>2 DEF Dtor, Push
  <2>2. F \in Functors /\ F # S /\ "stopInLoop" \in Names
    BY Shapes DEF Names
  <2>3. queue \o <<>> = queue
    <3>1. queue \in Seq(Functors)
      BY TodoType
    <3> HIDE DEF Functors
    <3> QED  BY <3>1
  <2>4. ~Has(Todo, S)
    BY <2>1, <2>2, WaitsWaiting DEF Waits
  <2>5. Has(Todo', S)
    BY DEF Waits
  <2> HIDE DEF F, S
  <2> QED  BY <2>1, <2>2, <2>3, <2>4, <2>5, PushTodo, SameTodo
<1>3. CASE ConnectorDtor
  <2>1. batch = <<>> /\ queue = <<>> /\ UNCHANGED <<batch, queue>>
    BY <1>3 DEF ConnectorDtor, PhaseInv, loopVars
  <2>2. Todo' = <<>>
    BY <2>1, QueueIsTodo, SameTodo
  <2> QED  BY <2>2 DEF Waits, Has
<1>4. CASE UNCHANGED client
  BY <1>1, <1>4
<1> QED
  BY <1>2, <1>3, <1>4
  DEF Next, Polls, Poll, LoopStep, Handle, HandleWrite, HandleError, HandleClose, Restart,
      HandleTimer, TakeFunctors, RunStart, RunStop, RunReset, RunForceClose, RunDestroyed,
      EndRound, CallStep, CallSets, CallQueues, CallNext, CallOnLoop, CallBegins, EndNext,
      ServerComesUp, Undefined, endVars, vars

(* Every step keeps the functors as FunctorInv says.                       *)
LEMMA FunctorStep == TypeOK /\ PhaseInv /\ FunctorInv /\ [Next]_vars => FunctorInv'
<1> SUFFICES ASSUME TypeOK, PhaseInv, FunctorInv, [Next]_vars PROVE FunctorInv'
  OBVIOUS
<1> DEFINE R == Functor("resetChannel")
           F == Functor("forceCloseInLoop")
<1>r. R \in Functors /\ R[1] = "resetChannel" /\ R[2] = NoSocket /\ R # F
  BY Shapes DEF Names
<1>1. CASE UNCHANGED <<batch, queue>> /\ (client = "gone" => client' = "gone")
  BY <1>1, SameTodo, ShapeOfSame
<1>2. CASE HandleWrite
  <2>1. UNCHANGED <<batch, client>> /\ (UNCHANGED queue \/ Push(<<R>>))
    BY <1>2 DEF HandleWrite, endVars
  <2> HIDE DEF R, F
  <2> QED  BY <1>r, <1>1, <2>1, ShapeOfPush DEF F
<1>3. CASE HandleError
  <2>1. UNCHANGED <<batch, client>> /\ (UNCHANGED queue \/ Push(<<R>>))
    BY <1>3 DEF HandleError, endVars
  <2> HIDE DEF R, F
  <2> QED  BY <1>r, <1>1, <2>1, ShapeOfPush DEF F
<1>4. CASE HandleClose
  <2>1. CASE connection = NoSocket
    BY <1>1, <1>4, <2>1 DEF HandleClose, endVars
  <2>2. CASE connection # NoSocket
    <3> DEFINE D == <<"connectDestroyed", connection>>
    <3>1. UNCHANGED <<batch, client>> /\ Push(<<D>>)
      BY <1>4, <2>2 DEF HandleClose, Close, endVars
    <3>2. D \in Functors /\ D[1] = "connectDestroyed" /\ D[2] # NoSocket /\ D # F
      BY <2>2, Shapes DEF TypeOK, Names
    <3> HIDE DEF D, F
    <3> QED  BY <3>1, <3>2, ShapeOfPush DEF F
  <2> QED  BY <2>1, <2>2
<1>5. CASE TakeFunctors
  <2>1. Todo' = Todo /\ client' = client
    BY <1>5, TakeTodo DEF TakeFunctors, PhaseInv, endVars
  <2> QED  BY <2>1, ShapeOfSame
<1>6. CASE RunStart \/ RunReset \/ RunDestroyed
  <2>1. batch # <<>> /\ batch' = Tail(batch) /\ UNCHANGED <<queue, client>>
    BY <1>6 DEF RunStart, RunReset, RunDestroyed, Runs, endVars
  <2> QED  BY <2>1, ShapeOfPop
<1>7. CASE RunStop
  <2>1. batch # <<>> /\ batch' = Tail(batch) /\ UNCHANGED client /\ (UNCHANGED queue \/ Push(<<R>>))
    BY <1>7 DEF RunStop, Runs, StopInLoop, endVars
  <2> HIDE DEF R, F
  <2> QED  BY <1>r, <2>1, ShapeOfPop, ShapeOfPopPush DEF F
<1>8. CASE RunForceClose
  <2>0. batch # <<>> /\ batch' = Tail(batch) /\ UNCHANGED client
    BY <1>8 DEF RunForceClose, Runs, endVars
  <2>1. CASE connection = NoSocket
    <3>1. UNCHANGED queue
      BY <1>8, <2>1 DEF RunForceClose
    <3> QED  BY <2>0, <3>1, ShapeOfPop
  <2>2. CASE connection # NoSocket
    <3> DEFINE D == <<"connectDestroyed", connection>>
    <3>1. Push(<<D>>)
      BY <1>8, <2>2 DEF RunForceClose, Close
    <3>2. D \in Functors /\ D[1] = "connectDestroyed" /\ D[2] # NoSocket /\ D # F
      BY <2>2, Shapes DEF TypeOK, Names
    <3> HIDE DEF D, F
    <3> QED  BY <2>0, <3>1, <3>2, ShapeOfPopPush DEF F
  <2> QED  BY <2>1, <2>2
<1>9. CASE CallQueues
  <2> DEFINE z == Functor(IF pc[1] \in Connects THEN "startInLoop" ELSE "stopInLoop")
  <2>1. UNCHANGED <<batch, client>> /\ Push(<<z>>)
    BY <1>9 DEF CallQueues, endVars
  <2>2. z \in Functors /\ z[1] # "connectDestroyed" /\ z[2] = NoSocket /\ z # F
    BY Shapes DEF Names
  <2> HIDE DEF z, F
  <2> QED  BY <2>1, <2>2, ShapeOfPush DEF F
<1>10. ASSUME NEW op \in Ops, CallOnLoop(op) PROVE FunctorInv'
  <2> DEFINE z == Functor("stopInLoop")
  <2>1. UNCHANGED <<batch, client>> /\ (Push(<<z>>) \/ queue' = queue \o <<>>)
    BY <1>10 DEF CallOnLoop, Push
  <2>2. z \in Functors /\ z[1] # "connectDestroyed" /\ z[2] = NoSocket /\ z # F
    BY Shapes DEF Names
  <2>3. queue \o <<>> = queue
    <3>1. queue \in Seq(Functors)
      BY TodoType
    <3> HIDE DEF Functors
    <3> QED  BY <3>1
  <2> HIDE DEF z, F
  <2> QED  BY <1>1, <2>1, <2>2, <2>3, ShapeOfPush DEF F
<1>11. ASSUME NEW unique \in BOOLEAN, Dtor(unique) PROVE FunctorInv'
  <2> DEFINE z == Functor("stopInLoop")
  <2>0. client = "up" /\ UNCHANGED batch
    BY <1>11 DEF Dtor
  <2>1. CASE connection = NoSocket
    <3>1. Push(<<z>>)
      BY <1>11, <2>1 DEF Dtor
    <3>2. z \in Functors /\ z[1] # "connectDestroyed" /\ z[2] = NoSocket /\ z # F
      BY Shapes DEF Names
    <3> HIDE DEF z, F
    <3> QED  BY <2>0, <3>1, <3>2, ShapeOfPush DEF F
  <2>2. CASE connection # NoSocket
    <3>1. client' = "gone" /\ (Push(<<F>>) \/ queue' = queue \o <<>>)
      BY <1>11, <2>2 DEF Dtor, Push
    <3>2. F \in Functors /\ F[1] # "connectDestroyed" /\ F[2] = NoSocket
      BY Shapes DEF Names
    <3>3. queue \o <<>> = queue
      <4>1. queue \in Seq(Functors)
        BY TodoType
      <4> HIDE DEF Functors
      <4> QED  BY <4>1
    <3> HIDE DEF F
    <3> QED  BY <1>1, <2>0, <3>1, <3>2, <3>3, ShapeOfPush DEF F
  <2> QED  BY <2>1, <2>2
<1>12. CASE \E r \in SUBSET Events : Poll(r)
  BY <1>1, <1>12 DEF Poll, endVars
<1>13. CASE Restart \/ HandleTimer \/ EndRound \/ CallSets
  BY <1>1, <1>13 DEF Restart, HandleTimer, EndRound, CallSets, loopVars, endVars
<1>14. ASSUME NEW op \in Ops, CallBegins(op) PROVE FunctorInv'
  BY <1>1, <1>14 DEF CallBegins, loopVars
<1>15. CASE ConnectorDtor \/ ServerComesUp \/ UNCHANGED vars
  BY <1>1, <1>15 DEF ConnectorDtor, ServerComesUp, vars, loopVars, endVars
<1> QED  BY <1>2, <1>3, <1>4, <1>5, <1>6, <1>7, <1>8, <1>9, <1>10, <1>11, <1>12, <1>13,
            <1>14, <1>15
         DEF Next, Polls, LoopStep, Handle, CallStep, CallNext, EndNext, Undefined

-----------------------------------------------------------------------------
(* What the steps do to the functors, by name.                             *)
LEMMA NamesApart ==
    /\ \A n, m \in Names : Functor(n) = Functor(m) => n = m
    /\ \A n \in Names, s \in Sockets : Functor(n) # <<"connectDestroyed", s>>
    /\ \A s, t \in Sockets : <<"connectDestroyed", s>> = <<"connectDestroyed", t>> => s = t
BY DEF Functor, Names

(* With the same functors to do, the same ones wait.                       *)
LEMMA Same ==
    ASSUME Todo' = Todo
    PROVE  /\ \A m \in Names : Waits(m)' <=> Waits(m)
           /\ \A s \in Sockets : Doomed(s)' <=> Doomed(s)
           /\ Singly(Todo) => Singly(Todo')
BY DEF Waits, Doomed

(* What waits after a named functor was queued.                            *)
LEMMA PushName ==
    ASSUME TypeOK, NEW n \in Names, UNCHANGED batch, Push(<<Functor(n)>>)
    PROVE  /\ \A m \in Names : Waits(m)' <=> Waits(m) \/ m = n
           /\ \A m \in Names : Queued(m)' <=> Queued(m) \/ m = n
           /\ \A s \in Sockets : Doomed(s)' <=> Doomed(s)
           /\ Singly(Todo) /\ (Waits(n) => n = "stopInLoop") => Singly(Todo')
<1> DEFINE x == Functor(n)
<1>1. x \in Functors /\ x[1] = n
  BY Shapes
<1>2. Push(<<x>>)
  OBVIOUS
<1> HIDE DEF x
<1>3. /\ \A y : Has(Todo', y) <=> Has(Todo, y) \/ y = x
      /\ \A y : Has(queue', y) <=> Has(queue, y) \/ y = x
      /\ Singly(Todo) /\ (Has(Todo, x) => x[1] = "stopInLoop") => Singly(Todo')
  BY <1>1, <1>2, PushTodo
<1>4. \A m \in Names : Waits(m)' <=> Waits(m) \/ m = n
  BY <1>3, NamesApart DEF Waits, x
<1>5. \A m \in Names : Queued(m)' <=> Queued(m) \/ m = n
  BY <1>3, NamesApart DEF Queued, x
<1>6. \A s \in Sockets : Doomed(s)' <=> Doomed(s)
  BY <1>3, NamesApart DEF Doomed, x
<1>7. Singly(Todo) /\ (Waits(n) => n = "stopInLoop") => Singly(Todo')
  BY <1>1, <1>3 DEF Waits, x
<1> QED  BY <1>4, <1>5, <1>6, <1>7

(* What waits after a connectDestroyed was queued.                         *)
LEMMA PushDoomed ==
    ASSUME TypeOK, NEW c \in Sockets, UNCHANGED batch, Push(<<<<"connectDestroyed", c>>>>)
    PROVE  /\ \A m \in Names : Waits(m)' <=> Waits(m)
           /\ \A m \in Names : Queued(m)' <=> Queued(m)
           /\ \A s \in Sockets : Doomed(s)' <=> Doomed(s) \/ s = c
           /\ Singly(Todo) /\ ~Doomed(c) => Singly(Todo')
<1> DEFINE x == <<"connectDestroyed", c>>
<1>1. x \in Functors
  BY Shapes
<1>2. Push(<<x>>)
  OBVIOUS
<1> HIDE DEF x
<1>3. /\ \A y : Has(Todo', y) <=> Has(Todo, y) \/ y = x
      /\ \A y : Has(queue', y) <=> Has(queue, y) \/ y = x
      /\ Singly(Todo) /\ ~ Has(Todo, x) => Singly(Todo')
  BY <1>1, <1>2, PushTodo
<1>4. \A m \in Names : (Waits(m)' <=> Waits(m)) /\ (Queued(m)' <=> Queued(m))
  BY <1>3, NamesApart DEF Waits, Queued, x
<1>5. \A s \in Sockets : Doomed(s)' <=> Doomed(s) \/ s = c
  BY <1>3, NamesApart DEF Doomed, x
<1> QED  BY <1>3, <1>4, <1>5 DEF Doomed, x

(* The functor that runs.                                                  *)
LEMMA RunsName ==
    ASSUME TypeOK, FunctorInv, NEW n \in Names, Runs(n)
    PROVE  Head(batch) = Functor(n) /\ Waits(n)
<1> DEFINE x == Head(batch)
<1>1. x \in Functors /\ Has(Todo, x) /\ x[1] = n
  <2>1. batch # <<>> /\ x[1] = n
    BY DEF Runs
  <2>2. Todo # <<>> /\ Head(Todo) = x
    BY <2>1, TodoType, ConcatTail DEF Todo
  <2> QED  BY <2>1, <2>2, TodoType, PopFacts
<1> HIDE DEF x
<1>2. x[2] = NoSocket
  BY <1>1 DEF FunctorInv, Names
<1>3. x = Functor(n)
  BY <1>1, <1>2 DEF Functors, Functor
<1> QED  BY <1>1, <1>3 DEF Waits, x

(* A connectDestroyed that runs has a socket.                              *)
LEMMA RunsDoomed ==
    ASSUME TypeOK, FunctorInv, Runs("connectDestroyed")
    PROVE  Head(batch)[2] \in Sockets /\ Head(batch) = <<"connectDestroyed", Head(batch)[2]>>
<1> DEFINE x == Head(batch)
<1>1. x \in Functors /\ Has(Todo, x) /\ x[1] = "connectDestroyed"
  <2>1. batch # <<>> /\ x[1] = "connectDestroyed"
    BY DEF Runs
  <2>2. Todo # <<>> /\ Head(Todo) = x
    BY <2>1, TodoType, ConcatTail DEF Todo
  <2> QED  BY <2>1, <2>2, TodoType, PopFacts
<1> HIDE DEF x
<1>2. x[2] # NoSocket
  BY <1>1 DEF FunctorInv
<1>3. x[2] \in Sockets /\ x = <<"connectDestroyed", x[2]>>
  BY <1>1, <1>2 DEF Functors
<1> QED  BY <1>3 DEF x

(* What waits after a named functor was run.                               *)
LEMMA PopName ==
    ASSUME TypeOK, FunctorInv, NEW n \in Names, Runs(n), UNCHANGED queue
    PROVE  /\ Waits(n) /\ (Waits(n)' => n = "stopInLoop" \/ ~Singly(Todo))
           /\ \A m \in Names : m # n => (Waits(m)' <=> Waits(m))
           /\ \A s \in Sockets : Doomed(s)' <=> Doomed(s)
           /\ Singly(Todo) => Singly(Todo')
<1> DEFINE x == Functor(n)
<1>0. batch # <<>> /\ batch' = Tail(batch) /\ Head(batch) = x
  BY RunsName DEF Runs
<1>1. x \in Functors /\ x[1] = n
  BY Shapes
<1> HIDE DEF x
<1>3. /\ Has(Todo, x)
      /\ \A y : Has(Todo', y) => Has(Todo, y)
      /\ \A y : Has(Todo, y) /\ y # x => Has(Todo', y)
      /\ Singly(Todo) => Singly(Todo') /\ (x[1] # "stopInLoop" => ~ Has(Todo', x))
  BY <1>0, PopTodo
<1>4. \A m \in Names : m # n => (Waits(m)' <=> Waits(m))
  BY <1>3, NamesApart DEF Waits, x
<1>5. \A s \in Sockets : Doomed(s)' <=> Doomed(s)
  BY <1>3, NamesApart DEF Doomed, x
<1> QED  BY <1>1, <1>3, <1>4, <1>5 DEF Waits, x

(* What waits after a connectDestroyed was run.                            *)
LEMMA PopDoomed ==
    ASSUME TypeOK, FunctorInv, Runs("connectDestroyed"), UNCHANGED queue, Singly(Todo),
           NEW c, c = Head(batch)[2]
    PROVE  /\ c \in Sockets /\ Doomed(c)
           /\ \A m \in Names : Waits(m)' <=> Waits(m)
           /\ \A s \in Sockets : Doomed(s)' <=> Doomed(s) /\ s # c
           /\ Singly(Todo')
<1> DEFINE x == <<"connectDestroyed", c>>
<1>0. batch # <<>> /\ batch' = Tail(batch) /\ Head(batch) = x /\ c \in Sockets
  BY RunsDoomed DEF Runs
<1>1. x[1] # "stopInLoop"
  OBVIOUS
<1> HIDE DEF x
<1>3. /\ Has(Todo, x) /\ ~ Has(Todo', x) /\ Singly(Todo')
      /\ \A y : Has(Todo', y) => Has(Todo, y)
      /\ \A y : Has(Todo, y) /\ y # x => Has(Todo', y)
  BY <1>0, <1>1, PopTodo
<1>4. \A m \in Names : Waits(m)' <=> Waits(m)
  BY <1>0, <1>3, NamesApart DEF Waits, x
<1>5. \A s \in Sockets : Doomed(s)' <=> Doomed(s) /\ s # c
  BY <1>0, <1>3, NamesApart DEF Doomed, x
<1> QED  BY <1>0, <1>3, <1>4, <1>5 DEF Doomed, x

(* A functor that queues another one.                                      *)
LEMMA PopPushReset ==
    ASSUME TypeOK, FunctorInv, Runs("stopInLoop"), Push(<<Functor("resetChannel")>>)
    PROVE  /\ Waits("resetChannel")'
           /\ \A m \in Names : m \notin {"stopInLoop", "resetChannel"} => (Waits(m)' <=> Waits(m))
           /\ \A s \in Sockets : Doomed(s)' <=> Doomed(s)
           /\ Singly(Todo) /\ ~Waits("resetChannel") => Singly(Todo')
<1> DEFINE x == Functor("stopInLoop")
           z == Functor("resetChannel")
<1>0. batch # <<>> /\ batch' = Tail(batch) /\ Head(batch) = x /\ Push(<<z>>)
  BY RunsName DEF Runs, Names
<1>1. z \in Functors
  BY Shapes DEF Names
<1> HIDE DEF x, z
<1>3. /\ Has(Todo', z)
      /\ \A y : Has(Todo', y) => Has(Todo, y) \/ y = z
      /\ \A y : Has(Todo, y) /\ y # x => Has(Todo', y)
      /\ Singly(Todo) /\ ~ Has(Todo, z) => Singly(Todo')
  BY <1>0, <1>1, PopPushTodo
<1>4. \A m \in Names : m \notin {"stopInLoop", "resetChannel"} => (Waits(m)' <=> Waits(m))
  BY <1>3, NamesApart DEF Waits, x, z, Names
<1>5. \A s \in Sockets : Doomed(s)' <=> Doomed(s)
  <2>1. x # z /\ \A s \in Sockets : <<"connectDestroyed", s>> # x /\ <<"connectDestroyed", s>> # z
    BY NamesApart DEF x, z, Names
  <2> QED  BY <1>3, <2>1 DEF Doomed
<1> QED  BY <1>3, <1>4, <1>5 DEF Waits, z

(* forceCloseInLoop queues the connection's connectDestroyed.              *)
LEMMA PopPushDoomed ==
    ASSUME TypeOK, FunctorInv, Runs("forceCloseInLoop"), NEW c \in Sockets,
           Push(<<<<"connectDestroyed", c>>>>), Singly(Todo), ~Doomed(c)
    PROVE  /\ \A m \in Names : m # "forceCloseInLoop" => (Waits(m)' <=> Waits(m))
           /\ \A m \in Names : Queued(m)' <=> Queued(m)
           /\ \A s \in Sockets : Doomed(s)' <=> Doomed(s) \/ s = c
           /\ Singly(Todo')
<1> DEFINE x == Functor("forceCloseInLoop")
           z == <<"connectDestroyed", c>>
<1>0. batch # <<>> /\ batch' = Tail(batch) /\ Head(batch) = x /\ Push(<<z>>)
  BY RunsName DEF Runs, Names
<1>1. z \in Functors /\ ~ Has(Todo, z)
  BY Shapes DEF Doomed
<1>2. \A s \in Sockets : <<"connectDestroyed", s>> # x
  BY NamesApart DEF Names
<1> HIDE DEF x, z
<1>3. /\ Has(Todo', z) /\ Singly(Todo')
      /\ \A y : Has(Todo', y) => Has(Todo, y) \/ y = z
      /\ \A y : Has(Todo, y) /\ y # x => Has(Todo', y)
      /\ \A y : Has(queue', y) <=> Has(queue, y) \/ y = z
  BY <1>0, <1>1, PopPushTodo
<1>4. \A m \in Names : m # "forceCloseInLoop" => (Waits(m)' <=> Waits(m))
  BY <1>3, NamesApart DEF Waits, x, z, Names
<1>5. \A m \in Names : Queued(m)' <=> Queued(m)
  BY <1>3, NamesApart DEF Queued, z
<1>6. \A s \in Sockets : Doomed(s)' <=> Doomed(s) \/ s = c
  BY <1>2, <1>3, NamesApart DEF Doomed, z
<1> QED  BY <1>3, <1>4, <1>5, <1>6

-----------------------------------------------------------------------------
(* How startInLoop ends when there is no channel: an attempt that goes on, *)
(* one that will be repeated, or none.                                     *)
LEMMA StartOutcome ==
    ASSUME TypeOK, NEW st, NEW again, NEW d, StartInLoop(st, again, d), channel = "none"
    PROVE  /\ failed' = (failed \/ st # "kDisconnected") /\ broken' = broken
           /\ \/ /\ again /\ state' = "kConnecting" /\ channel' = "added" /\ timers' = timers
                 /\ sock' \in Sockets /\ sock' \notin open /\ open' = open \union {sock'}
              \/ /\ again /\ state' = "kDisconnected" /\ timers' = timers + 1
                 /\ UNCHANGED <<open, channel, sock>>
              \/ state' = st /\ UNCHANGED <<open, channel, sock, timers>>
<1>0. failed \in BOOLEAN /\ broken \in BOOLEAN
  BY DEF TypeOK
<1>1. CASE ~again
  BY <1>0, <1>1 DEF StartInLoop
<1>2. CASE again
  <2>1. PICK s \in Sockets \ open :
           \/ Connecting(s, st # "kDisconnected") /\ UNCHANGED timers
           \/ /\ Retry(s, TRUE, d) /\ failed' = (failed \/ st # "kDisconnected")
              /\ UNCHANGED <<channel, sock, broken>>
           \/ /\ state' = st /\ failed' = (failed \/ st # "kDisconnected")
              /\ UNCHANGED <<channel, sock, open, timers, broken>>
    BY <1>2 DEF StartInLoop, Connect
  <2>2. CASE Connecting(s, st # "kDisconnected") /\ UNCHANGED timers
    BY <1>0, <1>2, <2>2 DEF Connecting
  <2>3. CASE Retry(s, TRUE, d) /\ failed' = (failed \/ st # "kDisconnected")
             /\ UNCHANGED <<channel, sock, broken>>
    BY <1>0, <1>2, <2>3 DEF Retry
  <2>4. CASE /\ state' = st /\ failed' = (failed \/ st # "kDisconnected")
             /\ UNCHANGED <<channel, sock, open, timers, broken>>
    BY <1>0, <2>4
  <2> QED  BY <2>1, <2>2, <2>3, <2>4
<1> QED  BY <1>1, <1>2

(* Whoever calls it, startInLoop is the only attempt that is left.         *)
LEMMA StartStep ==
    ASSUME IInv, TypeOK', rushed # "pending", NEW st, NEW again, NEW d,
           StartInLoop(st, again, d), st \in {state, "kDisconnected"},
           channel = "none", connection = NoSocket, connection' = NoSocket, timers = 0,
           ready' = {}, Singly(Todo'), phase' # "restart", pc'[1] \notin Connects,
           "connect" \in called', client' = client, client # "gone", client = "dtor" => ~again,
           \A m \in Names : Waits(m)' <=> Waits(m) /\ m # "startInLoop",
           \A s \in Sockets : Doomed(s)' <=> Doomed(s),
           rushed' = "nothing" => st = "kDisconnected" /\ ~failed /\ ~broken
    PROVE  OneInv' /\ ChannelInv' /\ SocketInv' /\ AssertInv'
<1>0. /\ NoSocket = 0 /\ NoSocket \notin Sockets
      /\ {"startInLoop", "stopInLoop", "resetChannel", "forceCloseInLoop"} = Names
  BY SocketAssumption DEF NoSocket, Sockets, Names
<1>1. /\ sock = NoSocket /\ st # "kConnecting" /\ ~Waits("resetChannel")
      /\ \A s \in Sockets : (s \in open <=> Doomed(s))
  BY <1>0 DEF IInv, ChannelInv, SocketInv
<1>2. /\ failed' = (failed \/ st # "kDisconnected") /\ broken' = broken
      /\ \/ /\ again /\ state' = "kConnecting" /\ channel' = "added" /\ timers' = 0
            /\ sock' \in Sockets /\ sock' \notin open /\ open' = open \union {sock'}
         \/ /\ again /\ state' = "kDisconnected" /\ timers' = 1
            /\ open' = open /\ channel' = "none" /\ sock' = NoSocket
         \/ /\ state' = st /\ timers' = 0
            /\ open' = open /\ channel' = "none" /\ sock' = NoSocket
  <2>1. TypeOK
    BY DEF IInv
  <2> QED  BY <1>1, <2>1, StartOutcome
<1>3. ~Starting' /\ ~Waits("startInLoop")' /\ ~Waits("resetChannel")' /\ ~Calling' /\ ~Expired'
      /\ ~Restarting'
  BY <1>0, <1>1 DEF Starting, Calling, Expired, Restarting
<1> HIDE DEF Starting, Calling, Expired, Restarting, Waits, Doomed, Todo, Singly, Has
<1>4. OneInv'
  BY <1>0, <1>2, <1>3 DEF OneInv
<1>5. ChannelInv'
  BY <1>0, <1>1, <1>2, <1>3 DEF ChannelInv
<1>6. SocketInv'
  BY <1>0, <1>1, <1>2 DEF SocketInv
<1>7. AssertInv'
  <2> SUFFICES ASSUME rushed' = "nothing"
               PROVE  ~failed' /\ ~broken' /\ (timers' > 0 => state' = "kDisconnected")
    BY <1>3 DEF AssertInv
  <2>1. st = "kDisconnected" /\ ~failed /\ ~broken
    OBVIOUS
  <2>2. ~failed' /\ ~broken'
    BY <1>2, <2>1, Zenon
  <2>3. timers' > 0 => state' = "kDisconnected"
    BY <1>2
  <2> QED  BY <2>2, <2>3
<1> QED  BY <1>4, <1>5, <1>6, <1>7

(* The starts of restart, of a timer, of a functor and of connect().       *)
LEMMA RestartStep ==
    ASSUME IInv, TypeOK', rushed # "pending", Restart
    PROVE  OneInv' /\ ChannelInv' /\ SocketInv' /\ AssertInv'
<1>1. /\ StartInLoop("kDisconnected", TRUE, InitRetryDelay) /\ phase = "restart" /\ phase' # "restart"
      /\ UNCHANGED <<connection, ready, queue, batch, pc, called, client, rushed>>
  BY DEF Restart, clientVars, callVars, endVars
<1>2. /\ Restarting /\ Starting /\ client = "up"
  BY <1>1 DEF IInv, PhaseInv, Restarting, Starting
<1>3. /\ channel = "none" /\ connection = NoSocket /\ ~Waits("startInLoop") /\ ~Calling /\ ~Expired
      /\ Singly(Todo) /\ timers \in Nat /\ ~(timers > 0) /\ "connect" \in called
  BY <1>2 DEF IInv, TypeOK, OneInv, ChannelInv
<1>4. timers = 0
  BY <1>3
<1>5. ready = {}
  BY <1>2, <1>3 DEF IInv, TypeOK, ChannelInv, Expired
<1>6. /\ \A m \in Names : Waits(m)' <=> Waits(m)
      /\ \A s \in Sockets : Doomed(s)' <=> Doomed(s)
      /\ Singly(Todo')
  BY <1>1, <1>3, SameTodo, Same
<1>7. \A m \in Names : Waits(m)' <=> Waits(m) /\ m # "startInLoop"
  BY <1>3, <1>6
<1>8. rushed' = "nothing" => ~failed /\ ~broken
  BY <1>1 DEF IInv, AssertInv
<1>9. pc'[1] \notin Connects
  BY <1>1, <1>3 DEF Calling
<1> HIDE DEF Waits, Doomed, Todo
<1> QED  BY <1>1, <1>2, <1>3, <1>4, <1>5, <1>6, <1>7, <1>8, <1>9, StartStep

(* An expired retry timer starts an attempt.                               *)
LEMMA TimerStep ==
    ASSUME IInv, TypeOK', rushed # "pending", HandleTimer
    PROVE  OneInv' /\ ChannelInv' /\ SocketInv' /\ AssertInv'
<1>1. /\ StartInLoop(state, goOn, delay) /\ phase = "handlers" /\ phase' # "restart"
      /\ "timer" \in ready /\ ready' = ready \ {"timer"}
      /\ UNCHANGED <<connection, queue, batch, pc, called, client, rushed>>
  BY DEF HandleTimer, Handles, clientVars, callVars, endVars
<1>2. /\ Expired /\ Starting /\ (client = "dtor" => ~goOn)
  BY <1>1 DEF IInv, PhaseInv, Expired, Starting
<1>3. /\ channel = "none" /\ connection = NoSocket /\ ~Waits("startInLoop") /\ ~Calling
      /\ Singly(Todo) /\ timers \in Nat /\ ~(timers > 0) /\ "connect" \in called /\ client # "gone"
  BY <1>2 DEF IInv, TypeOK, OneInv, ChannelInv
<1>4. timers = 0
  BY <1>3
<1>5. ready' = {}
  BY <1>1, <1>2, <1>3 DEF IInv, TypeOK, ChannelInv
<1>6. /\ \A m \in Names : Waits(m)' <=> Waits(m)
      /\ \A s \in Sockets : Doomed(s)' <=> Doomed(s)
      /\ Singly(Todo')
  BY <1>1, <1>3, SameTodo, Same
<1>7. \A m \in Names : Waits(m)' <=> Waits(m) /\ m # "startInLoop"
  BY <1>3, <1>6
<1>8. rushed' = "nothing" => state = "kDisconnected" /\ ~failed /\ ~broken
  BY <1>1, <1>2 DEF IInv, AssertInv
<1>9. pc'[1] \notin Connects
  BY <1>1, <1>3 DEF Calling
<1> HIDE DEF Waits, Doomed, Todo
<1> QED  BY <1>1, <1>2, <1>3, <1>4, <1>5, <1>6, <1>7, <1>8, <1>9, StartStep

(* A queued startInLoop starts an attempt.                                 *)
LEMMA RunStartStep ==
    ASSUME IInv, TypeOK', rushed # "pending", RunStart
    PROVE  OneInv' /\ ChannelInv' /\ SocketInv' /\ AssertInv'
<1>1. /\ Runs("startInLoop") /\ phase = "functors"
      /\ UNCHANGED <<connection, phase, ready, queue, pc, called, client, rushed>>
      /\ client # "gone" => StartInLoop(state, goOn, delay)
  BY DEF RunStart, Runs, clientVars, callVars, endVars
<1>2. TypeOK /\ FunctorInv /\ OneInv /\ "startInLoop" \in Names
  BY DEF IInv, Names
<1>3. Singly(Todo)
  BY <1>2 DEF OneInv
<1>4. /\ Waits("startInLoop") /\ ~ Waits("startInLoop")'
      /\ \A m \in Names : m # "startInLoop" => (Waits(m)' <=> Waits(m))
      /\ \A s \in Sockets : Doomed(s)' <=> Doomed(s)
      /\ Singly(Todo')
  BY <1>1, <1>2, <1>3, PopName
<1> HIDE DEF Waits, Doomed, Todo
<1>5. Starting
  BY <1>4 DEF Starting
<1>6. /\ channel = "none" /\ connection = NoSocket /\ ~Calling
      /\ timers \in Nat /\ ~(timers > 0) /\ "connect" \in called /\ client # "gone"
      /\ (client = "dtor" => ~goOn)
  BY <1>4, <1>5 DEF IInv, TypeOK, OneInv, ChannelInv, PhaseInv
<1>7. timers = 0
  BY <1>6
<1>8. ready' = {}
  BY <1>1 DEF IInv, PhaseInv
<1>9. \A m \in Names : Waits(m)' <=> Waits(m) /\ m # "startInLoop"
  BY <1>4
<1>10. rushed' = "nothing" => state = "kDisconnected" /\ ~failed /\ ~broken
  BY <1>1, <1>4 DEF IInv, AssertInv
<1>11. pc'[1] \notin Connects
  BY <1>1, <1>6 DEF Calling
<1> QED  BY <1>1, <1>4, <1>6, <1>7, <1>8, <1>9, <1>10, <1>11, StartStep

(* A second connect() that finds nothing under way.                        *)
LEMMA RestFacts ==
    ASSUME TypeOK, AtRest
    PROVE  ~Waits("startInLoop") /\ ~Waits("resetChannel") /\ ~Waits("stopInLoop")
<1>1. \A n \in Names : n \notin Waiting
  BY DEF AtRest, Names
<1> QED  BY <1>1, WaitsWaiting DEF Names

(* A connect() on the loop starts an attempt, or came too early.           *)
LEMMA ConnectStep ==
    ASSUME IInv, TypeOK', rushed # "pending", NEW op \in Connects, CallOnLoop(op)
    PROVE  (rushed' # "pending" => OneInv' /\ ChannelInv' /\ SocketInv') /\ AssertInv'
<1>1. /\ StartInLoop(state, TRUE, delay) /\ phase \in {"handlers", "functors"} /\ MayCall(op)
      /\ queue' = queue \o <<>> /\ rushed' = RushedBy(op) /\ called' = Calls(op)
      /\ UNCHANGED <<connection, phase, ready, batch, pc, client>>
  <2>1. op # "stop"
    BY DEF Connects
  <2> QED  BY <2>1 DEF CallOnLoop, Push
<1>2. queue' = queue
  <2>1. queue \in Seq(Functors)
    BY TodoType DEF IInv
  <2> HIDE DEF Functors
  <2> QED  BY <1>1, <2>1
<1>3. CASE rushed' = "pending"
  BY <1>3 DEF AssertInv
<1>4. CASE rushed' # "pending"
  <2>0. TypeOK /\ PhaseInv /\ OneInv /\ ChannelInv
    BY DEF IInv
  <2>1. client = "up" /\ op \notin called /\ "connect" \in called' /\ rushed = "nothing"
        /\ pc[1] \notin Connects
    <3>1. client = "up" /\ op \notin called /\ "connect" \in called'
      BY <1>1 DEF MayCall, Calls, Connects
    <3>2. CASE op = "connect"
      BY <2>0, <3>1, <3>2 DEF PhaseInv, OneInv, Starting, Calling
    <3>3. CASE op = "reconnect"
      <4>1. pc[1] \notin Connects
        BY <1>1, <3>3 DEF MayCall, Idle, Connects
      <4> QED  BY <2>0, <3>1, <3>3, <4>1 DEF PhaseInv
    <3> QED  BY <3>1, <3>2, <3>3 DEF Connects
  <2>2. /\ ready = {} /\ channel = "none" /\ connection = NoSocket /\ timers = 0
        /\ ~Waits("startInLoop")
    <3>1. CASE op = "connect"
      BY <2>0, <2>1, <3>1 DEF OneInv, Starting
    <3>2. CASE op = "reconnect"
      <4>1. AtRest
        BY <1>1, <1>4, <3>2 DEF RushedBy
      <4> QED  BY <2>0, <4>1, RestFacts DEF AtRest
    <3> QED  BY <3>1, <3>2 DEF Connects
  <2>3. rushed' = "nothing" => state = "kDisconnected" /\ ~failed /\ ~broken
    <3>1. ~failed /\ ~broken
      BY <2>1 DEF IInv, AssertInv
    <3>2. CASE op = "connect"
      BY <2>0, <2>1, <3>1, <3>2 DEF OneInv
    <3>3. CASE op = "reconnect"
      BY <1>1, <3>1, <3>3 DEF RushedBy
    <3> QED  BY <3>2, <3>3 DEF Connects
  <2>4. /\ \A m \in Names : Waits(m)' <=> Waits(m)
        /\ \A s \in Sockets : Doomed(s)' <=> Doomed(s)
        /\ Singly(Todo')
    BY <1>1, <1>2, <2>0, SameTodo, Same DEF OneInv
  <2>5. \A m \in Names : Waits(m)' <=> Waits(m) /\ m # "startInLoop"
    BY <2>2, <2>4
  <2> HIDE DEF Waits, Doomed, Todo
  <2> QED  BY <1>1, <2>1, <2>2, <2>3, <2>4, <2>5, StartStep
<1> QED  BY <1>3, <1>4

(* An attempt that ends: the channel leaves the poller and its socket is   *)
(* closed.                                                                 *)
LEMMA DropStep ==
    ASSUME IInv, TypeOK', rushed # "pending", state = "kConnecting",
           RemoveChannel, Retry(sock, goOn, delay),
           UNCHANGED <<connection, client, pc, called, rushed, failed, broken, phase>>,
           ready' \subseteq ready, Waits("resetChannel")', Singly(Todo'),
           Waits("startInLoop")' <=> Waits("startInLoop"),
           \A s \in Sockets : Doomed(s)' <=> Doomed(s)
    PROVE  OneInv' /\ ChannelInv' /\ SocketInv' /\ AssertInv'
<1> HIDE DEF Waits, Doomed, Todo, Singly, Has
<1>0. NoSocket = 0 /\ NoSocket \notin Sockets
  BY SocketAssumption DEF NoSocket, Sockets
<1>1. TypeOK /\ PhaseInv /\ OneInv /\ ChannelInv /\ SocketInv /\ AssertInv
  BY DEF IInv
<1>2. /\ channel = "added" /\ sock \in Sockets /\ connection = NoSocket /\ client # "gone"
      /\ ~Starting /\ "connect" \in called /\ "close" \notin ready /\ timers \in Nat /\ ~(timers > 0)
      /\ (client = "dtor" => ~goOn)
  BY <1>0, <1>1 DEF TypeOK, PhaseInv, OneInv, ChannelInv
<1>3. /\ state' = "kDisconnected" /\ channel' = "removed" /\ sock' = NoSocket
      /\ open' = open \ {sock} /\ (timers' = 0 \/ (timers' = 1 /\ goOn))
  <2>1. timers = 0
    BY <1>2
  <2> QED  BY <2>1 DEF RemoveChannel, Retry
<1>4. ~Starting' /\ ~Expired' /\ ~Restarting' /\ ~Waits("startInLoop")' /\ ~Calling'
  BY <1>2 DEF Starting, Calling, Expired, Restarting
<1>5. OneInv'
  BY <1>0, <1>2, <1>3, <1>4 DEF OneInv
<1>6. ChannelInv'
  BY <1>0, <1>2, <1>3, <1>4 DEF ChannelInv
<1>7. SocketInv'
  BY <1>0, <1>1, <1>2, <1>3 DEF SocketInv
<1>8. AssertInv'
  BY <1>1, <1>3, <1>4 DEF AssertInv
<1> QED  BY <1>5, <1>6, <1>7, <1>8

(* A step that at most takes an event from the round.                      *)
LEMMA IgnoreStep ==
    ASSUME IInv, rushed # "pending", phase' = phase, ready' \subseteq ready,
           UNCHANGED <<state, channel, sock, connection, open, timers, queue, batch, client, rushed>>,
           Calling' <=> Calling, "connect" \in called => "connect" \in called',
           (rushed = "nothing" /\ ~failed => ~failed') /\ broken' = broken
    PROVE  OneInv' /\ ChannelInv' /\ SocketInv' /\ AssertInv'
<1>1. TypeOK /\ PhaseInv /\ OneInv /\ ChannelInv /\ SocketInv /\ AssertInv
  BY DEF IInv
<1>2. /\ \A m \in Names : Waits(m)' <=> Waits(m)
      /\ \A s \in Sockets : Doomed(s)' <=> Doomed(s)
      /\ Singly(Todo) => Singly(Todo')
  BY SameTodo, Same
<1>3. (Queued("resetChannel")' <=> Queued("resetChannel"))
      /\ (Waits("startInLoop")' <=> Waits("startInLoop"))
      /\ (Waits("resetChannel")' <=> Waits("resetChannel"))
      /\ (Waits("stopInLoop")' <=> Waits("stopInLoop"))
  BY <1>2 DEF Queued, Names
<1> HIDE DEF Waits, Doomed, Todo, Singly, Has, Queued
<1>4. /\ Calling' <=> Calling
      /\ Expired' => Expired
      /\ Restarting' <=> Restarting
  BY DEF Expired, Restarting
<1>5. Starting' => Starting
  BY <1>3, <1>4 DEF Starting
<1> HIDE DEF Starting, Calling, Expired, Restarting
<1>6. OneInv'
  BY <1>1, <1>2, <1>3, <1>4, <1>5 DEF OneInv
<1>7. ChannelInv'
  BY <1>1, <1>3, <1>4, <1>5 DEF ChannelInv
<1>8. SocketInv'
  BY <1>1, <1>2 DEF SocketInv
<1>9. AssertInv'
  BY <1>1, <1>3, <1>4 DEF AssertInv
<1> QED  BY <1>6, <1>7, <1>8, <1>9

(* The attempt succeeds, fails or connects to itself.                      *)
LEMMA WriteStep ==
    ASSUME IInv, TypeOK', rushed # "pending", HandleWrite
    PROVE  OneInv' /\ ChannelInv' /\ SocketInv' /\ AssertInv'
<1>0. NoSocket = 0 /\ NoSocket \notin Sockets
  BY SocketAssumption DEF NoSocket, Sockets
<1>1. TypeOK /\ PhaseInv /\ OneInv /\ ChannelInv /\ SocketInv /\ AssertInv
  BY DEF IInv
<1>2. /\ phase = "handlers" /\ "write" \in ready /\ "error" \notin ready
      /\ ready' = ready \ {"write"} /\ UNCHANGED <<goOn, phase, batch, pc, called, client, rushed, broken>>
  BY DEF HandleWrite, Handles, callVars, endVars
<1>3. CASE state # "kConnecting"
  <2>1. state = "kDisconnected"
    BY <1>1, <1>2, <1>3 DEF ChannelInv, TypeOK, States
  <2>2. UNCHANGED <<state, channel, sock, open, timers, queue, connection>>
        /\ failed' = (failed \/ state # "kDisconnected")
    BY <1>3 DEF HandleWrite
  <2>3. rushed = "nothing" /\ ~failed => ~failed'
    BY <2>1, <2>2, Zenon
  <2>4. Calling' <=> Calling
    BY <1>2 DEF Calling
  <2> HIDE DEF Calling
  <2> QED  BY <1>2, <2>2, <2>3, <2>4, IgnoreStep
<1>4. CASE state = "kConnecting"
  <2>1. /\ channel = "added" /\ sock \in Sockets /\ connection = NoSocket /\ client # "gone"
        /\ ~Starting /\ "connect" \in called /\ "close" \notin ready /\ timers \in Nat
        /\ ~(timers > 0) /\ ~Waits("resetChannel")
    BY <1>0, <1>1, <1>4 DEF TypeOK, PhaseInv, OneInv, ChannelInv
  <2>2. RemoveChannel /\ Push(<<Functor("resetChannel")>>) /\ UNCHANGED failed
    BY <1>4 DEF HandleWrite
  <2>3. /\ Waits("resetChannel")' /\ (Waits("startInLoop")' <=> Waits("startInLoop"))
        /\ \A s \in Sockets : Doomed(s)' <=> Doomed(s)
        /\ Singly(Todo')
    <3>1. "resetChannel" \in Names /\ "startInLoop" \in Names /\ Singly(Todo)
      BY <1>1 DEF Names, OneInv
    <3> QED  BY <1>1, <1>2, <2>1, <2>2, <3>1, PushName
  <2> HIDE DEF Waits, Doomed, Todo, Singly, Has, Queued
  <2>4. CASE Retry(sock, goOn, delay) /\ UNCHANGED connection
    BY <1>2, <1>4, <2>2, <2>3, <2>4, DropStep
  <2>5. CASE /\ state' = "kConnected"
             /\ IF goOn THEN connection' = sock /\ UNCHANGED open
                ELSE open' = open \ {sock} /\ UNCHANGED connection
             /\ UNCHANGED <<timers, delay>>
    <3>1. channel' = "removed" /\ sock' = NoSocket
      BY <2>2 DEF RemoveChannel
    <3>2. ~Starting' /\ ~Expired' /\ ~Restarting' /\ ~Waits("startInLoop")' /\ ~Calling'
      BY <1>2, <2>1, <2>3 DEF Starting, Calling, Expired, Restarting
    <3>3. \/ goOn /\ connection' = sock /\ open' = open
          \/ connection' = NoSocket /\ open' = open \ {sock}
      BY <2>1, <2>5
    <3> HIDE DEF Starting, Calling, Expired, Restarting
    <3>4. OneInv'
      BY <1>0, <1>2, <2>1, <2>3, <2>5, <3>1, <3>2 DEF OneInv
    <3>5. ChannelInv'
      BY <1>0, <1>2, <2>1, <2>3, <2>5, <3>1, <3>2 DEF ChannelInv
    <3>6. SocketInv'
      BY <1>0, <1>1, <2>1, <2>3, <3>1, <3>3 DEF SocketInv
    <3>7. AssertInv'
      BY <1>1, <1>2, <2>1, <2>2, <2>5, <3>2 DEF AssertInv
    <3> QED  BY <3>4, <3>5, <3>6, <3>7
  <2> QED  BY <1>4, <2>4, <2>5 DEF HandleWrite
<1> QED  BY <1>3, <1>4

(* The attempt fails.                                                      *)
LEMMA ErrorStep ==
    ASSUME IInv, TypeOK', rushed # "pending", HandleError
    PROVE  OneInv' /\ ChannelInv' /\ SocketInv' /\ AssertInv'
<1>1. TypeOK /\ OneInv /\ ChannelInv
  BY DEF IInv
<1>2. /\ ready' = ready \ {"error"}
      /\ UNCHANGED <<goOn, connection, phase, batch, pc, called, client, rushed, broken, failed>>
  BY DEF HandleError, Handles, clientVars, callVars, endVars
<1>3. CASE state # "kConnecting"
  <2>1. UNCHANGED <<state, channel, sock, open, timers, queue>>
    BY <1>3 DEF HandleError
  <2>2. Calling' <=> Calling
    BY <1>2 DEF Calling
  <2> HIDE DEF Calling
  <2> QED  BY <1>2, <2>1, <2>2, IgnoreStep
<1>4. CASE state = "kConnecting"
  <2>2. RemoveChannel /\ Push(<<Functor("resetChannel")>>) /\ Retry(sock, goOn, delay)
    BY <1>4 DEF HandleError
  <2>3. /\ Waits("resetChannel")' /\ (Waits("startInLoop")' <=> Waits("startInLoop"))
        /\ \A s \in Sockets : Doomed(s)' <=> Doomed(s)
        /\ Singly(Todo')
    <3>1. "resetChannel" \in Names /\ "startInLoop" \in Names /\ Singly(Todo) /\ ~Waits("resetChannel")
      BY <1>1, <1>4 DEF Names, OneInv, ChannelInv
    <3> QED  BY <1>1, <1>2, <2>2, <3>1, PushName
  <2> HIDE DEF Waits, Doomed, Todo, Singly, Has, Queued
  <2> QED  BY <1>2, <1>4, <2>2, <2>3, DropStep
<1> QED  BY <1>3, <1>4

(* stopInLoop gives the attempt up.                                        *)
LEMMA RunStopStep ==
    ASSUME IInv, TypeOK', rushed # "pending", RunStop
    PROVE  OneInv' /\ ChannelInv' /\ SocketInv' /\ AssertInv'
<1>1. TypeOK /\ PhaseInv /\ FunctorInv /\ OneInv /\ ChannelInv /\ SocketInv /\ AssertInv
  BY DEF IInv
<1>2. /\ Runs("stopInLoop") /\ phase = "functors" /\ goOn' = goOn
      /\ UNCHANGED <<connection, phase, ready, pc, called, client, rushed, failed>>
      /\ broken' = (broken \/ client = "gone")
  BY DEF RunStop, Runs, StopInLoop, clientVars, connVars, callVars, endVars
<1>a. client # "gone" => broken' = broken
  BY <1>1, <1>2 DEF TypeOK
<1>b. rushed = "nothing" => client # "gone"
  <2>1. Waits("stopInLoop")
    BY <1>1, <1>2, RunsName DEF Names
  <2> QED  BY <2>1 DEF IInv, StopInv
<1>3. CASE state = "kConnecting"
  <2>1. broken' = broken
    BY <1>1, <1>3, <1>a DEF ChannelInv
  <2>2. RemoveChannel /\ Push(<<Functor("resetChannel")>>) /\ Retry(sock, goOn, delay)
    BY <1>3 DEF RunStop, StopInLoop
  <2>3. /\ Waits("resetChannel")' /\ (Waits("startInLoop")' <=> Waits("startInLoop"))
        /\ \A s \in Sockets : Doomed(s)' <=> Doomed(s)
        /\ Singly(Todo')
    <3>1. "startInLoop" \in Names /\ Singly(Todo) /\ ~Waits("resetChannel")
      BY <1>1, <1>3 DEF Names, OneInv, ChannelInv
    <3> QED  BY <1>1, <1>2, <2>2, <3>1, PopPushReset
  <2> HIDE DEF Waits, Doomed, Todo, Singly, Has, Queued
  <2> QED  BY <1>2, <1>3, <2>1, <2>2, <2>3, DropStep
<1>4. CASE state # "kConnecting"
  <2>1. UNCHANGED <<state, channel, sock, open, timers, queue>>
    BY <1>4 DEF RunStop, StopInLoop, connVars
  <2>2. /\ (Waits("resetChannel")' <=> Waits("resetChannel"))
        /\ (Waits("startInLoop")' <=> Waits("startInLoop"))
        /\ \A s \in Sockets : Doomed(s)' <=> Doomed(s)
        /\ Singly(Todo')
    <3>1. {"stopInLoop", "resetChannel", "startInLoop"} \subseteq Names /\ Singly(Todo)
      BY <1>1 DEF Names, OneInv
    <3> QED  BY <1>1, <1>2, <2>1, <3>1, PopName
  <2>3. Queued("resetChannel")' <=> Queued("resetChannel")
    BY <2>1 DEF Queued
  <2> HIDE DEF Waits, Doomed, Todo, Singly, Has, Queued
  <2>4. /\ Calling' <=> Calling
        /\ Expired' <=> Expired
        /\ Restarting' <=> Restarting
        /\ channel # "added"
    BY <1>1, <1>2, <1>4 DEF Calling, Expired, Restarting, ChannelInv
  <2>5. Starting' <=> Starting
    BY <2>2, <2>4 DEF Starting
  <2> HIDE DEF Starting, Calling, Expired, Restarting
  <2>6. OneInv'
    BY <1>1, <1>2, <2>1, <2>2, <2>4, <2>5 DEF OneInv
  <2>7. ChannelInv'
    BY <1>1, <1>2, <2>1, <2>2, <2>3, <2>4, <2>5 DEF ChannelInv
  <2>8. SocketInv'
    BY <1>1, <1>2, <2>1, <2>2 DEF SocketInv
  <2>9. AssertInv'
    BY <1>1, <1>2, <1>a, <1>b, <2>1, <2>2, <2>4 DEF AssertInv
  <2> QED  BY <2>6, <2>7, <2>8, <2>9
<1> QED  BY <1>3, <1>4

(* The connection is closed, by its peer or by ~TcpClient.                 *)
LEMMA CloseStep ==
    ASSUME IInv, TypeOK', rushed # "pending", HandleClose
    PROVE  OneInv' /\ ChannelInv' /\ SocketInv' /\ AssertInv'
<1>0. NoSocket = 0 /\ NoSocket \notin Sockets
  BY SocketAssumption DEF NoSocket, Sockets
<1>1. TypeOK /\ PhaseInv /\ OneInv /\ ChannelInv /\ SocketInv /\ AssertInv
  BY DEF IInv
<1>2. /\ phase = "handlers" /\ "close" \in ready /\ ready' = ready \ {"close"}
      /\ (phase' = "handlers" \/ (phase' = "restart" /\ client = "up"))
      /\ UNCHANGED <<state, channel, sock, batch, timers, open, pc, called, client, rushed, broken, failed>>
  BY DEF HandleClose, Handles, connVars, callVars, endVars
<1>3. /\ connection \in Sockets /\ channel = "none" /\ sock = NoSocket /\ state # "kConnecting"
      /\ ~Starting /\ timers = 0 /\ "connect" \in called /\ ~Waits("resetChannel")
      /\ ready \intersect {"write", "error"} = {} /\ ~Expired /\ ~Calling /\ ~Waits("startInLoop")
      /\ ~Doomed(connection) /\ connection # NoSocket
  <2>1. connection \in Sockets /\ channel = "none" /\ connection # NoSocket
    BY <1>1, <1>2 DEF ChannelInv, TypeOK
  <2>2. ~Starting /\ sock = NoSocket /\ ~(timers > 0) /\ timers \in Nat /\ ~Doomed(connection)
    BY <1>0, <1>1, <2>1 DEF OneInv, SocketInv, TypeOK
  <2>3. timers = 0 /\ ~Expired /\ ~Calling /\ ~Waits("startInLoop")
    BY <2>2 DEF Starting
  <2>4. "connect" \in called /\ ~Waits("resetChannel") /\ state # "kConnecting"
        /\ ready \intersect {"write", "error"} = {}
    BY <1>1, <1>2, <2>1 DEF OneInv, ChannelInv
  <2> QED  BY <2>1, <2>2, <2>3, <2>4
<1>4. connection' = NoSocket /\ Push(<<<<"connectDestroyed", connection>>>>)
  BY <1>3 DEF HandleClose, Close
<1>5. /\ ~Waits("startInLoop")' /\ ~Waits("resetChannel")'
      /\ \A s \in Sockets : Doomed(s)' <=> Doomed(s) \/ s = connection
      /\ Singly(Todo')
  <2>1. Singly(Todo) /\ "startInLoop" \in Names /\ "resetChannel" \in Names
    BY <1>1 DEF OneInv, Names
  <2> QED  BY <1>1, <1>2, <1>3, <1>4, <2>1, PushDoomed
<1> HIDE DEF Waits, Doomed, Todo, Singly, Has, Queued
<1>6. ~Calling' /\ ~Expired' /\ (Restarting' => client = "up") /\ ready' \intersect {"write", "error", "close"} = {}
  BY <1>1, <1>2, <1>3 DEF Calling, Expired, Restarting
<1>7. OneInv'
  BY <1>0, <1>2, <1>3, <1>4, <1>5, <1>6 DEF OneInv, Starting
<1>8. ChannelInv'
  BY <1>0, <1>2, <1>3, <1>4, <1>5, <1>6 DEF ChannelInv, Starting
<1>9. SocketInv'
  BY <1>0, <1>1, <1>2, <1>3, <1>4, <1>5 DEF SocketInv
<1>10. AssertInv'
  BY <1>1, <1>2, <1>3, <1>5, <1>6 DEF AssertInv
<1> QED  BY <1>7, <1>8, <1>9, <1>10

(* The connection of a destroyed client is closed.                         *)
LEMMA ForceCloseStep ==
    ASSUME IInv, TypeOK', rushed # "pending", RunForceClose
    PROVE  OneInv' /\ ChannelInv' /\ SocketInv' /\ AssertInv'
<1>0. NoSocket = 0 /\ NoSocket \notin Sockets
  BY SocketAssumption DEF NoSocket, Sockets
<1>1. TypeOK /\ PhaseInv /\ FunctorInv /\ OneInv /\ ChannelInv /\ SocketInv /\ AssertInv
  BY DEF IInv
<1>2. /\ Runs("forceCloseInLoop") /\ phase = "functors"
      /\ UNCHANGED <<state, channel, sock, phase, ready, timers, open, pc, called, client, rushed, broken, failed>>
  BY DEF RunForceClose, Runs, connVars, callVars, endVars
<1>n. Singly(Todo) /\ {"startInLoop", "resetChannel", "stopInLoop", "forceCloseInLoop"} \subseteq Names
  BY <1>1 DEF OneInv, Names
<1>3. /\ (connection = NoSocket /\ \A s \in Sockets : Doomed(s)' <=> Doomed(s))
         \/ (connection \in Sockets /\ \A s \in Sockets : Doomed(s)' <=> Doomed(s) \/ s = connection)
      /\ connection' = NoSocket
      /\ (Waits("startInLoop")' <=> Waits("startInLoop"))
      /\ (Waits("resetChannel")' <=> Waits("resetChannel"))
      /\ (Waits("stopInLoop")' <=> Waits("stopInLoop"))
      /\ Singly(Todo')
  <2>1. CASE connection = NoSocket
    <3>1. UNCHANGED <<connection, queue>>
      BY <2>1 DEF RunForceClose
    <3> QED  BY <1>1, <1>2, <1>n, <2>1, <3>1, PopName
  <2>2. CASE connection # NoSocket
    <3>1. connection' = NoSocket /\ Push(<<<<"connectDestroyed", connection>>>>)
      BY <2>2 DEF RunForceClose, Close
    <3>2. connection \in Sockets /\ ~Doomed(connection)
      BY <1>1, <2>2 DEF TypeOK, SocketInv
    <3> QED  BY <1>1, <1>2, <1>n, <3>1, <3>2, PopPushDoomed
  <2> QED  BY <2>1, <2>2
<1> HIDE DEF Waits, Doomed, Todo, Singly, Has, Queued
<1>4. /\ Calling' <=> Calling
      /\ Expired' <=> Expired
      /\ Restarting' <=> Restarting
      /\ ready' = {}
  BY <1>1, <1>2 DEF Calling, Expired, Restarting, PhaseInv
<1>5. Starting' <=> Starting
  BY <1>3, <1>4 DEF Starting
<1> HIDE DEF Starting, Calling, Expired, Restarting
<1>6. OneInv'
  BY <1>0, <1>1, <1>2, <1>3, <1>4, <1>5 DEF OneInv
<1>7. ChannelInv'
  BY <1>0, <1>1, <1>2, <1>3, <1>4, <1>5 DEF ChannelInv
<1>8. SocketInv'
  <2> SUFFICES ASSUME NEW s \in Sockets
               PROVE  /\ s \in open <=> s = sock \/ Doomed(s)'
                      /\ Doomed(s)' => s # sock
    BY <1>0, <1>2, <1>3 DEF SocketInv
  <2>1. /\ s \in open <=> s = sock \/ s = connection \/ Doomed(s)
        /\ Doomed(s) => s # sock /\ s # connection
    BY <1>1 DEF SocketInv
  <2>2. CASE connection = NoSocket
    BY <1>0, <1>3, <2>1, <2>2
  <2>3. CASE connection # NoSocket
    <3>1. sock = NoSocket /\ connection \in Sockets
      BY <1>1, <2>3 DEF OneInv, TypeOK
    <3> QED  BY <1>0, <1>3, <2>1, <2>3, <3>1
  <2> QED  BY <2>2, <2>3
<1>9. AssertInv'
  BY <1>1, <1>2, <1>3, <1>4 DEF AssertInv
<1> QED  BY <1>6, <1>7, <1>8, <1>9

(* Its functor closes the descriptor.                                      *)
LEMMA DestroyedStep ==
    ASSUME IInv, TypeOK', rushed # "pending", RunDestroyed
    PROVE  OneInv' /\ ChannelInv' /\ SocketInv' /\ AssertInv'
<1>0. NoSocket = 0 /\ NoSocket \notin Sockets
  BY SocketAssumption DEF NoSocket, Sockets
<1>1. TypeOK /\ PhaseInv /\ FunctorInv /\ OneInv /\ ChannelInv /\ SocketInv /\ AssertInv
  BY DEF IInv
<1>2. PICK c : c = Head(batch)[2]
  OBVIOUS
<1>3. /\ Runs("connectDestroyed") /\ open' = open \ {c}
      /\ UNCHANGED <<state, channel, sock, connection, phase, ready, queue, timers, pc, called,
                     client, rushed, broken, failed>>
  BY <1>2 DEF RunDestroyed, connVars, clientVars, callVars, endVars
<1>n. Singly(Todo) /\ {"startInLoop", "resetChannel", "stopInLoop"} \subseteq Names
  BY <1>1 DEF OneInv, Names
<1>4. /\ c \in Sockets /\ Doomed(c)
      /\ \A s \in Sockets : Doomed(s)' <=> Doomed(s) /\ s # c
      /\ (Waits("startInLoop")' <=> Waits("startInLoop"))
      /\ (Waits("resetChannel")' <=> Waits("resetChannel"))
      /\ (Waits("stopInLoop")' <=> Waits("stopInLoop"))
      /\ Singly(Todo')
  BY <1>1, <1>2, <1>3, <1>n, PopDoomed
<1>5. Queued("resetChannel")' <=> Queued("resetChannel")
  BY <1>3 DEF Queued
<1> HIDE DEF Waits, Doomed, Todo, Singly, Has, Queued
<1>6. /\ Calling' <=> Calling
      /\ Expired' <=> Expired
      /\ Restarting' <=> Restarting
  BY <1>3 DEF Calling, Expired, Restarting
<1>7. Starting' <=> Starting
  BY <1>4, <1>6 DEF Starting
<1> HIDE DEF Starting, Calling, Expired, Restarting
<1>8. OneInv'
  BY <1>1, <1>3, <1>4, <1>6, <1>7 DEF OneInv
<1>9. ChannelInv'
  BY <1>1, <1>3, <1>4, <1>5, <1>6, <1>7 DEF ChannelInv
<1>10. SocketInv'
  BY <1>1, <1>3, <1>4 DEF SocketInv
<1>11. AssertInv'
  BY <1>1, <1>3, <1>4, <1>6 DEF AssertInv
<1> QED  BY <1>8, <1>9, <1>10, <1>11

(* resetChannel finds the channel it was queued for.                       *)
LEMMA ResetStep ==
    ASSUME IInv, TypeOK', rushed # "pending", RunReset
    PROVE  OneInv' /\ ChannelInv' /\ SocketInv' /\ AssertInv'
<1>0. NoSocket = 0 /\ NoSocket \notin Sockets
  BY SocketAssumption DEF NoSocket, Sockets
<1>1. TypeOK /\ PhaseInv /\ FunctorInv /\ OneInv /\ ChannelInv /\ SocketInv /\ AssertInv
  BY DEF IInv
<1>2. /\ Runs("resetChannel") /\ phase = "functors" /\ channel' = "none"
      /\ failed' = (failed \/ channel = "added")
      /\ broken' = (broken \/ channel = "added" \/ client = "gone")
      /\ UNCHANGED <<state, sock, connection, phase, ready, queue, timers, open, pc, called, client, rushed>>
  BY DEF RunReset, Runs, clientVars, callVars, endVars
<1>n. Singly(Todo) /\ {"startInLoop", "resetChannel", "stopInLoop"} \subseteq Names
  BY <1>1 DEF OneInv, Names
<1>3. /\ Waits("resetChannel") /\ ~Waits("resetChannel")'
      /\ \A s \in Sockets : Doomed(s)' <=> Doomed(s)
      /\ (Waits("startInLoop")' <=> Waits("startInLoop"))
      /\ Singly(Todo')
  BY <1>1, <1>2, <1>n, PopName
<1>4. Queued("resetChannel")' <=> Queued("resetChannel")
  BY <1>2 DEF Queued
<1> HIDE DEF Waits, Doomed, Todo, Singly, Has, Queued
<1>5. channel = "removed" /\ client # "gone" /\ state # "kConnecting" /\ sock = NoSocket /\ ready = {}
  BY <1>1, <1>2, <1>3 DEF ChannelInv, PhaseInv
<1>6. (failed' <=> failed) /\ (broken' <=> broken)
  BY <1>2, <1>5
<1>7. /\ Calling' <=> Calling
      /\ Expired' <=> Expired
      /\ Restarting' <=> Restarting
  BY <1>2 DEF Calling, Expired, Restarting
<1>8. Starting' <=> Starting
  BY <1>3, <1>7 DEF Starting
<1> HIDE DEF Starting, Calling, Expired, Restarting
<1>9. OneInv'
  BY <1>1, <1>2, <1>3, <1>7, <1>8 DEF OneInv
<1>10. ChannelInv'
  BY <1>1, <1>2, <1>3, <1>4, <1>5, <1>7, <1>8 DEF ChannelInv
<1>11. SocketInv'
  BY <1>1, <1>2, <1>3 DEF SocketInv
<1>12. AssertInv'
  BY <1>1, <1>2, <1>3, <1>6, <1>7 DEF AssertInv
<1> QED  BY <1>9, <1>10, <1>11, <1>12

(* The rounds of the loop.                                                 *)
LEMMA PollStep ==
    ASSUME IInv, TypeOK', rushed # "pending", NEW r \in SUBSET Events, Poll(r)
    PROVE  OneInv' /\ ChannelInv' /\ SocketInv' /\ AssertInv'
<1>0. NoSocket = 0 /\ NoSocket \notin Sockets
  BY SocketAssumption DEF NoSocket, Sockets
<1>1. TypeOK /\ PhaseInv /\ OneInv /\ ChannelInv /\ SocketInv /\ AssertInv
  BY DEF IInv
<1>2. /\ phase = "poll" /\ phase' = "handlers" /\ ready' = r /\ r \subseteq Pollable
      /\ timers' = IF "timer" \in r THEN timers - 1 ELSE timers
      /\ UNCHANGED <<state, channel, sock, connection, queue, batch, open, pc, called, client,
                     rushed, broken, failed>>
  BY DEF Poll, connVars, clientVars, callVars, endVars
<1>3. /\ \A m \in Names : Waits(m)' <=> Waits(m)
      /\ \A s \in Sockets : Doomed(s)' <=> Doomed(s)
      /\ Singly(Todo')
  BY <1>1, <1>2, SameTodo, Same DEF OneInv
<1>4. /\ (Waits("startInLoop")' <=> Waits("startInLoop"))
      /\ (Waits("resetChannel")' <=> Waits("resetChannel"))
      /\ (Waits("stopInLoop")' <=> Waits("stopInLoop"))
  BY <1>3 DEF Names
<1>5. ready = {} /\ batch = <<>> /\ ~Expired /\ ~Restarting /\ (Waits("resetChannel") <=> Queued("resetChannel"))
  <2>1. ready = {} /\ batch = <<>>
    BY <1>1, <1>2 DEF PhaseInv
  <2>2. Waits("resetChannel") <=> Queued("resetChannel")
    BY <1>1, <2>1, QueueIsTodo DEF Waits, Queued
  <2> QED  BY <1>2, <2>1, <2>2 DEF Expired, Restarting
<1>6. /\ "write" \in r \/ "error" \in r => channel = "added"
      /\ "close" \in r => connection # NoSocket
      /\ "timer" \in r => timers > 0 /\ ~Queued("resetChannel")
  BY <1>2 DEF Pollable, Queued, Has
<1> HIDE DEF Waits, Doomed, Todo, Singly, Has, Queued
<1>7. channel \in {"none", "added", "removed"} /\ timers \in Nat
  BY <1>1 DEF TypeOK
<1>8. /\ "timer" \in r => /\ timers = 1 /\ ~Starting /\ sock = NoSocket /\ connection = NoSocket
                          /\ channel = "none" /\ "connect" \in called /\ client # "gone"
      /\ "close" \in r => /\ channel = "none" /\ timers = 0 /\ sock = NoSocket /\ ~Starting
                          /\ "connect" \in called
      /\ "write" \in r \/ "error" \in r => /\ state = "kConnecting" /\ timers = 0 /\ sock # NoSocket
                                           /\ connection = NoSocket /\ "connect" \in called
  <2>1. ASSUME "timer" \in r
        PROVE  /\ timers = 1 /\ ~Starting /\ sock = NoSocket /\ connection = NoSocket
               /\ channel = "none" /\ "connect" \in called /\ client # "gone"
    <3>1. timers > 0 /\ timers = 1 /\ ~(timers = 0)
      BY <1>1, <1>6, <1>7, <2>1 DEF OneInv
    <3>2. ~Starting /\ sock = NoSocket /\ connection = NoSocket /\ "connect" \in called
      BY <1>1, <3>1 DEF OneInv
    <3>3. channel = "none" /\ client # "gone"
      BY <1>1, <1>5, <1>6, <1>7, <2>1, <3>1, <3>2 DEF ChannelInv
    <3> QED  BY <3>1, <3>2, <3>3
  <2>2. ASSUME "close" \in r
        PROVE  channel = "none" /\ timers = 0 /\ sock = NoSocket /\ ~Starting /\ "connect" \in called
    <3>1. connection # NoSocket /\ ~(timers > 0) /\ sock = NoSocket /\ ~Starting /\ "connect" \in called
      BY <1>1, <1>6, <2>2 DEF OneInv
    <3>2. channel = "none"
      BY <1>1, <1>2, <1>5, <1>7, <3>1 DEF ChannelInv
    <3> QED  BY <1>7, <3>1, <3>2
  <2>3. ASSUME "write" \in r \/ "error" \in r
        PROVE  /\ state = "kConnecting" /\ timers = 0 /\ sock # NoSocket
               /\ connection = NoSocket /\ "connect" \in called
    <3>1. state = "kConnecting" /\ sock # NoSocket /\ channel # "none"
      BY <1>1, <1>6, <2>3 DEF ChannelInv
    <3>2. ~(timers > 0) /\ connection = NoSocket /\ "connect" \in called
      BY <1>1, <3>1 DEF OneInv
    <3> QED  BY <1>7, <3>1, <3>2
  <2> QED  BY <2>1, <2>2, <2>3
<1>9. /\ Calling' <=> Calling
      /\ Expired' <=> "timer" \in r
      /\ ~Restarting'
      /\ ("timer" \in r => timers' = 0) /\ ("timer" \notin r => timers' = timers)
  BY <1>2, <1>8 DEF Calling, Expired, Restarting
<1>10. /\ Starting' <=> Starting \/ "timer" \in r
       /\ Calling \/ Waits("startInLoop") => Starting
  BY <1>4, <1>5, <1>9 DEF Starting
<1> HIDE DEF Starting, Calling, Expired, Restarting, Pollable
<1>11. OneInv'
  <2>1. r = {} \/ "timer" \in r \/ "close" \in r \/ "write" \in r \/ "error" \in r
    BY DEF Events
  <2> QED  BY <1>0, <1>1, <1>2, <1>3, <1>4, <1>5, <1>7, <1>8, <1>9, <1>10, <2>1 DEF OneInv
<1>12. ChannelInv'
  BY <1>0, <1>1, <1>2, <1>4, <1>5, <1>6, <1>8, <1>9, <1>10 DEF ChannelInv
<1>13. SocketInv'
  BY <1>1, <1>2, <1>3 DEF SocketInv
<1>14. AssertInv'
  BY <1>1, <1>2, <1>4, <1>6, <1>8, <1>9 DEF AssertInv
<1> QED  BY <1>11, <1>12, <1>13, <1>14

(* The swap and the end of a round leave alone what is to be done.         *)
LEMMA RoundStep ==
    ASSUME IInv, TypeOK', rushed # "pending", TakeFunctors \/ EndRound
    PROVE  OneInv' /\ ChannelInv' /\ SocketInv' /\ AssertInv'
<1>1. TypeOK /\ PhaseInv /\ OneInv /\ ChannelInv /\ SocketInv /\ AssertInv
  BY DEF IInv
<1>2. /\ phase # "restart" /\ phase' # "restart"
      /\ UNCHANGED <<state, channel, sock, connection, ready, timers, open, pc, called, client,
                     rushed, broken, failed>>
  BY DEF TakeFunctors, EndRound, connVars, clientVars, callVars, endVars
<1>3. Todo' = Todo /\ (connection # NoSocket => ~Queued("resetChannel")')
  <2>1. CASE TakeFunctors
    <3>1. Todo' = Todo
      BY <1>1, <2>1, TakeTodo DEF TakeFunctors, PhaseInv
    <3>2. ~Queued("resetChannel")'
      BY <2>1 DEF TakeFunctors, Queued, Has
    <3> QED  BY <3>1, <3>2
  <2>2. CASE EndRound
    <3>1. UNCHANGED <<batch, queue>> /\ phase = "functors"
      BY <2>2 DEF EndRound
    <3>2. Queued("resetChannel")' <=> Queued("resetChannel")
      BY <3>1 DEF Queued
    <3>3. connection # NoSocket => ~Queued("resetChannel")
      BY <1>1, <3>1 DEF ChannelInv
    <3> QED  BY <3>1, <3>2, <3>3, SameTodo
  <2> QED  BY <2>1, <2>2
<1>4. /\ \A m \in Names : Waits(m)' <=> Waits(m)
      /\ \A s \in Sockets : Doomed(s)' <=> Doomed(s)
      /\ Singly(Todo')
  BY <1>1, <1>3, Same DEF OneInv
<1>5. /\ (Waits("startInLoop")' <=> Waits("startInLoop"))
      /\ (Waits("resetChannel")' <=> Waits("resetChannel"))
      /\ (Waits("stopInLoop")' <=> Waits("stopInLoop"))
  BY <1>4 DEF Names
<1> HIDE DEF Waits, Doomed, Todo, Singly, Has, Queued
<1>6. (Calling' <=> Calling) /\ (Expired' <=> Expired) /\ (Restarting' <=> Restarting)
  BY <1>2 DEF Calling, Expired, Restarting
<1>7. Starting' <=> Starting
  BY <1>5, <1>6 DEF Starting
<1> HIDE DEF Starting, Calling, Expired, Restarting
<1>8. OneInv'
  BY <1>1, <1>2, <1>4, <1>5, <1>6, <1>7 DEF OneInv
<1>9. ChannelInv'
  BY <1>1, <1>2, <1>3, <1>5, <1>6, <1>7 DEF ChannelInv
<1>10. SocketInv'
  BY <1>1, <1>2, <1>4 DEF SocketInv
<1>11. AssertInv'
  BY <1>1, <1>2, <1>5, <1>6 DEF AssertInv
<1> QED  BY <1>8, <1>9, <1>10, <1>11

(* stop() and ~TcpClient queue a stop.                                     *)
LEMMA QueueStopStep ==
    ASSUME IInv, TypeOK', rushed # "pending", Push(<<Functor("stopInLoop")>>),
           UNCHANGED <<state, channel, sock, connection, open, timers, batch, phase, ready, rushed,
                       broken, failed>>,
           Calling' <=> Calling, "connect" \in called => "connect" \in called',
           client' = client \/ client' = "dtor"
    PROVE  OneInv' /\ ChannelInv' /\ SocketInv' /\ AssertInv'
<1>1. TypeOK /\ PhaseInv /\ OneInv /\ ChannelInv /\ SocketInv /\ AssertInv
  BY DEF IInv
<1>n. Singly(Todo) /\ {"startInLoop", "resetChannel", "stopInLoop"} \subseteq Names
  BY <1>1 DEF OneInv, Names
<1>2. /\ (Waits("startInLoop")' <=> Waits("startInLoop"))
      /\ (Waits("resetChannel")' <=> Waits("resetChannel"))
      /\ (Queued("resetChannel")' <=> Queued("resetChannel"))
      /\ Waits("stopInLoop")'
      /\ \A s \in Sockets : Doomed(s)' <=> Doomed(s)
      /\ Singly(Todo')
  BY <1>1, <1>n, PushName
<1> HIDE DEF Waits, Doomed, Todo, Singly, Has, Queued
<1>3. (Expired' <=> Expired) /\ (Restarting' <=> Restarting)
  BY DEF Expired, Restarting
<1>4. Starting' <=> Starting
  BY <1>2, <1>3 DEF Starting
<1> HIDE DEF Starting, Calling, Expired, Restarting
<1>5. OneInv'
  BY <1>1, <1>2, <1>3, <1>4 DEF OneInv
<1>6. ChannelInv'
  BY <1>1, <1>2, <1>3, <1>4 DEF ChannelInv
<1>7. SocketInv'
  BY <1>1, <1>2 DEF SocketInv
<1>8. AssertInv'
  BY <1>1, <1>2, <1>3 DEF AssertInv
<1> QED  BY <1>5, <1>6, <1>7, <1>8

(* The calls.                                                              *)
LEMMA CallStepOnLoop ==
    ASSUME IInv, TypeOK', rushed # "pending", NEW op \in Ops, CallOnLoop(op)
    PROVE  (rushed' # "pending" => OneInv' /\ ChannelInv' /\ SocketInv') /\ AssertInv'
<1>1. CASE op \in Connects
  BY <1>1, ConnectStep
<1>2. CASE op \notin Connects
  <2>1. /\ UNCHANGED <<state, channel, sock, connection, open, timers, batch, phase, ready, rushed,
                       broken, failed, client, pc>>
        /\ called' = called \union {op}
        /\ IF op = "stop" THEN Push(<<Functor("stopInLoop")>>) ELSE queue' = queue \o <<>>
    BY <1>2 DEF CallOnLoop, RushedBy, Calls, Connects, Push
  <2>2. Calling' <=> Calling
    BY <2>1 DEF Calling
  <2>3. queue \o <<>> = queue
    <3>1. queue \in Seq(Functors)
      BY TodoType DEF IInv
    <3> HIDE DEF Functors
    <3> QED  BY <3>1
  <2> HIDE DEF Calling
  <2>4. CASE op = "stop"
    BY <2>1, <2>2, <2>4, QueueStopStep
  <2>5. CASE op # "stop"
    BY <2>1, <2>2, <2>3, <2>5, IgnoreStep
  <2> QED  BY <2>4, <2>5
<1> QED  BY <1>1, <1>2

(* connect() begins in another thread when nothing else is under way.      *)
LEMMA BeginStep ==
    ASSUME IInv, TypeOK', rushed # "pending", NEW op \in Ops, CallBegins(op)
    PROVE  (rushed' # "pending" => OneInv' /\ ChannelInv' /\ SocketInv') /\ AssertInv'
<1>1. TypeOK /\ PhaseInv /\ OneInv /\ ChannelInv /\ SocketInv /\ AssertInv
  BY DEF IInv
<1>2. /\ pc = Idle /\ MayCall(op) /\ called' = Calls(op) /\ rushed' = RushedBy(op)
      /\ pc' = IF op = "disconnect" THEN Idle ELSE <<op, 1>>
      /\ UNCHANGED <<state, channel, sock, connection, open, timers, batch, queue, phase, ready,
                     broken, failed, client>>
  BY DEF CallBegins, connVars, loopVars
<1>3. client = "up" /\ op \notin called
  BY <1>2 DEF MayCall
<1>4. CASE op \notin Connects
  <2>1. /\ rushed' = rushed /\ called' = called \union {op}
    BY <1>2, <1>4 DEF RushedBy, Calls, Connects
  <2>2. Calling' <=> Calling
    BY <1>2, <1>4 DEF Calling, Idle, Connects
  <2> HIDE DEF Calling
  <2> QED  BY <1>2, <2>1, <2>2, IgnoreStep
<1>5. CASE op \in Connects /\ rushed' = "pending"
  BY <1>5 DEF AssertInv
<1>6. CASE op \in Connects /\ rushed' # "pending"
  <2>1. Calling' /\ ~Calling /\ "connect" \in called' /\ rushed = "nothing"
    <3>1. Calling' /\ ~Calling /\ "connect" \in called'
      BY <1>2, <1>6 DEF Calling, Idle, Connects, Calls
    <3>2. rushed = "nothing"
      BY <1>1, <1>3, <1>6 DEF PhaseInv, Connects
    <3> QED  BY <3>1, <3>2
  <2>2. /\ ready = {} /\ channel = "none" /\ connection = NoSocket /\ timers = 0
        /\ ~Waits("startInLoop") /\ phase # "restart"
    <3>1. CASE op = "connect"
      BY <1>1, <1>3, <3>1 DEF OneInv, Starting, Restarting
    <3>2. CASE op = "reconnect"
      <4>1. AtRest
        BY <1>2, <1>6, <3>2 DEF RushedBy
      <4> QED  BY <1>1, <4>1, RestFacts DEF AtRest
    <3> QED  BY <1>6, <3>1, <3>2 DEF Connects
  <2>3. rushed' = "nothing" => state = "kDisconnected"
    <3>1. CASE op = "connect"
      BY <1>1, <1>3, <3>1 DEF OneInv
    <3>2. CASE op = "reconnect"
      BY <1>2, <3>2 DEF RushedBy
    <3> QED  BY <1>6, <3>1, <3>2 DEF Connects
  <2>4. /\ \A m \in Names : Waits(m)' <=> Waits(m)
        /\ \A s \in Sockets : Doomed(s)' <=> Doomed(s)
        /\ Singly(Todo')
    BY <1>1, <1>2, SameTodo, Same DEF OneInv
  <2>5. /\ ~Waits("startInLoop")'
        /\ (Waits("resetChannel")' <=> Waits("resetChannel"))
    BY <2>2, <2>4 DEF Names
  <2> HIDE DEF Waits, Doomed, Todo, Singly, Has, Queued
  <2>6. ~Expired' /\ ~Restarting'
    BY <1>2, <2>2 DEF Expired, Restarting
  <2>7. sock = NoSocket
    BY <1>1, <2>2 DEF ChannelInv
  <2> HIDE DEF Starting, Calling, Expired, Restarting
  <2>8. OneInv'
    BY <1>2, <2>1, <2>2, <2>4, <2>5, <2>6, <2>7 DEF OneInv
  <2>9. ChannelInv'
    BY <1>1, <1>2, <1>3, <2>2, <2>5, <2>6, <2>7 DEF ChannelInv
  <2>10. SocketInv'
    BY <1>1, <1>2, <2>4 DEF SocketInv
  <2>11. AssertInv'
    BY <1>1, <1>2, <2>1, <2>3 DEF AssertInv
  <2> QED  BY <2>8, <2>9, <2>10, <2>11
<1> QED  BY <1>4, <1>5, <1>6

(* A call of another thread queues its functor.                            *)
LEMMA QueueStep ==
    ASSUME IInv, TypeOK', rushed # "pending", CallQueues
    PROVE  OneInv' /\ ChannelInv' /\ SocketInv' /\ AssertInv'
<1>1. TypeOK /\ PhaseInv /\ OneInv /\ ChannelInv /\ SocketInv /\ AssertInv
  BY DEF IInv
<1>2. /\ pc' = Idle
      /\ Push(<<Functor(IF pc[1] \in Connects THEN "startInLoop" ELSE "stopInLoop")>>)
      /\ UNCHANGED <<state, channel, sock, connection, open, timers, batch, phase, ready,
                     broken, failed, client, called, rushed>>
  BY DEF CallQueues, connVars, clientVars, endVars
<1>3. ~Calling'
  BY <1>2 DEF Calling, Idle, Connects
<1>4. CASE ~Calling
  <2>1. Push(<<Functor("stopInLoop")>>) /\ (Calling' <=> Calling)
    BY <1>2, <1>3, <1>4 DEF Calling
  <2> HIDE DEF Calling
  <2> QED  BY <1>2, <2>1, QueueStopStep
<1>5. CASE Calling
  <2>1. Push(<<Functor("startInLoop")>>)
    BY <1>2, <1>5 DEF Calling
  <2>2. Starting /\ ~Waits("startInLoop") /\ Singly(Todo) /\ ~Expired /\ ~Restarting
    BY <1>1, <1>5 DEF OneInv, Starting
  <2>3. /\ Waits("startInLoop")'
        /\ (Waits("resetChannel")' <=> Waits("resetChannel"))
        /\ (Waits("stopInLoop")' <=> Waits("stopInLoop"))
        /\ (Queued("resetChannel")' <=> Queued("resetChannel"))
        /\ \A s \in Sockets : Doomed(s)' <=> Doomed(s)
        /\ Singly(Todo')
    <3>1. {"startInLoop", "resetChannel", "stopInLoop"} \subseteq Names
      BY DEF Names
    <3> QED  BY <1>1, <1>2, <2>1, <2>2, <3>1, PushName
  <2> HIDE DEF Waits, Doomed, Todo, Singly, Has, Queued
  <2>4. ~Expired' /\ ~Restarting'
    BY <1>2, <2>2 DEF Expired, Restarting
  <2>5. Starting'
    BY <2>3 DEF Starting
  <2> HIDE DEF Starting, Calling, Expired, Restarting
  <2>6. OneInv'
    BY <1>1, <1>2, <1>3, <2>2, <2>3, <2>4, <2>5 DEF OneInv
  <2>7. ChannelInv'
    BY <1>1, <1>2, <2>2, <2>3, <2>4, <2>5 DEF ChannelInv
  <2>8. SocketInv'
    BY <1>1, <1>2, <2>3 DEF SocketInv
  <2>9. AssertInv'
    BY <1>1, <1>2, <1>5 DEF AssertInv
  <2> QED  BY <2>6, <2>7, <2>8, <2>9
<1> QED  BY <1>4, <1>5

(* The end of the client and of its connector.                             *)
LEMMA DtorStep ==
    ASSUME IInv, TypeOK', rushed # "pending", NEW unique \in BOOLEAN, Dtor(unique)
    PROVE  (rushed' # "pending" => OneInv' /\ ChannelInv' /\ SocketInv') /\ AssertInv'
<1>1. TypeOK /\ PhaseInv /\ FunctorInv /\ OneInv /\ ChannelInv /\ SocketInv /\ AssertInv
  BY DEF IInv
<1>2. /\ client = "up" /\ pc = Idle /\ "connect" \in called /\ phase \in {"handlers", "functors"}
      /\ UNCHANGED <<state, channel, sock, connection, open, timers, batch, phase, ready, pc, called>>
  BY <1>1 DEF Dtor, callVars, clientVars, TypeOK
<1>3. ~Calling /\ ~Calling'
  BY <1>2 DEF Calling, Idle, Connects
<1>4. CASE connection = NoSocket
  <2>1. /\ client' = "dtor" /\ Push(<<Functor("stopInLoop")>>) /\ UNCHANGED <<rushed, broken, failed>>
    BY <1>4 DEF Dtor
  <2> HIDE DEF Calling
  <2> QED  BY <1>2, <1>3, <2>1, QueueStopStep
<1>5. CASE connection # NoSocket /\ rushed' = "pending"
  BY <1>5 DEF AssertInv
<1>6. CASE connection # NoSocket /\ rushed' # "pending"
  <2>1. /\ client' = "gone" /\ channel = "none" /\ (rushed' = "nothing" => rushed = "nothing")
        /\ failed' = (failed \/ channel # "none") /\ broken' = (broken \/ channel = "added")
        /\ (Push(<<Functor("forceCloseInLoop")>>) \/ queue' = queue \o <<>>)
    BY <1>6 DEF Dtor, ConnectorGone, Push
  <2>2. (failed' <=> failed) /\ (broken' <=> broken)
    BY <2>1
  <2>3. /\ ~Waits("startInLoop") /\ ~Expired /\ ~Restarting /\ ~Starting /\ sock = NoSocket
        /\ timers = 0 /\ ~Waits("resetChannel")
    <3>1. ~Starting /\ ~(timers > 0) /\ timers \in Nat
      BY <1>1, <1>6 DEF OneInv, TypeOK
    <3> QED  BY <1>1, <2>1, <3>1 DEF Starting, ChannelInv
  <2>4. /\ ~Waits("startInLoop")' /\ ~Waits("resetChannel")'
        /\ (Queued("resetChannel")' <=> Queued("resetChannel"))
        /\ \A s \in Sockets : Doomed(s)' <=> Doomed(s)
        /\ Singly(Todo')
    <3>1. Singly(Todo) /\ {"startInLoop", "resetChannel", "forceCloseInLoop"} \subseteq Names
          /\ ~Waits("forceCloseInLoop")
      BY <1>1, <1>2 DEF OneInv, Names, FunctorInv
    <3>2. CASE Push(<<Functor("forceCloseInLoop")>>)
      BY <1>1, <1>2, <2>3, <3>1, <3>2, PushName
    <3>3. CASE queue' = queue \o <<>>
      <4>1. queue' = queue
        <5>1. queue \in Seq(Functors)
          BY TodoType DEF IInv
        <5> HIDE DEF Functors
        <5> QED  BY <3>3, <5>1
      <4>2. Queued("resetChannel")' <=> Queued("resetChannel")
        BY <4>1 DEF Queued
      <4> QED  BY <1>2, <2>3, <3>1, <4>1, <4>2, SameTodo, Same
    <3> QED  BY <2>1, <3>2, <3>3
  <2> HIDE DEF Waits, Doomed, Todo, Singly, Has, Queued
  <2>5. ~Expired' /\ ~Restarting' /\ ~Starting'
    BY <1>2, <1>3, <2>3, <2>4 DEF Expired, Restarting, Starting
  <2> HIDE DEF Starting, Calling, Expired, Restarting
  <2>6. OneInv'
    BY <1>1, <1>2, <1>3, <2>3, <2>4, <2>5 DEF OneInv
  <2>7. ChannelInv'
    BY <1>1, <1>2, <2>1, <2>3, <2>4, <2>5 DEF ChannelInv
  <2>8. SocketInv'
    BY <1>1, <1>2, <2>4 DEF SocketInv
  <2>9. AssertInv'
    BY <1>1, <1>2, <1>3, <2>1, <2>2, <2>3, <2>4, <2>5 DEF AssertInv
  <2> QED  BY <2>6, <2>7, <2>8, <2>9
<1> QED  BY <1>4, <1>5, <1>6

(* ~Connector comes when nothing of an attempt is left.                    *)
LEMMA ConnectorDtorStep ==
    ASSUME IInv, TypeOK', rushed # "pending", ConnectorDtor
    PROVE  OneInv' /\ ChannelInv' /\ SocketInv' /\ AssertInv'
<1>1. TypeOK /\ PhaseInv /\ OneInv /\ ChannelInv /\ SocketInv /\ AssertInv
  BY DEF IInv
<1>2. /\ client = "dtor" /\ phase = "poll" /\ queue = <<>> /\ timers = 0 /\ client' = "gone"
      /\ failed' = (failed \/ channel # "none") /\ broken' = (broken \/ channel = "added")
      /\ UNCHANGED <<state, channel, sock, connection, open, timers, batch, queue, phase, ready,
                     pc, called, rushed>>
  BY DEF ConnectorDtor, ConnectorGone, connVars, clientVars, loopVars, callVars
<1>3. /\ \A m \in Names : ~Waits(m) /\ ~Waits(m)' /\ ~Queued(m)'
      /\ \A s \in Sockets : Doomed(s)' <=> Doomed(s)
      /\ Singly(Todo')
  <2>1. batch = <<>>
    BY <1>1, <1>2 DEF PhaseInv
  <2>2. Todo = <<>> /\ Todo' = Todo
    BY <1>1, <1>2, <2>1, QueueIsTodo, SameTodo
  <2>3. \A y : ~ Has(<<>>, y)
    BY DEF Has
  <2> QED  BY <1>1, <1>2, <2>2, <2>3 DEF Waits, Queued, Doomed, OneInv
<1>4. {"startInLoop", "resetChannel", "stopInLoop"} \subseteq Names
  BY DEF Names
<1> HIDE DEF Waits, Doomed, Todo, Singly, Has, Queued
<1>5. channel = "none"
  BY <1>1, <1>2, <1>3, <1>4 DEF ChannelInv, TypeOK
<1>6. (failed' <=> failed) /\ (broken' <=> broken)
  BY <1>2, <1>5
<1>7. ready = {} /\ pc = Idle
  BY <1>1, <1>2 DEF PhaseInv
<1>8. ~Calling' /\ ~Expired' /\ ~Restarting' /\ ~Waits("startInLoop")' /\ ~Starting'
  BY <1>2, <1>3, <1>4, <1>7 DEF Calling, Expired, Restarting, Starting, Idle, Connects
<1>9. "connect" \in called
  BY <1>1, <1>2 DEF PhaseInv
<1> HIDE DEF Starting, Calling, Expired, Restarting
<1>10. OneInv'
  BY <1>1, <1>2, <1>3, <1>8, <1>9 DEF OneInv
<1>11. ChannelInv'
  BY <1>1, <1>2, <1>3, <1>4, <1>5, <1>7, <1>8 DEF ChannelInv
<1>12. SocketInv'
  BY <1>1, <1>2, <1>3 DEF SocketInv
<1>13. AssertInv'
  BY <1>1, <1>2, <1>6, <1>8 DEF AssertInv
<1> QED  BY <1>10, <1>11, <1>12, <1>13

(* Steps that touch no attempt, socket or functor.                         *)
LEMMA QuietStep ==
    ASSUME IInv, rushed # "pending", CallSets \/ ServerComesUp \/ UNCHANGED vars
    PROVE  OneInv' /\ ChannelInv' /\ SocketInv' /\ AssertInv'
<1>1. /\ UNCHANGED <<state, channel, sock, connection, open, timers, batch, queue, phase, ready,
                     client, called, rushed, broken, failed>>
      /\ pc'[1] = pc[1]
  BY DEF CallSets, ServerComesUp, vars, connVars, clientVars, loopVars, callVars, endVars
<1>2. Calling' <=> Calling
  BY <1>1 DEF Calling
<1> HIDE DEF Calling
<1> QED  BY <1>1, <1>2, IgnoreStep

-----------------------------------------------------------------------------
(* What was rushed stays so: connect() is not called a third time, and     *)
(* nothing is called on a client that is gone.                             *)
LEMMA PendingStays ==
    ASSUME TypeOK, PhaseInv, rushed = "pending", [Next]_vars
    PROVE  rushed' = "pending"
<1>1. client = "gone" \/ "reconnect" \in called
  BY DEF PhaseInv
<1>2. ASSUME NEW op \in Ops, CallOnLoop(op) \/ CallBegins(op) PROVE rushed' = "pending"
  <2>1. rushed' = RushedBy(op) /\ client = "up" /\ op \notin called
    BY <1>2 DEF CallOnLoop, CallBegins, MayCall
  <2> QED  BY <1>1, <2>1 DEF RushedBy
<1>3. ASSUME NEW unique \in BOOLEAN, Dtor(unique) PROVE rushed' = "pending"
  BY <1>3 DEF Dtor
<1>4. CASE \E r \in SUBSET Events : Poll(r)
  BY <1>4 DEF Poll, endVars
<1>5. CASE Handle
  BY <1>5 DEF Handle, HandleWrite, HandleError, HandleClose, Restart, HandleTimer, endVars
<1>6. CASE TakeFunctors \/ RunStart \/ RunStop \/ RunReset \/ RunForceClose \/ RunDestroyed \/ EndRound
  BY <1>6 DEF TakeFunctors, RunStart, RunStop, RunReset, RunForceClose, RunDestroyed, EndRound, endVars
<1>7. CASE CallSets \/ CallQueues \/ ConnectorDtor \/ ServerComesUp \/ UNCHANGED vars
  BY <1>7 DEF CallSets, CallQueues, ConnectorDtor, ServerComesUp, vars, endVars
<1> QED  BY <1>2, <1>3, <1>4, <1>5, <1>6, <1>7
         DEF Next, Polls, LoopStep, CallStep, CallNext, EndNext, Undefined

(* Every step keeps what holds of the attempts.                            *)
LEMMA AttemptStep ==
    IInv /\ [Next]_vars =>
       (rushed' # "pending" => OneInv' /\ ChannelInv' /\ SocketInv') /\ AssertInv'
<1> SUFFICES ASSUME IInv, [Next]_vars
             PROVE  (rushed' # "pending" => OneInv' /\ ChannelInv' /\ SocketInv') /\ AssertInv'
  OBVIOUS
<1>1. TypeOK /\ PhaseInv
  BY DEF IInv
<1>2. TypeOK'
  BY <1>1, TypeStep
<1>3. CASE rushed = "pending"
  BY <1>1, <1>3, PendingStays DEF AssertInv
<1>4. CASE rushed # "pending"
  <2>1. CASE \E r \in SUBSET Events : Poll(r)
    BY <1>2, <1>4, <2>1, PollStep
  <2>2. CASE Handle
    BY <1>2, <1>4, <2>2, WriteStep, ErrorStep, CloseStep, RestartStep, TimerStep DEF Handle
  <2>3. CASE TakeFunctors \/ RunStart \/ RunStop \/ RunReset \/ RunForceClose \/ RunDestroyed \/ EndRound
    BY <1>2, <1>4, <2>3, RoundStep, RunStartStep, RunStopStep, ResetStep, ForceCloseStep, DestroyedStep
  <2>4. ASSUME NEW op \in Ops, CallOnLoop(op) \/ CallBegins(op)
        PROVE  (rushed' # "pending" => OneInv' /\ ChannelInv' /\ SocketInv') /\ AssertInv'
    BY <1>2, <1>4, <2>4, CallStepOnLoop, BeginStep
  <2>5. ASSUME NEW unique \in BOOLEAN, Dtor(unique)
        PROVE  (rushed' # "pending" => OneInv' /\ ChannelInv' /\ SocketInv') /\ AssertInv'
    BY <1>2, <1>4, <2>5, DtorStep
  <2>6. CASE CallQueues \/ ConnectorDtor
    BY <1>2, <1>4, <2>6, QueueStep, ConnectorDtorStep
  <2>7. CASE CallSets \/ ServerComesUp \/ UNCHANGED vars
    BY <1>4, <2>7, QuietStep
  <2> QED  BY <2>1, <2>2, <2>3, <2>4, <2>5, <2>6, <2>7
           DEF Next, Polls, LoopStep, CallStep, CallNext, EndNext, Undefined
<1> QED  BY <1>3, <1>4

(* The constructors establish the invariant.                               *)
LEMMA InitOK == Init => IInv
<1> SUFFICES ASSUME Init PROVE IInv
  OBVIOUS
<1>0. NoSocket = 0 /\ NoSocket \notin Sockets
  BY SocketAssumption DEF NoSocket, Sockets
<1>1. TypeOK
  <2>1. queue \in Seq(Functors) /\ batch \in Seq(Functors)
    BY NamesType DEF Init
  <2>2. delay \in InitRetryDelay..MaxRetryDelay
    BY DelayAssumption DEF Init
  <2> QED  BY <2>1, <2>2 DEF Init, TypeOK, States
<1>2. Todo = <<>>
  BY DEF Init, Todo
<1>3. \A y : ~ Has(Todo, y) /\ ~ Has(queue, y)
  BY <1>2 DEF Has, Init
<1>4. Singly(Todo)
  BY <1>2 DEF Singly
<1>5. (\A n : ~Waits(n) /\ ~Queued(n)) /\ \A s : ~Doomed(s)
  BY <1>3 DEF Waits, Queued, Doomed
<1>6. ~Starting /\ ~Calling /\ ~Expired /\ ~Restarting
  BY <1>5 DEF Init, Starting, Calling, Expired, Restarting, Idle, Connects
<1>7. PhaseInv /\ FunctorInv /\ StopInv
  BY <1>3, <1>5, <1>6 DEF Init, PhaseInv, FunctorInv, StopInv
<1> HIDE DEF Starting, Calling, Expired, Restarting, Waits, Doomed, Todo, Singly, Has, Queued
<1>8. OneInv
  BY <1>4, <1>5, <1>6 DEF Init, OneInv
<1>9. ChannelInv
  BY <1>0, <1>5, <1>6 DEF Init, ChannelInv
<1>10. SocketInv
  BY <1>0, <1>5 DEF Init, SocketInv
<1>11. AssertInv
  BY <1>5, <1>6 DEF Init, AssertInv
<1> QED  BY <1>1, <1>7, <1>8, <1>9, <1>10, <1>11 DEF IInv

(* The invariant is inductive.                                             *)
THEOREM Invariance == Spec => []IInv
<1>1. IInv /\ [Next]_vars => IInv'
  BY TypeStep, PhaseStep, FunctorStep, StopStep, AttemptStep DEF IInv
<1> QED  BY <1>1, InitOK, PTL DEF Spec

(* No assert of Connector, TcpClient or ~Channel fails, no channel is      *)
(* destroyed under the poller and no functor runs on a destroyed connector *)
(* unless connect() or ~TcpClient comes too early.                         *)
THEOREM NoAssertFailsHolds == Spec => []NoAssertFails
<1>1. IInv => NoAssertFails
  BY DEF IInv, AssertInv, NoAssertFails
<1> QED  BY <1>1, Invariance, PTL

(* The functors of the round and of the queue.                             *)
LEMMA HasEither ==
    ASSUME TypeOK
    PROVE  \A y : Has(Todo, y) <=> Has(batch, y) \/ Has(queue, y)
<1> DEFINE n == Len(batch)
           k == Len(queue)
<1>1. batch \in Seq(Functors) /\ queue \in Seq(Functors)
  BY TodoType
<1>2. /\ n \in Nat /\ k \in Nat /\ Len(Todo) = n + k
      /\ \A i \in 1..n : Todo[i] = batch[i]
      /\ \A i \in (n + 1)..(n + k) : Todo[i] = queue[i - n]
  <2> HIDE DEF Functors
  <2> QED  BY <1>1 DEF Todo
<1> HIDE DEF n, k
<1>3. /\ \A i \in 1..(n + k) : i \in 1..n \/ (i \in (n + 1)..(n + k) /\ i - n \in 1..k)
      /\ \A i \in 1..n : i \in 1..(n + k)
      /\ \A i \in 1..k : n + i \in (n + 1)..(n + k) /\ n + i \in 1..(n + k) /\ (n + i) - n = i
  BY <1>2
<1>4. ASSUME NEW y, Has(Todo, y) PROVE Has(batch, y) \/ Has(queue, y)
  <2>1. PICK i \in 1..(n + k) : Todo[i] = y
    BY <1>2, <1>4 DEF Has
  <2> QED  BY <1>2, <1>3, <2>1 DEF Has, n, k
<1>5. ASSUME NEW y, Has(batch, y) PROVE Has(Todo, y)
  BY <1>2, <1>3, <1>5 DEF Has, n
<1>6. ASSUME NEW y, Has(queue, y) PROVE Has(Todo, y)
  <2>1. PICK i \in 1..k : queue[i] = y
    BY <1>6 DEF Has, k
  <2>2. Todo[n + i] = queue[(n + i) - n]
    BY <1>2, <1>3
  <2> QED  BY <1>2, <1>3, <2>1, <2>2 DEF Has
<1> QED  BY <1>4, <1>5, <1>6

(* Every open descriptor has one owner, and nothing connects for a client  *)
(* that is gone.                                                           *)
THEOREM SocketsOwnedHolds == Spec => []SocketsOwned
<1>1. IInv => SocketsOwned
  <2> SUFFICES ASSUME IInv, rushed # "pending"
               PROVE  /\ open = ({sock, connection} \ {NoSocket}) \union InDestruction
                      /\ sock # NoSocket => sock # connection /\ sock \notin InDestruction
                      /\ connection \notin InDestruction
                      /\ sock # NoSocket <=> channel = "added"
                      /\ client = "gone" => channel = "none"
    BY DEF IInv, SocketsOwned
  <2>0. NoSocket = 0 /\ NoSocket \notin Sockets
    BY SocketAssumption DEF NoSocket, Sockets
  <2>1. TypeOK /\ FunctorInv /\ OneInv /\ ChannelInv /\ SocketInv
    BY DEF IInv
  <2>2. InDestruction = {s \in Sockets : Doomed(s)}
    <3>1. ASSUME NEW s \in InDestruction PROVE s \in Sockets /\ Doomed(s)
      <4>1. PICK f : (Has(batch, f) \/ Has(queue, f)) /\ f[2] = s /\ s # NoSocket
        BY DEF InDestruction, Has
      <4>2. Has(Todo, f)
        BY <2>1, <4>1, HasEither
      <4>3. f \in Functors
        <5>1. Todo \in Seq(Functors)
          BY <2>1, TodoType
        <5> HIDE DEF Functors
        <5> QED  BY <4>2, <5>1 DEF Has
      <4>4. f[1] = "connectDestroyed"
        BY <2>1, <4>1, <4>2, <4>3 DEF FunctorInv
      <4>5. s \in Sockets /\ f = <<"connectDestroyed", s>>
        BY <4>1, <4>3, <4>4 DEF Functors
      <4> QED  BY <4>2, <4>5 DEF Doomed
    <3>2. ASSUME NEW s \in Sockets, Doomed(s) PROVE s \in InDestruction
      <4> DEFINE f == <<"connectDestroyed", s>>
      <4>1. f[2] = s /\ s # NoSocket
        BY <2>0
      <4>2. Has(batch, f) \/ Has(queue, f)
        BY <2>1, <3>2, HasEither DEF Doomed
      <4> HIDE DEF f
      <4> QED  BY <4>1, <4>2 DEF InDestruction, Has
    <3> QED  BY <3>1, <3>2
  <2>3. /\ open \subseteq Sockets /\ sock \in Sockets \union {NoSocket}
        /\ connection \in Sockets \union {NoSocket}
    BY <2>1 DEF TypeOK
  <2>4. \A s \in Sockets : /\ s \in open <=> s = sock \/ s = connection \/ Doomed(s)
                           /\ Doomed(s) => s # sock /\ s # connection
    BY <2>1 DEF SocketInv
  <2> HIDE DEF InDestruction, Doomed
  <2>5. open = ({sock, connection} \ {NoSocket}) \union InDestruction
    BY <2>0, <2>2, <2>3, <2>4
  <2>6. sock # NoSocket => sock # connection /\ sock \notin InDestruction
    BY <2>1, <2>2, <2>4 DEF OneInv
  <2>7. connection \notin InDestruction
    BY <2>2, <2>4
  <2>8. (sock # NoSocket <=> channel = "added") /\ (client = "gone" => channel = "none")
    BY <2>1 DEF ChannelInv
  <2> QED  BY <2>5, <2>6, <2>7, <2>8
<1> QED  BY <1>1, Invariance, PTL

(* A set with at most one element.                                         *)
LEMMA AtMostOne ==
    ASSUME NEW S, \A x, y \in S : x = y
    PROVE  /\ Cardinality(S) \in {0, 1}
           /\ Cardinality(S) = 1 <=> S # {}
<1>1. CASE S = {}
  BY <1>1, FS_EmptySet
<1>2. CASE S # {}
  <2>1. PICK x : S = {x}
    BY <1>2
  <2> QED  BY <2>1, FS_Singleton
<1> QED  BY <1>1, <1>2

(* A start is queued once.                                                 *)
LEMMA StartsFacts ==
    ASSUME TypeOK, Singly(Todo)
    PROVE  StartsQueued \in {0, 1} /\ (StartsQueued = 1 <=> Waits("startInLoop"))
<1> DEFINE S == Functor("startInLoop")
           n == Len(batch)
           k == Len(queue)
           A == {i \in 1..k : queue[i] = S}
           B == {i \in 1..n : batch[i] = S}
<1>0. S[1] # "stopInLoop"
  BY DEF Functor
<1>1. batch \in Seq(Functors) /\ queue \in Seq(Functors)
  BY TodoType
<1>2. /\ n \in Nat /\ k \in Nat /\ Len(Todo) = n + k
      /\ \A i \in 1..n : Todo[i] = batch[i]
      /\ \A i \in 1..k : Todo[n + i] = queue[i]
  <2> HIDE DEF Functors, S
  <2> QED  BY <1>1 DEF Todo
<1>3. Has(Todo, S) <=> Has(batch, S) \/ Has(queue, S)
  BY HasEither
<1> HIDE DEF S, n, k
<1>4. /\ \A i \in 1..n : i \in 1..(n + k)
      /\ \A i \in 1..k : n + i \in 1..(n + k)
      /\ \A i \in 1..k, j \in 1..k : n + i = n + j => i = j
      /\ \A i \in 1..n, j \in 1..k : i # n + j
  BY <1>2
<1>5. \A i, j \in 1..(n + k) : Todo[i] = S /\ Todo[j] = S => i = j
  BY <1>0, <1>2 DEF Singly
<1>6. \A x, y \in B : x = y
  BY <1>2, <1>4, <1>5
<1>7. \A x, y \in A : x = y
  BY <1>2, <1>4, <1>5
<1>8. A = {} \/ B = {}
  BY <1>2, <1>4, <1>5
<1>9. (Has(batch, S) <=> B # {}) /\ (Has(queue, S) <=> A # {})
  BY DEF Has, n, k
<1> HIDE DEF A, B
<1>10. /\ Cardinality(A) \in {0, 1} /\ (Cardinality(A) = 1 <=> A # {})
       /\ Cardinality(B) \in {0, 1} /\ (Cardinality(B) = 1 <=> B # {})
  BY <1>6, <1>7, AtMostOne
<1>11. StartsQueued = Cardinality(A) + Cardinality(B)
  BY DEF StartsQueued, A, B, S, n, k
<1>12. Waits("startInLoop") <=> A # {} \/ B # {}
  BY <1>3, <1>9 DEF Waits, S
<1> HIDE DEF Waits
<1> QED  BY <1>8, <1>10, <1>11, <1>12

(* There is one attempt at a time.                                         *)
THEOREM OneAttemptHolds == Spec => []OneAttempt
<1>1. IInv => OneAttempt
  <2> DEFINE T == Cardinality({x \in {"timer"} : x \in ready})
             S == Cardinality({x \in {sock, connection} : x # NoSocket})
             R == Cardinality({x \in {"restart"} : x = phase})
  <2> SUFFICES ASSUME IInv, rushed # "pending"
               PROVE  timers + StartsQueued + T + S + R <= 1
    BY DEF OneAttempt
  <2>1. TypeOK /\ OneInv
    BY DEF IInv
  <2>2. StartsQueued \in {0, 1} /\ (StartsQueued = 1 <=> Waits("startInLoop"))
    BY <2>1, StartsFacts DEF OneInv
  <2>3. T \in {0, 1} /\ (T = 1 <=> Expired)
    <3> DEFINE X == {x \in {"timer"} : x \in ready}
    <3>1. (\A x, y \in X : x = y) /\ (X # {} <=> Expired)
      BY DEF Expired
    <3> HIDE DEF X
    <3>2. Cardinality(X) \in {0, 1} /\ (Cardinality(X) = 1 <=> X # {})
      BY <3>1, AtMostOne
    <3> QED  BY <3>1, <3>2 DEF X
  <2>4. R \in {0, 1} /\ (R = 1 <=> Restarting)
    <3> DEFINE X == {x \in {"restart"} : x = phase}
    <3>1. (\A x, y \in X : x = y) /\ (X # {} <=> Restarting)
      BY DEF Restarting
    <3> HIDE DEF X
    <3>2. Cardinality(X) \in {0, 1} /\ (Cardinality(X) = 1 <=> X # {})
      BY <3>1, AtMostOne
    <3> QED  BY <3>1, <3>2 DEF X
  <2>5. S \in {0, 1} /\ (S = 1 <=> sock # NoSocket \/ connection # NoSocket)
    <3> DEFINE X == {x \in {sock, connection} : x # NoSocket}
    <3>1. (\A x, y \in X : x = y) /\ (X # {} <=> sock # NoSocket \/ connection # NoSocket)
      BY <2>1 DEF OneInv
    <3> HIDE DEF X
    <3>2. Cardinality(X) \in {0, 1} /\ (Cardinality(X) = 1 <=> X # {})
      BY <3>1, AtMostOne
    <3> QED  BY <3>1, <3>2 DEF X
  <2> HIDE DEF T, S, R, Waits, Expired, Restarting, StartsQueued
  <2>6. timers \in Nat /\ timers <= 1
    BY <2>1 DEF TypeOK, OneInv
  <2>7. /\ timers > 0 => StartsQueued = 0 /\ T = 0 /\ R = 0 /\ S = 0
        /\ StartsQueued = 1 => T = 0 /\ R = 0 /\ S = 0
        /\ T = 1 => R = 0 /\ S = 0
        /\ R = 1 => S = 0
    BY <2>1, <2>2, <2>3, <2>4, <2>5 DEF OneInv, Starting
  <2> QED  BY <2>2, <2>3, <2>4, <2>5, <2>6, <2>7
<1> QED  BY <1>1, Invariance, PTL
=============================================================================
