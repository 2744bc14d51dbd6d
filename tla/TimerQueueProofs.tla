-------------------------- MODULE TimerQueueProofs --------------------------
(***************************************************************************)
(* Proofs about TimerQueue for every number of addresses, threads, delays  *)
(* and timers.  What makes the queue correct is ownership: a Timer that    *)
(* exists is reachable from at most one of timers_, the vector of          *)
(* handleRead and a queued addTimerInLoop.                                 *)
(***************************************************************************)
EXTENDS TimerQueue, TLAPS, FiniteSetTheorems, SequenceTheorems

(* Both sets hold the same timers, each under its own expiration.          *)
QueueInv ==
    /\ \A a \in Addrs : heap[a].seq <= created
    /\ \A e \in timers : heap[e[2]].seq # 0 /\ heap[e[2]].expiration = e[1]
    /\ active = {<<e[2], heap[e[2]].seq>> : e \in timers}

(* The timers handleRead took out exist and are in neither set.            *)
ExpiredInv ==
    /\ ~calling => expired = {}
    /\ \A id \in expired : Live(id) /\ \A e \in timers : e[2] # id[1]

(* So do those on their way to the loop, each in one functor.              *)
AddInv(r) == r.op = "add" =>
    /\ Live(r.id)
    /\ \A e \in timers : e[2] # r.id[1]
    /\ \A id \in expired : id[1] # r.id[1]
PendingInv ==
    /\ \A i \in 1..Len(pending) : AddInv(pending[i])
    /\ \A i, j \in 1..Len(pending) :
          pending[i].op = "add" /\ pending[j].op = "add" /\ pending[i].id[1] = pending[j].id[1]
             => i = j

(* A cancelled timer is deleted, or expired and marked for deletion.       *)
CancelledInv(id) ==
    /\ id[2] # 0 /\ id[2] <= created
    /\ Live(id) => id \in expired /\ id \in canceling
CancelInv == \A id \in cancelled : CancelledInv(id)

(* Between two calls of handleRead the timerfd is armed for the timers.    *)
ArmedInv == ~calling /\ timers # {} => timerfd # Off

IInv == TypeOK /\ QueueInv /\ ExpiredInv /\ PendingInv /\ CancelInv /\ ArmedInv

-----------------------------------------------------------------------------
(* Ticks is closed under what the actions do to an expiration.             *)
LEMMA TickFacts ==
    /\ Ticks \subseteq Int /\ Past \in Ticks /\ 0 \in Ticks
    /\ Delays \subseteq Ticks /\ Intervals \subseteq Ticks
    /\ \A t \in Ticks : Arm(t) \in Ticks /\ Arm(t) \in Nat
    /\ \A t \in Ticks, n \in Nat : Minus(t, n) \in Ticks
    /\ \A t \in Ticks : AtLeast(t - 1, 0) \in Ticks
    /\ IsFiniteSet(Ticks)
    /\ Longest \in Nat /\ Ticks = Past..Longest
<1> DEFINE times == Delays \union Intervals \union {1}
<1>1. times \subseteq Nat /\ Longest \in times /\ \A d \in times : d <= Longest
  BY TickAssumption DEF Longest
<1>2. Ticks = Past..Longest /\ Longest \in Nat /\ 1 <= Longest /\ Past = -1
  BY <1>1 DEF Ticks, Past
<1>3. IsFiniteSet(Ticks)
  BY <1>2, FS_Interval
<1>4. Delays \subseteq Ticks /\ Intervals \subseteq Ticks
  BY <1>1, <1>2
<1>5. QED
  BY <1>2, <1>3, <1>4 DEF Arm, AtLeast, Minus

Timers == [seq : 0..MaxCreated, expiration : Ticks, interval : Ticks]

(* A free address is a Timer that was never made.                          *)
LEMMA FreeType == Free \in Timers
BY TickFacts, BoundAssumption DEF Free, Timers

(* The constructor establishes the invariant.                              *)
LEMMA InvInit == Init => IInv
<1> SUFFICES ASSUME Init PROVE IInv
  OBVIOUS
<1>1. TypeOK
  <2>1. heap \in [Addrs -> Timers]
    BY FreeType DEF Init
  <2>2. since \in 0..(Longest + 1) /\ created \in 0..MaxCreated
    BY TickFacts, BoundAssumption DEF Init
  <2>3. adding \in [Posters -> Ids \union {<<>>}] /\ pending \in Seq(Requests)
    BY DEF Init
  <2>4. QED
    BY <2>1, <2>2, <2>3 DEF Init, TypeOK, Timers
<1>2. QueueInv /\ ExpiredInv /\ PendingInv /\ CancelInv /\ ArmedInv
  BY BoundAssumption DEF Init, QueueInv, ExpiredInv, PendingInv, CancelInv, ArmedInv, Free
<1>3. QED
  BY <1>1, <1>2 DEF IInv

(* A queued functor is a request, and RunFunctor takes the oldest.         *)
LEMMA PendingFacts ==
    ASSUME TypeOK
    PROVE  /\ Len(pending) \in Nat
           /\ \A i \in 1..Len(pending) :
                 pending[i].op \in {"add", "cancel"} /\ pending[i].id \in Ids
           /\ \A r \in Requests :
                 /\ Append(pending, r) \in Seq(Requests)
                 /\ Len(Append(pending, r)) = Len(pending) + 1
                 /\ Append(pending, r)[Len(pending) + 1] = r
                 /\ \A i \in 1..Len(pending) : Append(pending, r)[i] = pending[i]
           /\ pending # <<>> =>
                 /\ Tail(pending) \in Seq(Requests)
                 /\ Len(pending) > 0
                 /\ Len(Tail(pending)) = Len(pending) - 1
                 /\ Head(pending) = pending[1]
                 /\ \A i \in 1..(Len(pending) - 1) : Tail(pending)[i] = pending[i + 1]
<1>1. pending \in Seq(Requests)
  BY DEF TypeOK
<1>2. \A r \in Requests : r.op \in {"add", "cancel"} /\ r.id \in Ids
  BY DEF Requests
<1>3. QED
  BY <1>1, <1>2

(* cancelInLoop takes a timer out of the sets and deletes it, or marks it. *)
LEMMA CancelType ==
    ASSUME TypeOK, NEW id \in Ids, CancelInLoop(id)
    PROVE  /\ heap' \in [Addrs -> Timers]
           /\ timers' \subseteq Ticks \X Addrs
           /\ active' \subseteq Ids /\ canceling' \subseteq Ids /\ cancelled' \subseteq Ids
<1>1. /\ heap \in [Addrs -> Timers] /\ timers \subseteq Ticks \X Addrs
      /\ active \subseteq Ids /\ canceling \subseteq Ids /\ cancelled \subseteq Ids
  BY DEF TypeOK, Timers
<1>2. QED
  BY <1>1, FreeType DEF CancelInLoop

(* addTimerInLoop puts it in both.                                         *)
LEMMA AddType ==
    ASSUME TypeOK, NEW id \in Ids, NEW when \in Ticks, AddTimerInLoop(id, when)
    PROVE  /\ timers' \subseteq Ticks \X Addrs /\ active' \subseteq Ids
           /\ timerfd' \in Ticks \union {Off} /\ canceling' = canceling
<1>1. /\ timers \subseteq Ticks \X Addrs /\ active \subseteq Ids
      /\ timerfd \in Ticks \union {Off}
  BY DEF TypeOK
<1>2. id[1] \in Addrs /\ Arm(when) \in Ticks
  BY TickFacts DEF Ids
<1>3. QED
  BY <1>1, <1>2 DEF AddTimerInLoop

(* new Timer takes the next sequence number.                               *)
LEMMA NewType ==
    ASSUME TypeOK, NEW a \in Addrs, NEW d \in Delays, NEW i \in Intervals, NewTimer(a, d, i)
    PROVE  /\ created' = created + 1 /\ created' \in 0..MaxCreated /\ created \in Nat
           /\ <<a, created + 1>> \in Ids
           /\ heap' \in [Addrs -> Timers]
<1>1. created \in 0..MaxCreated /\ created < MaxCreated /\ created' = created + 1
  BY DEF TypeOK, NewTimer
<1>2. created + 1 \in 0..MaxCreated
  BY <1>1, BoundAssumption
<1>3. [seq |-> created + 1, expiration |-> d, interval |-> i] \in Timers
  BY <1>2, TickFacts DEF Timers
<1>4. heap \in [Addrs -> Timers]
  BY DEF TypeOK, Timers
<1>5. QED
  BY <1>1, <1>2, <1>3, <1>4 DEF NewTimer, Ids

(* Types.                                                                  *)
LEMMA TypeStep == IInv /\ [Next]_vars => TypeOK'
<1> SUFFICES ASSUME IInv, [Next]_vars PROVE TypeOK'
  OBVIOUS
<1>0. TypeOK
  BY DEF IInv
<1>a. heap \in [Addrs -> Timers]
  BY <1>0 DEF TypeOK, Timers
<1>b. Longest \in Nat /\ 0 \in 0..(Longest + 1)
  BY TickFacts
<1> USE DEF sets, batch
<1>1. ASSUME NEW a \in Addrs, NEW d \in Delays, NEW i \in Intervals, AddTimerOnLoop(a, d, i)
      PROVE  TypeOK'
  <2>1. NewTimer(a, d, i) /\ AddTimerInLoop(<<a, created + 1>>, d)
    BY <1>1 DEF AddTimerOnLoop
  <2>2. /\ created' \in 0..MaxCreated /\ heap' \in [Addrs -> Timers] /\ <<a, created + 1>> \in Ids
    BY <1>0, <2>1, NewType
  <2>3. d \in Ticks
    BY TickFacts
  <2>4. /\ timers' \subseteq Ticks \X Addrs /\ active' \subseteq Ids
        /\ timerfd' \in Ticks \union {Off} /\ canceling' = canceling
    BY <1>0, <2>1, <2>2, <2>3, AddType
  <2>5. /\ ids' = ids \union {<<a, created + 1>>}
        /\ UNCHANGED <<calling, expired, toRun, since, polled, pending, adding, cancelled>>
    BY <1>1 DEF AddTimerOnLoop
  <2>6. QED
    BY <1>0, <2>2, <2>4, <2>5 DEF TypeOK, Timers
<1>2. ASSUME NEW p \in Posters, NEW a \in Addrs, NEW d \in Delays, NEW i \in Intervals,
             AddTimer(p, a, d, i)
      PROVE  TypeOK'
  <2>1. NewTimer(a, d, i)
    BY <1>2 DEF AddTimer
  <2>2. /\ created' \in 0..MaxCreated /\ heap' \in [Addrs -> Timers] /\ <<a, created + 1>> \in Ids
    BY <1>0, <2>1, NewType
  <2>3. [op |-> "add", id |-> <<a, created + 1>>] \in Requests
    BY <2>2 DEF Requests
  <2>4. pending' \in Seq(Requests)
    BY <1>0, <1>2, <2>3, PendingFacts DEF AddTimer
  <2>5. /\ adding' = [adding EXCEPT ![p] = <<a, created + 1>>]
        /\ UNCHANGED <<timers, active, canceling, calling, expired, toRun, since, timerfd,
                       polled, ids, cancelled>>
    BY <1>2 DEF AddTimer
  <2>6. adding' \in [Posters -> Ids \union {<<>>}]
    BY <1>0, <2>2, <2>5 DEF TypeOK
  <2>7. QED
    BY <1>0, <2>2, <2>4, <2>5, <2>6 DEF TypeOK, Timers
<1>3. ASSUME NEW p \in Posters, AddTimerReturns(p) PROVE TypeOK'
  <2>1. /\ UNCHANGED <<heap, created, timers, active, canceling, calling, expired, toRun,
                       since, timerfd, polled, pending, cancelled>>
        /\ adding' = [adding EXCEPT ![p] = <<>>]
        /\ adding[p] # <<>>
    BY <1>3 DEF AddTimerReturns
  <2>2. adding \in [Posters -> Ids \union {<<>>}] /\ ids \subseteq Ids
    BY <1>0 DEF TypeOK
  <2>3. adding[p][1] \in Addrs
    BY <2>1, <2>2 DEF Ids
  <2>4. heap[adding[p][1]].seq \in 0..MaxCreated
    BY <1>a, <2>3 DEF Timers
  <2>5. ids' \subseteq Ids
    BY <1>3, <2>2, <2>3, <2>4 DEF AddTimerReturns, Ids
  <2>6. adding' \in [Posters -> Ids \union {<<>>}]
    BY <2>1, <2>2
  <2>7. QED
    BY <1>0, <2>1, <2>5, <2>6 DEF TypeOK
<1>4. ASSUME NEW id \in ids, Cancel(id) PROVE TypeOK'
  <2>1. id \in Ids /\ [op |-> "cancel", id |-> id] \in Requests
    BY <1>0 DEF TypeOK, Requests
  <2>2. pending' \in Seq(Requests)
    BY <1>0, <1>4, <2>1, PendingFacts DEF Cancel
  <2>3. UNCHANGED <<heap, created, timers, active, canceling, calling, expired, toRun,
                    since, timerfd, polled, adding, ids, cancelled>>
    BY <1>4 DEF Cancel
  <2>4. QED
    BY <1>0, <2>2, <2>3 DEF TypeOK
<1>5. ASSUME NEW id \in ids, CancelOnLoop(id) PROVE TypeOK'
  <2>1. id \in Ids
    BY <1>0 DEF TypeOK
  <2>2. /\ CancelInLoop(id)
        /\ UNCHANGED <<created, calling, expired, toRun, since, timerfd, polled, pending,
                       adding, ids>>
    BY <1>5 DEF CancelOnLoop
  <2>3. QED
    BY <1>0, <2>1, <2>2, CancelType DEF TypeOK, Timers
<1>6. CASE RunFunctor
  <2> DEFINE f == Head(pending)
  <2>1. /\ pending' \in Seq(Requests)
        /\ f.op \in {"add", "cancel"} /\ f.id \in Ids
    BY <1>0, <1>6, PendingFacts DEF RunFunctor
  <2>2. UNCHANGED <<created, calling, expired, toRun, since, polled, adding, ids>>
    BY <1>6 DEF RunFunctor
  <2>3. CASE f.op = "add"
    <3>1. AddTimerInLoop(f.id, heap[f.id[1]].expiration) /\ UNCHANGED <<heap, cancelled>>
      BY <1>6, <2>3 DEF RunFunctor
    <3>2. heap[f.id[1]].expiration \in Ticks
      BY <1>a, <2>1 DEF Ids, Timers
    <3>3. QED
      BY <1>0, <2>1, <2>2, <3>1, <3>2, AddType DEF TypeOK
  <2>4. CASE f.op = "cancel"
    <3>1. CancelInLoop(f.id) /\ UNCHANGED timerfd
      BY <1>6, <2>4 DEF RunFunctor
    <3>2. QED
      BY <1>0, <2>1, <2>2, <3>1, CancelType DEF TypeOK, Timers
  <2>5. QED
    BY <2>1, <2>3, <2>4
<1>7. CASE HandleRead
  <2>1. \A e \in timers : e[2] \in Addrs /\ heap[e[2]].seq \in 0..MaxCreated
    BY <1>0, <1>a DEF TypeOK, Timers
  <2>2. expired' \subseteq Ids
    BY <1>7, <2>1 DEF HandleRead, Ids
  <2>3. /\ timers' \subseteq timers /\ active' \subseteq active /\ toRun' = expired'
        /\ calling' = TRUE /\ canceling' = {} /\ since' = 0 /\ polled' = FALSE
        /\ timerfd' \in {Off, timerfd}
        /\ UNCHANGED <<heap, created, pending, adding, ids, cancelled>>
    BY <1>7 DEF HandleRead
  <2>4. since' \in 0..(Longest + 1)
    BY <2>3, <1>b
  <2>5. QED
    BY <1>0, <2>2, <2>3, <2>4 DEF TypeOK
<1>8. ASSUME NEW id \in Ids, RunCallback(id) PROVE TypeOK'
  BY <1>0, <1>8 DEF TypeOK, RunCallback
<1>9. CASE Reset
  <2>1. since \in Nat /\ Restarted \subseteq expired /\ expired \subseteq Ids
    BY <1>0, TickFacts DEF TypeOK, Restarted
  <2>2. heap' \in [Addrs -> Timers]
    <3> SUFFICES ASSUME NEW a \in Addrs
                 PROVE  [heap[a] EXCEPT !.expiration = Minus(heap[a].interval, since)] \in Timers
      BY <1>9, <1>a, FreeType DEF Reset
    <3>1. heap[a] \in Timers /\ Minus(heap[a].interval, since) \in Ticks
      BY <1>a, <2>1, TickFacts DEF Timers
    <3>2. QED
      BY <3>1 DEF Timers
  <2>3. timers' \subseteq Ticks \X Addrs
    <3>1. \A id \in Restarted : id[1] \in Addrs /\ heap'[id[1]].expiration \in Ticks
      BY <2>1, <2>2 DEF Ids, Timers
    <3>2. timers' = timers \union {<<heap'[id[1]].expiration, id[1]>> : id \in Restarted}
      BY <1>9 DEF Reset
    <3>3. QED
      BY <1>0, <3>1, <3>2 DEF TypeOK
  <2>4. timerfd' \in Ticks \union {Off}
    <3>1. CASE timers' = {}
      BY <1>0, <1>9, <3>1 DEF Reset, TypeOK
    <3>2. CASE timers' # {}
      <4>1. PICK e \in timers' : timerfd' = Arm(e[1])
        BY <1>9, <3>2 DEF Reset
      <4>2. e[1] \in Ticks
        BY <2>3, <4>1
      <4>3. QED
        BY <4>1, <4>2, TickFacts
    <3>3. QED
      BY <3>1, <3>2
  <2>5. /\ active' = active \union Restarted /\ calling' = FALSE /\ expired' = {}
        /\ toRun' = {} /\ since' = 0
        /\ UNCHANGED <<created, canceling, polled, pending, adding, ids, cancelled>>
    BY <1>9 DEF Reset
  <2>6. QED
    BY <1>0, <1>b, <2>1, <2>2, <2>3, <2>4, <2>5 DEF TypeOK, Timers
<1>10. CASE Tick
  <2>1. heap' \in [Addrs -> Timers]
    <3> SUFFICES ASSUME NEW a \in Addrs
                 PROVE  [heap[a] EXCEPT !.expiration = Minus(@, 1)] \in Timers
      BY <1>10, <1>a DEF Tick
    <3>1. heap[a] \in Timers /\ Minus(heap[a].expiration, 1) \in Ticks
      BY <1>a, TickFacts DEF Timers
    <3>2. QED
      BY <3>1 DEF Timers
  <2>2. timers' \subseteq Ticks \X Addrs
    <3>1. \A e \in timers : Minus(e[1], 1) \in Ticks /\ e[2] \in Addrs
      BY <1>0, TickFacts DEF TypeOK
    <3>2. QED
      BY <1>10, <3>1 DEF Tick
  <2>3. timerfd' \in Ticks \union {Off}
    BY <1>0, <1>10, TickFacts DEF TypeOK, Tick
  <2>4. since' \in 0..(Longest + 1)
    <3>1. since \in 0..(Longest + 1) /\ since' = IF calling /\ since <= Longest THEN since + 1 ELSE since
      BY <1>0, <1>10 DEF TypeOK, Tick
    <3>2. QED
      BY <1>b, <3>1
  <2>5. UNCHANGED <<created, active, canceling, calling, expired, toRun, polled, pending,
                    adding, ids, cancelled>>
    BY <1>10 DEF Tick
  <2>6. QED
    BY <1>0, <2>1, <2>2, <2>3, <2>4, <2>5 DEF TypeOK, Timers
<1>11. CASE UNCHANGED vars
  BY <1>0, <1>11 DEF TypeOK, vars
<1>12. CASE PollTimerfd
  BY <1>0, <1>12 DEF TypeOK, PollTimerfd
<1>13. QED
  BY <1>1, <1>2, <1>3, <1>4, <1>5, <1>6, <1>7, <1>8, <1>9, <1>10, <1>11, <1>12 DEF Next

-----------------------------------------------------------------------------
(* Fields, for the steps that do not need all of TypeOK.                   *)
LEMMA Fields ==
    ASSUME TypeOK
    PROVE  /\ heap \in [Addrs -> Timers] /\ created \in Nat
           /\ \A a \in Addrs : heap[a].seq \in Nat
           /\ \A e \in timers : e[1] \in Ticks /\ e[2] \in Addrs /\ e = <<e[1], e[2]>>
           /\ \A id \in Ids : id[1] \in Addrs /\ id[2] \in Nat /\ id = <<id[1], id[2]>>
           /\ active \subseteq Ids /\ expired \subseteq Ids /\ cancelled \subseteq Ids
BY DEF TypeOK, Timers, Ids

(* cancelInLoop deletes exactly the timer it takes out of the two sets.    *)
LEMMA CancelEffect ==
    ASSUME IInv, NEW id \in Ids, CancelInLoop(id)
    PROVE  \/ /\ id \in active /\ Live(id)
              /\ \E e \in timers : e[2] = id[1]
              /\ timers' = {e \in timers : e[2] # id[1]}
              /\ active' = active \ {id}
              /\ heap' = [heap EXCEPT ![id[1]] = Free]
              /\ UNCHANGED canceling
              /\ cancelled' = cancelled \union {id}
           \/ /\ id \notin active
              /\ UNCHANGED <<timers, active, heap>>
              /\ canceling' = IF calling THEN canceling \union {id} ELSE canceling
              /\ cancelled' = IF id \in expired THEN cancelled \union {id} ELSE cancelled
<1>0. TypeOK /\ QueueInv
  BY DEF IInv
<1>1. CASE id \in active
  <2>1. PICK e \in timers : id = <<e[2], heap[e[2]].seq>>
    BY <1>0, <1>1 DEF QueueInv
  <2>2. e[2] = id[1] /\ heap[id[1]].seq = id[2] /\ id[2] # 0 /\ heap[id[1]].expiration = e[1]
    BY <1>0, <2>1 DEF QueueInv
  <2>3. \A f \in timers : f[2] = id[1] => f = <<heap[id[1]].expiration, id[1]>>
    BY <1>0, Fields DEF QueueInv
  <2>4. timers \ {<<heap[id[1]].expiration, id[1]>>} = {f \in timers : f[2] # id[1]}
    BY <2>3
  <2>5. QED
    BY <1>1, <2>2, <2>4 DEF CancelInLoop, Live
<1>2. CASE id \notin active
  BY <1>2 DEF CancelInLoop
<1>3. QED
  BY <1>1, <1>2

(* A new Timer is at an address nobody holds.                              *)
LEMMA NewEffect ==
    ASSUME IInv, NEW a \in Addrs, NEW d \in Delays, NEW i \in Intervals, NewTimer(a, d, i)
    PROVE  /\ heap[a].seq = 0 /\ created \in Nat /\ created' = created + 1
           /\ heap' \in [Addrs -> Timers]
           /\ heap'[a].seq = created + 1 /\ heap'[a].expiration = d
           /\ \A b \in Addrs : b # a => heap'[b] = heap[b]
           /\ \A e \in timers : e[2] # a
           /\ \A id \in expired : id[1] # a
           /\ \A j \in 1..Len(pending) : pending[j].op = "add" => pending[j].id[1] # a
<1>0. TypeOK /\ QueueInv /\ ExpiredInv /\ PendingInv
  BY DEF IInv
<1>1. /\ heap[a].seq = 0
      /\ heap' = [heap EXCEPT ![a] = [seq |-> created + 1, expiration |-> d, interval |-> i]]
  BY DEF NewTimer, Free
<1>2. heap' \in [Addrs -> Timers] /\ created \in Nat /\ created' = created + 1
  BY <1>0, NewType
<1>3. heap \in [Addrs -> Timers]
  BY <1>0, Fields
<1>4. /\ \A e \in timers : e[2] # a
      /\ \A id \in expired : id[1] # a
      /\ \A j \in 1..Len(pending) : pending[j].op = "add" => pending[j].id[1] # a
  BY <1>0, <1>1 DEF QueueInv, ExpiredInv, PendingInv, AddInv, Live
<1>5. QED
  BY <1>1, <1>2, <1>3, <1>4

(* addTimerInLoop of a Timer that is in neither set.                       *)
LEMMA AddQueue ==
    ASSUME IInv, NEW id \in Ids, NEW when, AddTimerInLoop(id, when),
           \A a \in Addrs : heap'[a].seq <= created',
           \A e \in timers : heap'[e[2]] = heap[e[2]],
           heap'[id[1]].seq = id[2], id[2] # 0, heap'[id[1]].expiration = when
    PROVE  QueueInv'
<1>0. TypeOK /\ QueueInv
  BY DEF IInv
<1>1. timers' = timers \union {<<when, id[1]>>} /\ active' = active \union {id}
  BY DEF AddTimerInLoop
<1>2. \A e \in timers' : heap'[e[2]].seq # 0 /\ heap'[e[2]].expiration = e[1]
  BY <1>0, <1>1 DEF QueueInv
<1>3. active' = {<<e[2], heap'[e[2]].seq>> : e \in timers'}
  <2>1. active = {<<e[2], heap'[e[2]].seq>> : e \in timers}
    BY <1>0 DEF QueueInv
  <2>2. id = <<id[1], heap'[id[1]].seq>>
    BY <1>0, Fields
  <2>3. \A x \in active' : \E e \in timers' : x = <<e[2], heap'[e[2]].seq>>
    <3>1. <<when, id[1]>> \in timers' /\ <<when, id[1]>>[2] = id[1]
      BY <1>1
    <3>2. QED
      BY <1>1, <2>1, <2>2, <3>1
  <2>4. \A e \in timers' : <<e[2], heap'[e[2]].seq>> \in active'
    BY <1>1, <2>1, <2>2
  <2>5. QED
    BY <2>3, <2>4
<1>4. QED
  BY <1>2, <1>3 DEF QueueInv

(* cancelInLoop keeps the sets in step.                                    *)
LEMMA CancelQueue ==
    ASSUME IInv, NEW id \in Ids, CancelInLoop(id), UNCHANGED created
    PROVE  QueueInv'
<1>0. TypeOK /\ QueueInv
  BY DEF IInv
<1>1. CASE UNCHANGED <<timers, active, heap>>
  BY <1>0, <1>1 DEF QueueInv
<1>2. CASE ~UNCHANGED <<timers, active, heap>>
  <2>1. /\ Live(id) /\ timers' = {e \in timers : e[2] # id[1]}
        /\ active' = active \ {id}
        /\ heap' = [heap EXCEPT ![id[1]] = Free]
    BY <1>2, CancelEffect
  <2>2. \A a \in Addrs : heap'[a].seq <= created'
    BY <1>0, <2>1, Fields DEF QueueInv, Free
  <2>3. \A e \in timers' : e \in timers /\ heap'[e[2]] = heap[e[2]]
    BY <1>0, <2>1, Fields
  <2>4. active' = {<<e[2], heap'[e[2]].seq>> : e \in timers'}
    <3>1. ASSUME NEW x \in active' PROVE \E e \in timers' : x = <<e[2], heap'[e[2]].seq>>
      <4>1. PICK e \in timers : x = <<e[2], heap[e[2]].seq>>
        BY <1>0, <2>1, <3>1 DEF QueueInv
      <4>2. e[2] # id[1]
        BY <1>0, <2>1, <3>1, <4>1, Fields DEF Live
      <4>3. QED
        BY <2>1, <2>3, <4>1, <4>2
    <3>2. ASSUME NEW e \in timers' PROVE <<e[2], heap'[e[2]].seq>> \in active'
      <4>1. <<e[2], heap'[e[2]].seq>> \in active
        BY <1>0, <2>3 DEF QueueInv
      <4>2. <<e[2], heap'[e[2]].seq>> # id
        BY <1>0, <2>1, Fields
      <4>3. QED
        BY <2>1, <4>1, <4>2
    <3>3. QED
      BY <3>1, <3>2
  <2>5. QED
    BY <1>0, <2>2, <2>3, <2>4 DEF QueueInv
<1>3. QED
  BY <1>1, <1>2

(* timers_ and activeTimers_.                                              *)
LEMMA QueueStep == IInv /\ [Next]_vars => QueueInv'
<1> SUFFICES ASSUME IInv, [Next]_vars PROVE QueueInv'
  OBVIOUS
<1>0. TypeOK /\ QueueInv /\ ExpiredInv /\ PendingInv
  BY DEF IInv
<1> USE DEF sets, batch
<1>1. ASSUME NEW a \in Addrs, NEW d \in Delays, NEW i \in Intervals, AddTimerOnLoop(a, d, i)
      PROVE  QueueInv'
  <2>1. NewTimer(a, d, i) /\ AddTimerInLoop(<<a, created + 1>>, d)
    BY <1>1 DEF AddTimerOnLoop
  <2>2. <<a, created + 1>> \in Ids
    BY <1>0, <2>1, NewType
  <2>3. \A b \in Addrs : heap'[b].seq <= created'
    BY <1>0, <2>1, NewEffect, Fields DEF QueueInv
  <2>4. \A e \in timers : heap'[e[2]] = heap[e[2]]
    BY <1>0, <2>1, NewEffect, Fields
  <2>5. heap'[a].seq = created + 1 /\ created + 1 # 0 /\ heap'[a].expiration = d
    BY <2>1, NewEffect
  <2>6. QED
    BY <2>1, <2>2, <2>3, <2>4, <2>5, AddQueue
<1>2. ASSUME NEW p \in Posters, NEW a \in Addrs, NEW d \in Delays, NEW i \in Intervals,
             AddTimer(p, a, d, i)
      PROVE  QueueInv'
  <2>1. NewTimer(a, d, i) /\ UNCHANGED <<timers, active>>
    BY <1>2 DEF AddTimer
  <2>2. \A b \in Addrs : heap'[b].seq <= created'
    BY <1>0, <2>1, NewEffect, Fields DEF QueueInv
  <2>3. \A e \in timers : heap'[e[2]] = heap[e[2]]
    BY <1>0, <2>1, NewEffect, Fields
  <2>4. QED
    BY <1>0, <2>1, <2>2, <2>3 DEF QueueInv
<1>3. ASSUME NEW p \in Posters, AddTimerReturns(p) PROVE QueueInv'
  BY <1>0, <1>3 DEF QueueInv, AddTimerReturns
<1>4. ASSUME NEW id \in ids, Cancel(id) PROVE QueueInv'
  BY <1>0, <1>4 DEF QueueInv, Cancel
<1>5. ASSUME NEW id \in ids, CancelOnLoop(id) PROVE QueueInv'
  BY <1>0, <1>5, CancelQueue DEF CancelOnLoop, TypeOK
<1>6. CASE RunFunctor
  <2> DEFINE f == Head(pending)
  <2>1. /\ Len(pending) > 0 /\ f = pending[1]
        /\ f.op \in {"add", "cancel"} /\ f.id \in Ids /\ created' = created
    BY <1>0, <1>6, PendingFacts DEF RunFunctor
  <2>2. CASE f.op = "add"
    <3>1. AddTimerInLoop(f.id, heap[f.id[1]].expiration) /\ heap' = heap
      BY <1>6, <2>2 DEF RunFunctor
    <3>2. Live(f.id)
      BY <1>0, <2>1, <2>2, PendingFacts DEF PendingInv, AddInv
    <3>3. \A a \in Addrs : heap'[a].seq <= created'
      BY <1>0, <2>1, <3>1 DEF QueueInv
    <3> HIDE DEF f
    <3>4. QED
      BY <2>1, <3>1, <3>2, <3>3, AddQueue DEF Live
  <2>3. CASE f.op = "cancel"
    <3>1. CancelInLoop(f.id)
      BY <1>6, <2>3 DEF RunFunctor
    <3> HIDE DEF f
    <3>2. QED
      BY <2>1, <3>1, CancelQueue
  <2>4. QED
    BY <2>1, <2>2, <2>3
<1>7. CASE HandleRead
  <2> DEFINE due == {e \in timers : e[1] <= 0}
  <2>1. /\ timers' = timers \ due /\ active' = active \ expired'
        /\ expired' = {<<e[2], heap[e[2]].seq>> : e \in due}
        /\ UNCHANGED <<heap, created>>
    BY <1>7 DEF HandleRead
  <2>2. \A e, f \in timers : <<e[2], heap[e[2]].seq>> = <<f[2], heap[f[2]].seq>> => e = f
    BY <1>0, Fields DEF QueueInv
  <2>3. active' = {<<e[2], heap[e[2]].seq>> : e \in timers'}
    BY <1>0, <2>1, <2>2 DEF QueueInv
  <2>4. QED
    BY <1>0, <2>1, <2>3 DEF QueueInv
<1>8. ASSUME NEW id \in Ids, RunCallback(id) PROVE QueueInv'
  BY <1>0, <1>8 DEF QueueInv, RunCallback
<1>9. CASE Reset
  <2>1. /\ timers' = timers \union {<<heap'[id[1]].expiration, id[1]>> : id \in Restarted}
        /\ active' = active \union Restarted /\ created' = created
        /\ Restarted \subseteq expired /\ expired \subseteq Ids
    BY <1>0, <1>9 DEF Reset, Restarted, TypeOK
  <2>2. \A id \in Restarted : /\ id[1] \in Addrs /\ id = <<id[1], id[2]>> /\ Live(id)
                              /\ heap'[id[1]].seq = heap[id[1]].seq
    <3>1. \A id \in Restarted : id[1] \in Addrs /\ id = <<id[1], id[2]>> /\ Live(id)
      BY <1>0, <2>1, Fields DEF ExpiredInv
    <3>2. \A id \in Restarted : heap[id[1]] \in Timers
      BY <1>0, <3>1, Fields
    <3>3. \A id \in Restarted :
             heap'[id[1]] = [heap[id[1]] EXCEPT !.expiration = Minus(heap[id[1]].interval, since)]
      BY <1>9, <3>1 DEF Reset
    <3>4. QED
      BY <3>1, <3>2, <3>3 DEF Timers
  <2>3. \A e \in timers : heap'[e[2]] = heap[e[2]]
    <3>1. \A e \in timers : e[2] \in Addrs /\ ~\E id \in expired : id[1] = e[2]
      BY <1>0, Fields DEF ExpiredInv
    <3>2. QED
      BY <1>9, <2>1, <3>1 DEF Reset
  <2>4. \A a \in Addrs : heap'[a].seq <= created'
    <3> SUFFICES ASSUME NEW a \in Addrs PROVE heap'[a].seq <= created
      BY <2>1
    <3>1. heap[a].seq <= created /\ created \in Nat /\ heap[a] \in Timers
      BY <1>0, Fields DEF QueueInv
    <3>2. heap'[a].seq = heap[a].seq \/ heap'[a] = Free
      BY <1>9, <3>1 DEF Reset, Timers
    <3>3. QED
      BY <3>1, <3>2 DEF Free
  <2>5. \A e \in timers' : heap'[e[2]].seq # 0 /\ heap'[e[2]].expiration = e[1]
    BY <1>0, <2>1, <2>2, <2>3 DEF QueueInv, Live
  <2>6. active' = {<<e[2], heap'[e[2]].seq>> : e \in timers'}
    <3>1. active = {<<e[2], heap'[e[2]].seq>> : e \in timers}
      BY <1>0, <2>3 DEF QueueInv
    <3>2. \A id \in Restarted : id = <<id[1], heap'[id[1]].seq>>
      BY <2>2 DEF Live
    <3>3. \A x \in active' : \E e \in timers' : x = <<e[2], heap'[e[2]].seq>>
      <4>1. ASSUME NEW id \in Restarted PROVE \E e \in timers' : e[2] = id[1]
        <5>1. <<heap'[id[1]].expiration, id[1]>> \in timers'
          BY <2>1
        <5>2. <<heap'[id[1]].expiration, id[1]>>[2] = id[1]
          OBVIOUS
        <5>3. QED
          BY <5>1, <5>2
      <4>2. QED
        BY <2>1, <3>1, <3>2, <4>1
    <3>4. \A e \in timers' : <<e[2], heap'[e[2]].seq>> \in active'
      BY <2>1, <3>1, <3>2
    <3>5. QED
      BY <3>3, <3>4
  <2>7. QED
    BY <2>4, <2>5, <2>6 DEF QueueInv
<1>10. CASE Tick
  <2>1. \A a \in Addrs : /\ heap'[a].seq = heap[a].seq
                         /\ heap'[a].expiration = Minus(heap[a].expiration, 1)
    BY <1>0, <1>10, Fields DEF Tick, Timers
  <2>2. /\ timers' = {<<Minus(e[1], 1), e[2]>> : e \in timers}
        /\ UNCHANGED <<active, created>>
    BY <1>10 DEF Tick
  <2>3. \A e \in timers : e[2] \in Addrs
    BY <1>0, Fields
  <2>4. \A e \in timers' : heap'[e[2]].seq # 0 /\ heap'[e[2]].expiration = e[1]
    BY <1>0, <2>1, <2>2, <2>3 DEF QueueInv
  <2>5. active' = {<<e[2], heap'[e[2]].seq>> : e \in timers'}
    <3>1. active' = {<<e[2], heap[e[2]].seq>> : e \in timers}
      BY <1>0, <2>2 DEF QueueInv
    <3>2. \A x \in active' : \E e \in timers' : x = <<e[2], heap'[e[2]].seq>>
      <4>1. ASSUME NEW e \in timers PROVE \E f \in timers' : f[2] = e[2]
        <5>1. <<Minus(e[1], 1), e[2]>> \in timers'
          BY <2>2
        <5>2. <<Minus(e[1], 1), e[2]>>[2] = e[2]
          OBVIOUS
        <5>3. QED
          BY <5>1, <5>2
      <4>2. QED
        BY <2>1, <2>3, <3>1, <4>1
    <3>3. \A e \in timers' : <<e[2], heap'[e[2]].seq>> \in active'
      BY <2>1, <2>2, <2>3, <3>1
    <3>4. QED
      BY <3>2, <3>3
  <2>6. QED
    BY <1>0, <2>1, <2>2, <2>4, <2>5 DEF QueueInv
<1>11. CASE UNCHANGED vars
  BY <1>0, <1>11 DEF QueueInv, vars
<1>12. CASE PollTimerfd
  BY <1>0, <1>12 DEF QueueInv, PollTimerfd
<1>13. QED
  BY <1>1, <1>2, <1>3, <1>4, <1>5, <1>6, <1>7, <1>8, <1>9, <1>10, <1>11, <1>12 DEF Next

(* The vector of handleRead.                                               *)
LEMMA ExpiredStep == IInv /\ [Next]_vars => ExpiredInv'
<1> SUFFICES ASSUME IInv, [Next]_vars PROVE ExpiredInv'
  OBVIOUS
<1>0. TypeOK /\ QueueInv /\ ExpiredInv /\ PendingInv
  BY DEF IInv
<1>a. \A id \in expired : id[1] \in Addrs
  BY <1>0, Fields
<1> USE DEF sets, batch
<1>1. ASSUME NEW a \in Addrs, NEW d \in Delays, NEW i \in Intervals,
             NewTimer(a, d, i), UNCHANGED <<calling, expired>>,
             \A e \in timers' : e \in timers \/ e[2] = a
      PROVE  ExpiredInv'
  <2>1. \A id \in expired : heap'[id[1]] = heap[id[1]] /\ id[1] # a
    BY <1>1, <1>a, NewEffect
  <2>2. QED
    BY <1>0, <1>1, <2>1 DEF ExpiredInv, Live
<1>2. ASSUME NEW a \in Addrs, NEW d \in Delays, NEW i \in Intervals,
             AddTimerOnLoop(a, d, i) \/ \E p \in Posters : AddTimer(p, a, d, i)
      PROVE  ExpiredInv'
  BY <1>1, <1>2 DEF AddTimerOnLoop, AddTimer, AddTimerInLoop
<1>3. ASSUME NEW id \in Ids, CancelInLoop(id), UNCHANGED <<calling, expired>>
      PROVE  ExpiredInv'
  <2>1. CASE UNCHANGED <<timers, heap>>
    BY <1>0, <1>3, <2>1 DEF ExpiredInv, Live
  <2>2. CASE ~UNCHANGED <<timers, heap>>
    <3>1. /\ timers' = {e \in timers : e[2] # id[1]}
          /\ \E e \in timers : e[2] = id[1]
          /\ heap' = [heap EXCEPT ![id[1]] = Free]
      BY <1>3, <2>2, CancelEffect
    <3>2. \A x \in expired : x[1] # id[1] /\ heap'[x[1]] = heap[x[1]]
      BY <1>0, <1>a, <3>1, Fields DEF ExpiredInv
    <3>3. QED
      BY <1>0, <1>3, <3>1, <3>2 DEF ExpiredInv, Live
  <2>3. QED
    BY <2>1, <2>2
<1>4. ASSUME NEW id \in ids, CancelOnLoop(id) PROVE ExpiredInv'
  BY <1>0, <1>3, <1>4 DEF CancelOnLoop, TypeOK
<1>5. CASE RunFunctor
  <2> DEFINE f == Head(pending)
  <2>1. /\ ~calling /\ UNCHANGED <<calling, expired>>
        /\ f.op \in {"add", "cancel"} /\ f.id \in Ids
    BY <1>0, <1>5, PendingFacts DEF RunFunctor
  <2>2. expired' = {}
    BY <1>0, <2>1 DEF ExpiredInv
  <2>3. QED
    BY <2>2 DEF ExpiredInv
<1>6. CASE HandleRead
  <2> DEFINE due == {e \in timers : e[1] <= 0}
  <2>1. /\ timers' = timers \ due /\ heap' = heap
        /\ expired' = {<<e[2], heap[e[2]].seq>> : e \in due}
        /\ calling' = TRUE
    BY <1>6 DEF HandleRead
  <2>2. \A e, f \in timers : e[2] = f[2] => e = f
    BY <1>0, Fields DEF QueueInv
  <2>3. ASSUME NEW id \in expired' PROVE Live(id)' /\ \A e \in timers' : e[2] # id[1]
    <3>1. PICK e \in due : id = <<e[2], heap[e[2]].seq>>
      BY <2>1, <2>3
    <3>2. Live(id)'
      BY <1>0, <2>1, <3>1 DEF Live, QueueInv
    <3>3. \A g \in timers' : g[2] # id[1]
      BY <2>1, <2>2, <3>1
    <3>4. QED
      BY <3>2, <3>3
  <2>4. QED
    BY <2>1, <2>3 DEF ExpiredInv
<1>7. ASSUME NEW id \in Ids, RunCallback(id) PROVE ExpiredInv'
  BY <1>0, <1>7 DEF ExpiredInv, RunCallback, Live
<1>8. CASE Reset
  BY <1>8 DEF Reset, ExpiredInv
<1>9. CASE Tick
  <2>1. \A a \in Addrs : heap'[a].seq = heap[a].seq
    BY <1>0, <1>9, Fields DEF Tick, Timers
  <2>2. \A e \in timers' : \E f \in timers : e[2] = f[2]
    BY <1>9 DEF Tick
  <2>3. QED
    BY <1>0, <1>9, <1>a, <2>1, <2>2 DEF ExpiredInv, Live, Tick
<1>10. ASSUME UNCHANGED <<heap, timers, calling, expired>> PROVE ExpiredInv'
  BY <1>0, <1>10 DEF ExpiredInv, Live
<1>11. ASSUME \/ \E p \in Posters : AddTimerReturns(p)
              \/ \E id \in ids : Cancel(id)
              \/ PollTimerfd
              \/ UNCHANGED vars
       PROVE  ExpiredInv'
  BY <1>10, <1>11 DEF AddTimerReturns, Cancel, PollTimerfd, vars
<1>12. QED
  BY <1>2, <1>4, <1>5, <1>6, <1>7, <1>8, <1>9, <1>11 DEF Next

(* The queued functors.                                                    *)
LEMMA PendingStep == IInv /\ [Next]_vars => PendingInv'
<1> SUFFICES ASSUME IInv, [Next]_vars PROVE PendingInv'
  OBVIOUS
<1>0. TypeOK /\ QueueInv /\ ExpiredInv /\ PendingInv
  BY DEF IInv
<1>a. /\ Len(pending) \in Nat
      /\ \A i \in 1..Len(pending) : pending[i].id[1] \in Addrs /\ pending[i].id \in Ids
  BY <1>0, PendingFacts, Fields
<1> USE DEF sets, batch
<1>1. ASSUME NEW a \in Addrs, NEW d \in Delays, NEW i \in Intervals, NewTimer(a, d, i)
      PROVE  \A j \in 1..Len(pending) : pending[j].op = "add" =>
                /\ pending[j].id[1] # a
                /\ heap'[pending[j].id[1]] = heap[pending[j].id[1]]
  BY <1>0, <1>a, <1>1, NewEffect DEF PendingInv, AddInv, Live
<1>2. ASSUME NEW a \in Addrs, NEW d \in Delays, NEW i \in Intervals, AddTimerOnLoop(a, d, i)
      PROVE  PendingInv'
  <2>1. /\ NewTimer(a, d, i) /\ UNCHANGED <<pending, expired>>
        /\ \A e \in timers' : e \in timers \/ e[2] = a
    BY <1>2 DEF AddTimerOnLoop, AddTimerInLoop
  <2>2. \A j \in 1..Len(pending') : AddInv(pending[j])'
    BY <1>0, <1>1, <2>1 DEF PendingInv, AddInv, Live
  <2>3. QED
    BY <1>0, <2>1, <2>2 DEF PendingInv
<1>3. ASSUME NEW p \in Posters, NEW a \in Addrs, NEW d \in Delays, NEW i \in Intervals,
             AddTimer(p, a, d, i)
      PROVE  PendingInv'
  <2> DEFINE r == [op |-> "add", id |-> <<a, created + 1>>]
             n == Len(pending)
  <2>1. NewTimer(a, d, i) /\ UNCHANGED <<timers, expired>> /\ pending' = Append(pending, r)
    BY <1>3 DEF AddTimer
  <2>2. r \in Requests
    BY <1>0, <2>1, NewType DEF Requests
  <2>3. /\ Len(pending') = n + 1 /\ pending'[n + 1] = r
        /\ \A j \in 1..n : pending'[j] = pending[j]
    BY <1>0, <2>1, <2>2, PendingFacts
  <2>4. ASSUME NEW j \in 1..Len(pending') PROVE AddInv(pending[j])'
    <3>1. CASE j = n + 1
      BY <2>1, <2>3, <3>1, NewEffect DEF AddInv, Live
    <3>2. CASE j # n + 1
      <4>1. j \in 1..n
        BY <1>a, <2>3, <3>2
      <4>2. QED
        BY <1>0, <1>1, <2>1, <2>3, <4>1 DEF PendingInv, AddInv, Live
    <3>3. QED
      BY <3>1, <3>2
  <2>5. ASSUME NEW j \in 1..Len(pending'), NEW k \in 1..Len(pending'),
               pending'[j].op = "add", pending'[k].op = "add",
               pending'[j].id[1] = pending'[k].id[1]
        PROVE  j = k
    <3>1. \A m \in 1..n : pending[m].op = "add" => pending[m].id[1] # a
      BY <1>1, <2>1
    <3>2. r.op = "add" /\ r.id[1] = a
      OBVIOUS
    <3> HIDE DEF r
    <3>3. QED
      BY <1>0, <1>a, <2>3, <2>5, <3>1, <3>2 DEF PendingInv
  <2>6. QED
    BY <2>4, <2>5 DEF PendingInv
<1>4. ASSUME NEW id \in Ids, CancelInLoop(id),
             NEW j \in 1..Len(pending), pending[j].op = "add"
      PROVE  /\ heap'[pending[j].id[1]] = heap[pending[j].id[1]]
             /\ \A e \in timers' : e[2] # pending[j].id[1]
  <2>1. Live(pending[j].id) /\ \A e \in timers : e[2] # pending[j].id[1]
    BY <1>0, <1>4 DEF PendingInv, AddInv
  <2>2. CASE UNCHANGED <<timers, heap>>
    BY <2>1, <2>2
  <2>3. CASE ~UNCHANGED <<timers, heap>>
    <3>1. /\ timers' = {e \in timers : e[2] # id[1]}
          /\ \E e \in timers : e[2] = id[1]
          /\ heap' = [heap EXCEPT ![id[1]] = Free]
      BY <1>4, <2>3, CancelEffect
    <3>2. heap'[pending[j].id[1]] = heap[pending[j].id[1]]
      BY <1>0, <1>a, <2>1, <3>1, Fields
    <3>3. QED
      BY <2>1, <3>1, <3>2
  <2>4. QED
    BY <2>2, <2>3
<1>5. ASSUME NEW id \in ids, Cancel(id) PROVE PendingInv'
  <2> DEFINE r == [op |-> "cancel", id |-> id]
             n == Len(pending)
  <2>1. r \in Requests
    BY <1>0 DEF TypeOK, Requests
  <2>2. /\ Len(pending') = n + 1 /\ pending'[n + 1] = r
        /\ \A j \in 1..n : pending'[j] = pending[j]
    BY <1>0, <1>5, <2>1, PendingFacts DEF Cancel
  <2>3. \A j \in 1..Len(pending') : pending'[j].op = "add" => j \in 1..n
    BY <1>a, <2>2
  <2>4. UNCHANGED <<heap, timers, expired>>
    BY <1>5 DEF Cancel
  <2>5. QED
    BY <1>0, <2>2, <2>3, <2>4 DEF PendingInv, AddInv, Live
<1>6. ASSUME NEW id \in ids, CancelOnLoop(id) PROVE PendingInv'
  <2>1. CancelInLoop(id) /\ UNCHANGED <<pending, expired>> /\ id \in Ids
    BY <1>0, <1>6 DEF CancelOnLoop, TypeOK
  <2>2. \A j \in 1..Len(pending') : AddInv(pending[j])'
    BY <1>0, <1>4, <2>1 DEF PendingInv, AddInv, Live
  <2>3. QED
    BY <1>0, <2>1, <2>2 DEF PendingInv
<1>7. CASE RunFunctor
  <2> DEFINE f == Head(pending)
             n == Len(pending)
  <2>1. /\ n > 0 /\ f = pending[1] /\ f.op \in {"add", "cancel"} /\ f.id \in Ids
        /\ Len(pending') = n - 1
        /\ \A j \in 1..(n - 1) : pending'[j] = pending[j + 1]
        /\ UNCHANGED expired
    BY <1>0, <1>7, PendingFacts DEF RunFunctor
  <2>2. ASSUME NEW j \in 2..n, pending[j].op = "add"
        PROVE  /\ heap'[pending[j].id[1]] = heap[pending[j].id[1]]
               /\ \A e \in timers' : e[2] # pending[j].id[1]
    <3>1. j \in 1..n /\ 1 \in 1..n /\ j # 1
      BY <1>a
    <3>2. AddInv(pending[j])
      BY <1>0, <3>1 DEF PendingInv
    <3>3. CASE f.op = "add"
      <4>1. heap' = heap /\ \A e \in timers' : e \in timers \/ e[2] = f.id[1]
        BY <1>7, <3>3 DEF RunFunctor, AddTimerInLoop
      <4>2. pending[1].id[1] # pending[j].id[1]
        BY <1>0, <2>1, <2>2, <3>1, <3>3 DEF PendingInv
      <4>3. QED
        BY <2>1, <2>2, <3>2, <4>1, <4>2 DEF AddInv
    <3>4. CASE f.op = "cancel"
      <4>1. CancelInLoop(f.id)
        BY <1>7, <3>4 DEF RunFunctor
      <4> HIDE DEF f
      <4>2. QED
        BY <1>4, <2>1, <2>2, <3>1, <4>1
    <3>5. QED
      BY <2>1, <3>3, <3>4
  <2>3. ASSUME NEW j \in 1..Len(pending') PROVE AddInv(pending[j])'
    <3>1. j + 1 \in 2..n /\ j + 1 \in 1..n /\ pending'[j] = pending[j + 1]
      BY <1>a, <2>1
    <3>2. AddInv(pending[j + 1])
      BY <1>0, <3>1 DEF PendingInv
    <3>3. QED
      BY <2>1, <2>2, <3>1, <3>2 DEF AddInv, Live
  <2>4. ASSUME NEW j \in 1..Len(pending'), NEW k \in 1..Len(pending'),
               pending'[j].op = "add", pending'[k].op = "add",
               pending'[j].id[1] = pending'[k].id[1]
        PROVE  j = k
    <3>1. /\ j + 1 \in 1..n /\ pending'[j] = pending[j + 1]
          /\ k + 1 \in 1..n /\ pending'[k] = pending[k + 1]
      BY <1>a, <2>1
    <3>2. j + 1 = k + 1
      BY <1>0, <2>4, <3>1 DEF PendingInv
    <3>3. QED
      BY <3>2
  <2>5. QED
    BY <2>3, <2>4 DEF PendingInv
<1>8. CASE HandleRead
  <2>1. /\ timers' \subseteq timers /\ UNCHANGED <<heap, pending>>
        /\ \A id \in expired' : \E e \in timers : id[1] = e[2]
    BY <1>8 DEF HandleRead
  <2>2. \A j \in 1..Len(pending') : AddInv(pending[j])'
    BY <1>0, <2>1 DEF PendingInv, AddInv, Live
  <2>3. QED
    BY <1>0, <2>1, <2>2 DEF PendingInv
<1>9. CASE Reset
  <2>1. /\ expired' = {} /\ UNCHANGED pending
        /\ \A e \in timers' : e \in timers \/ \E id \in expired : e[2] = id[1]
    <3>1. /\ expired' = {} /\ UNCHANGED pending /\ Restarted \subseteq expired
          /\ timers' = timers \union {<<heap'[id[1]].expiration, id[1]>> : id \in Restarted}
      BY <1>9 DEF Reset, Restarted
    <3>2. QED
      BY <3>1
  <2>2. \A a \in Addrs : (\A id \in expired : id[1] # a) => heap'[a] = heap[a]
    BY <1>9 DEF Reset, Restarted
  <2>3. \A j \in 1..Len(pending') : AddInv(pending[j])'
    BY <1>0, <1>a, <2>1, <2>2 DEF PendingInv, AddInv, Live
  <2>4. QED
    BY <1>0, <2>1, <2>3 DEF PendingInv
<1>10. CASE Tick
  <2>1. \A a \in Addrs : heap'[a].seq = heap[a].seq
    BY <1>0, <1>10, Fields DEF Tick, Timers
  <2>2. /\ \A e \in timers' : \E f \in timers : e[2] = f[2]
        /\ UNCHANGED <<pending, expired>>
    BY <1>10 DEF Tick
  <2>3. \A j \in 1..Len(pending') : AddInv(pending[j])'
    BY <1>0, <1>a, <2>1, <2>2 DEF PendingInv, AddInv, Live
  <2>4. QED
    BY <1>0, <2>2, <2>3 DEF PendingInv
<1>11. ASSUME UNCHANGED <<heap, timers, expired, pending>> PROVE PendingInv'
  BY <1>0, <1>11 DEF PendingInv, AddInv, Live
<1>12. ASSUME \/ \E p \in Posters : AddTimerReturns(p)
              \/ \E id \in Ids : RunCallback(id)
              \/ PollTimerfd
              \/ UNCHANGED vars
       PROVE  PendingInv'
  BY <1>11, <1>12 DEF AddTimerReturns, RunCallback, PollTimerfd, vars
<1>13. QED
  BY <1>2, <1>3, <1>5, <1>6, <1>7, <1>8, <1>9, <1>10, <1>12 DEF Next

(* The cancelled timers.  A sequence number is given out once, so that a   *)
(* deleted timer does not come back.                                       *)
LEMMA CancelStep == IInv /\ [Next]_vars => CancelInv'
<1> SUFFICES ASSUME IInv, [Next]_vars PROVE CancelInv'
  OBVIOUS
<1>0. TypeOK /\ QueueInv /\ ExpiredInv /\ CancelInv
  BY DEF IInv
<1>a. /\ \A id \in cancelled : id[1] \in Addrs /\ id[2] \in Nat /\ id \in Ids
      /\ \A id \in expired : id[1] \in Addrs /\ id[2] \in Nat /\ id \in Ids
      /\ created \in Nat
  BY <1>0, Fields
<1> USE DEF sets, batch
<1>1. ASSUME NEW a \in Addrs, NEW d \in Delays, NEW i \in Intervals, NewTimer(a, d, i),
             UNCHANGED <<canceling, expired, cancelled>>
      PROVE  CancelInv'
  <2>1. /\ created' = created + 1 /\ heap'[a].seq = created + 1
        /\ \A b \in Addrs : b # a => heap'[b] = heap[b]
    BY <1>1, NewEffect
  <2>2. \A id \in cancelled : heap'[id[1]].seq = id[2] => heap[id[1]].seq = id[2]
    BY <1>0, <1>a, <2>1 DEF CancelInv, CancelledInv
  <2>3. QED
    BY <1>0, <1>1, <1>a, <2>1, <2>2 DEF CancelInv, CancelledInv, Live
<1>2. ASSUME NEW a \in Addrs, NEW d \in Delays, NEW i \in Intervals,
             AddTimerOnLoop(a, d, i) \/ \E p \in Posters : AddTimer(p, a, d, i)
      PROVE  CancelInv'
  BY <1>1, <1>2 DEF AddTimerOnLoop, AddTimer, AddTimerInLoop
<1>3. ASSUME NEW id \in Ids, CancelInLoop(id), UNCHANGED <<created, calling, expired>>
      PROVE  CancelInv'
  <2>1. id[1] \in Addrs /\ id[2] \in Nat /\ heap \in [Addrs -> Timers]
    BY <1>0, Fields
  <2>2. CASE /\ id \in active /\ Live(id)
             /\ heap' = [heap EXCEPT ![id[1]] = Free]
             /\ UNCHANGED canceling
             /\ cancelled' = cancelled \union {id}
    <3>1. ASSUME NEW x \in cancelled PROVE CancelledInv(x)'
      <4>1. heap'[x[1]].seq = x[2] /\ x[2] # 0 => heap[x[1]].seq = x[2]
        BY <1>a, <2>1, <2>2 DEF Free
      <4>2. QED
        BY <1>0, <1>3, <2>2, <4>1 DEF CancelInv, CancelledInv, Live
    <3>2. CancelledInv(id)'
      BY <1>0, <1>3, <2>1, <2>2 DEF CancelledInv, Live, QueueInv, Free
    <3>3. QED
      BY <2>2, <3>1, <3>2 DEF CancelInv
  <2>3. CASE /\ id \notin active /\ UNCHANGED heap
             /\ canceling' = IF calling THEN canceling \union {id} ELSE canceling
             /\ cancelled' = IF id \in expired THEN cancelled \union {id} ELSE cancelled
    <3>1. ASSUME NEW x \in cancelled PROVE CancelledInv(x)'
      BY <1>0, <1>3, <2>3 DEF CancelInv, CancelledInv, Live
    <3>2. ASSUME id \in expired PROVE CancelledInv(id)'
      BY <1>0, <1>3, <2>1, <2>3, <3>2 DEF CancelledInv, Live, QueueInv, ExpiredInv
    <3>3. QED
      BY <2>3, <3>1, <3>2 DEF CancelInv
  <2>4. QED
    BY <1>3, <2>2, <2>3, CancelEffect
<1>4. ASSUME NEW id \in ids, CancelOnLoop(id) PROVE CancelInv'
  BY <1>0, <1>3, <1>4 DEF CancelOnLoop, TypeOK
<1>5. CASE RunFunctor
  <2> DEFINE f == Head(pending)
  <2>1. /\ UNCHANGED <<created, calling, expired>>
        /\ f.op \in {"add", "cancel"} /\ f.id \in Ids
    BY <1>0, <1>5, PendingFacts DEF RunFunctor
  <2>2. CASE f.op = "add"
    <3>1. UNCHANGED <<heap, cancelled, canceling>>
      BY <1>5, <2>2 DEF RunFunctor, AddTimerInLoop
    <3>2. QED
      BY <1>0, <2>1, <3>1 DEF CancelInv, CancelledInv, Live
  <2>3. CASE f.op = "cancel"
    <3>1. CancelInLoop(f.id)
      BY <1>5, <2>3 DEF RunFunctor
    <3> HIDE DEF f
    <3>2. QED
      BY <1>3, <2>1, <3>1
  <2>4. QED
    BY <2>1, <2>2, <2>3
<1>6. CASE HandleRead
  <2>1. expired = {} /\ UNCHANGED <<heap, created, cancelled>>
    BY <1>0, <1>6 DEF HandleRead, ExpiredInv
  <2>2. QED
    BY <1>0, <2>1 DEF CancelInv, CancelledInv, Live
<1>7. CASE Reset
  <2>1. /\ UNCHANGED <<created, cancelled>>
        /\ \A id \in Restarted : id \in expired /\ id \notin canceling
        /\ \A a \in Addrs : \/ (\A id \in expired : id[1] # a) /\ heap'[a] = heap[a]
                            \/ \E id \in Restarted : id[1] = a
                            \/ heap'[a] = Free
    BY <1>7 DEF Reset, Restarted
  <2>2. \A a \in Addrs : heap'[a].seq # 0 => heap'[a].seq = heap[a].seq
    <3>1. \A a \in Addrs : heap[a] \in Timers
      BY <1>0, Fields
    <3>2. QED
      BY <1>7, <3>1 DEF Reset, Timers, Free
  <2>3. ASSUME NEW id \in cancelled PROVE CancelledInv(id)' /\ ~Live(id)'
    <3>1. CancelledInv(id) /\ id[1] \in Addrs
      BY <1>0, <1>a, <2>3 DEF CancelInv
    <3>2. CASE ~Live(id)
      BY <2>1, <2>2, <3>1, <3>2 DEF CancelledInv, Live
    <3>3. CASE Live(id)
      <4>1. id \in expired /\ id \in canceling
        BY <3>1, <3>3 DEF CancelledInv
      <4>2. \A x \in Restarted : x[1] # id[1]
        <5>1. \A x \in expired : x[1] = id[1] => x = id
          BY <1>0, <1>a, <4>1, Fields DEF ExpiredInv, Live
        <5>2. QED
          BY <2>1, <4>1, <5>1
      <4>3. heap'[id[1]] = Free
        BY <2>1, <3>1, <4>1, <4>2
      <4>4. QED
        BY <2>1, <3>1, <4>3 DEF CancelledInv, Live, Free
    <3>4. QED
      BY <3>2, <3>3
  <2>4. QED
    BY <2>1, <2>3 DEF CancelInv
<1>8. CASE Tick
  <2>1. \A a \in Addrs : heap'[a].seq = heap[a].seq
    BY <1>0, <1>8, Fields DEF Tick, Timers
  <2>2. UNCHANGED <<created, expired, canceling, cancelled>>
    BY <1>8 DEF Tick
  <2>3. QED
    BY <1>0, <1>a, <2>1, <2>2 DEF CancelInv, CancelledInv, Live
<1>9. ASSUME UNCHANGED <<heap, created, expired, canceling, cancelled>> PROVE CancelInv'
  BY <1>0, <1>9 DEF CancelInv, CancelledInv, Live
<1>10. ASSUME \/ \E p \in Posters : AddTimerReturns(p)
              \/ \E id \in ids : Cancel(id)
              \/ \E id \in Ids : RunCallback(id)
              \/ PollTimerfd
              \/ UNCHANGED vars
       PROVE  CancelInv'
  BY <1>9, <1>10 DEF AddTimerReturns, Cancel, RunCallback, PollTimerfd, vars
<1>11. QED
  BY <1>2, <1>4, <1>5, <1>6, <1>7, <1>8, <1>10 DEF Next

(* The timerfd.  insert arms it for the first timer of an empty queue, and *)
(* reset for what is left after the callbacks.                             *)
LEMMA ArmedStep == IInv /\ [Next]_vars => ArmedInv'
<1> SUFFICES ASSUME IInv, [Next]_vars PROVE ArmedInv'
  OBVIOUS
<1>0. TypeOK /\ ArmedInv
  BY DEF IInv
<1> USE DEF sets, batch
<1>1. ASSUME NEW id \in Ids, NEW when \in Ticks, AddTimerInLoop(id, when), UNCHANGED calling
      PROVE  ArmedInv'
  <2>1. timers = {} => timerfd' = Arm(when)
    BY <1>1 DEF AddTimerInLoop, EarliestChanged
  <2>2. timerfd' \in {timerfd, Arm(when)}
    BY <1>1 DEF AddTimerInLoop
  <2>3. Arm(when) # Off
    BY TickFacts, OffAssumption
  <2>4. QED
    BY <1>0, <1>1, <2>1, <2>2, <2>3 DEF ArmedInv
<1>2. ASSUME NEW id \in Ids, CancelInLoop(id), UNCHANGED <<calling, timerfd>> PROVE ArmedInv'
  BY <1>0, <1>2 DEF ArmedInv, CancelInLoop
<1>3. ASSUME NEW a \in Addrs, NEW d \in Delays, NEW i \in Intervals, AddTimerOnLoop(a, d, i)
      PROVE  ArmedInv'
  <2>1. /\ NewTimer(a, d, i) /\ AddTimerInLoop(<<a, created + 1>>, d) /\ UNCHANGED calling
    BY <1>3 DEF AddTimerOnLoop
  <2>2. <<a, created + 1>> \in Ids /\ d \in Ticks
    BY <1>0, <2>1, NewType, TickFacts
  <2>3. QED
    BY <1>1, <2>1, <2>2
<1>4. ASSUME NEW id \in ids, CancelOnLoop(id) PROVE ArmedInv'
  BY <1>0, <1>2, <1>4 DEF CancelOnLoop, TypeOK
<1>5. CASE RunFunctor
  <2> DEFINE f == Head(pending)
  <2>1. f.op \in {"add", "cancel"} /\ f.id \in Ids /\ UNCHANGED calling
    BY <1>0, <1>5, PendingFacts DEF RunFunctor
  <2>2. CASE f.op = "add"
    <3>1. AddTimerInLoop(f.id, heap[f.id[1]].expiration)
      BY <1>5, <2>2 DEF RunFunctor
    <3>2. heap[f.id[1]].expiration \in Ticks
      BY <1>0, <2>1, Fields DEF Timers
    <3> HIDE DEF f
    <3>3. QED
      BY <1>1, <2>1, <3>1, <3>2
  <2>3. CASE f.op = "cancel"
    <3>1. CancelInLoop(f.id) /\ UNCHANGED timerfd
      BY <1>5, <2>3 DEF RunFunctor
    <3> HIDE DEF f
    <3>2. QED
      BY <1>2, <2>1, <3>1
  <2>4. QED
    BY <2>1, <2>2, <2>3
<1>6. CASE HandleRead
  BY <1>6 DEF HandleRead, ArmedInv
<1>7. CASE Reset
  <2> SUFFICES ASSUME timers' # {} PROVE timerfd' # Off
    BY DEF ArmedInv
  <2>1. PICK e \in timers' : timerfd' = Arm(e[1])
    BY <1>7 DEF Reset
  <2>2. TypeOK'
    BY TypeStep
  <2>3. e[1] \in Ticks
    BY <2>2 DEF TypeOK
  <2>4. QED
    BY <2>1, <2>3, TickFacts, OffAssumption
<1>8. CASE Tick
  <2>1. UNCHANGED calling /\ (timers' # {} => timers # {})
    BY <1>8 DEF Tick
  <2>2. timerfd # Off => timerfd' # Off
    <3>1. timerfd # Off => timerfd \in Int /\ timerfd' = AtLeast(timerfd - 1, 0)
      BY <1>0, <1>8, TickFacts DEF TypeOK, Tick
    <3>2. \A t \in Int : AtLeast(t, 0) \in Nat
      BY DEF AtLeast
    <3>3. QED
      BY <3>1, <3>2, OffAssumption
  <2>3. QED
    BY <1>0, <2>1, <2>2 DEF ArmedInv
<1>9. ASSUME UNCHANGED <<timers, calling, timerfd>> PROVE ArmedInv'
  BY <1>0, <1>9 DEF ArmedInv
<1>10. ASSUME \/ \E p \in Posters : AddTimerReturns(p)
              \/ \E p \in Posters, a \in Addrs, d \in Delays, i \in Intervals :
                    AddTimer(p, a, d, i)
              \/ \E id \in ids : Cancel(id)
              \/ \E id \in Ids : RunCallback(id)
              \/ PollTimerfd
              \/ UNCHANGED vars
       PROVE  ArmedInv'
  BY <1>9, <1>10 DEF AddTimerReturns, AddTimer, Cancel, RunCallback, PollTimerfd, vars
<1>11. QED
  BY <1>3, <1>4, <1>5, <1>6, <1>7, <1>8, <1>10 DEF Next

-----------------------------------------------------------------------------
(* The invariant holds in every behaviour, whatever the callbacks and the  *)
(* other threads add and cancel.                                           *)
THEOREM Invariance == Spec => []IInv
<1>1. IInv /\ [Next]_vars => IInv'
  BY TypeStep, QueueStep, ExpiredStep, PendingStep, CancelStep, ArmedStep DEF IInv
<1>2. QED
  BY InvInit, <1>1, PTL DEF Spec

(* timers_ and activeTimers_ have the same timers, as many in one as in    *)
(* the other, none of them deleted and each under its own expiration: the  *)
(* assertions of insert, getExpired and cancelInLoop.  Outside handleRead  *)
(* the timerfd is armed as long as there is a timer.                       *)
THEOREM QueueConsistentHolds == Spec => []QueueConsistent
<1>1. IInv => QueueConsistent
  <2> SUFFICES ASSUME IInv PROVE QueueConsistent
    OBVIOUS
  <2>0. TypeOK /\ QueueInv /\ ArmedInv
    BY DEF IInv
  <2>1. IsFiniteSet(timers)
    <3>1. IsFiniteSet(Ticks \X Addrs)
      BY TickFacts, AddrAssumption, FS_Product
    <3>2. QED
      BY <2>0, <3>1, FS_Subset DEF TypeOK
  <2>2. Cardinality(timers) = Cardinality(active)
    <3> DEFINE f == [e \in timers |-> <<e[2], heap[e[2]].seq>>]
    <3>1. f \in [timers -> active]
      BY <2>0 DEF QueueInv
    <3>2. \A e, g \in timers : f[e] = f[g] => e = g
      BY <2>0, Fields DEF QueueInv
    <3>3. \A x \in active : \E e \in timers : f[e] = x
      BY <2>0 DEF QueueInv
    <3>4. f \in Bijection(timers, active)
      BY <3>1, <3>2, <3>3 DEF Bijection, Injection, Surjection, IsInjective
    <3>5. QED
      BY <2>1, <3>4, FS_Bijection DEF ExistsBijection
  <2>3. \A e \in timers : heap[e[2]] # Free
    BY <2>0 DEF QueueInv, Free
  <2>4. QED
    BY <2>0, <2>2, <2>3 DEF QueueConsistent, QueueInv, ArmedInv
<1>2. QED
  BY <1>1, Invariance, PTL

(* The timers whose callbacks handleRead is running are neither deleted    *)
(* nor active.                                                             *)
THEOREM ExpiredLiveHolds == Spec => []ExpiredLive
<1>1. IInv => ExpiredLive
  BY DEF IInv, ExpiredInv, QueueInv, ExpiredLive
<1>2. QED
  BY <1>1, Invariance, PTL

(* A timer cancelled when it was active or expired is never active again.  *)
THEOREM CancelSticksHolds == Spec => []CancelSticks
<1>1. IInv => CancelSticks
  <2> SUFFICES ASSUME IInv, NEW id \in active, id \in cancelled PROVE FALSE
    BY DEF CancelSticks
  <2>1. PICK e \in timers : id = <<e[2], heap[e[2]].seq>>
    BY DEF IInv, QueueInv
  <2>2. Live(id)
    BY <2>1 DEF IInv, QueueInv, Live
  <2>3. id \in expired
    BY <2>2 DEF IInv, CancelInv, CancelledInv
  <2>4. QED
    BY <2>1, <2>3 DEF IInv, ExpiredInv
<1>2. QED
  BY <1>1, Invariance, PTL
=============================================================================
