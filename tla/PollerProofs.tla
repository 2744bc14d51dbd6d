---------------------------- MODULE PollerProofs ----------------------------
(***************************************************************************)
(* Proofs about Poller for every set of channels and descriptors.  IInv is *)
(* the inductive invariant: who is in channels_, what each of the two      *)
(* pollers has noted about it, and who is still to be handled in a round.  *)
(***************************************************************************)
EXTENDS Poller, TLAPS, FiniteSetTheorems, SequenceTheorems

(* channels_ holds live channels under their own descriptors, and live     *)
(* channels have different ones.                                           *)
MapInv ==
    /\ \A f \in Fds : map[f] # None => map[f] \in live /\ Fd[map[f]] = f
    /\ \A c, d \in live : Fd[c] = Fd[d] => c = d

(* EPollPoller: index_ says where the channel is, and the kernel has the   *)
(* events of the channels it knows; one that is deleted wants none.        *)
EPollChannel(c) ==
    /\ index[c] \in {kNew, kAdded, kDeleted}
    /\ index[c] = kNew <=> ~Registered(c)
    /\ index[c] = kAdded <=> (epoll[Fd[c]] # None /\ epoll[Fd[c]].ptr = c)
    /\ index[c] = kDeleted => events[c] = {}
EPollEntry(f) ==
    epoll[f] # None => map[f] = epoll[f].ptr /\ epoll[f].ev = events[map[f]]
EPollInv == kind = "epoll" =>
    /\ pollfds = <<>>
    /\ \A c \in live : EPollChannel(c)
    /\ \A f \in Fds : EPollEntry(f)

(* PollPoller: entries and registered channels correspond one to one.  An  *)
(* entry that asks for nothing is negative unless it is as the first       *)
(* updateChannel made it.                                                  *)
IsEntry(e, c) ==
    /\ e.ev = events[c]
    /\ e.fd = Fd[c] \/ (events[c] = {} /\ e.fd = Ignored(Fd[c]))
PollChannel(c) ==
    /\ index[c] >= kNew
    /\ index[c] = kNew => ~Registered(c)
    /\ Registered(c) => /\ index[c] + 1 \in 1..Len(pollfds)
                        /\ IsEntry(pollfds[index[c] + 1], c)
PollInv == kind = "poll" =>
    /\ \A f \in Fds : epoll[f] = None
    /\ \A c \in live : PollChannel(c)
    /\ \A i \in 1..Len(pollfds) : \E c \in live : Registered(c) /\ index[c] + 1 = i

(* What is left of a round: different channels, all live, and all but the  *)
(* current one registered.                                                 *)
RoundInv ==
    /\ pos = 0 => active = <<>>
    /\ \A i, j \in 1..Len(active) : active[i] = active[j] => i = j
    /\ \A i \in 1..Len(active) : i >= pos => active[i] \in live
    /\ \A i \in 1..Len(active) : i > pos => Registered(active[i])

IInv == TypeOK /\ MapInv /\ EPollInv /\ PollInv /\ RoundInv

-----------------------------------------------------------------------------
(* The constructors establish the invariant: there is no channel.          *)
LEMMA InvInit == Init => IInv
<1> SUFFICES ASSUME Init PROVE IInv
  OBVIOUS
<1>1. TypeOK
  BY SizeAssumption DEF Init, TypeOK, kNew, Events, Revents
<1>2. MapInv /\ EPollInv /\ PollInv /\ RoundInv
  BY DEF Init, MapInv, EPollInv, EPollEntry, PollInv, RoundInv
<1>3. QED
  BY <1>1, <1>2 DEF IInv

(* A descriptor of a channel is one of Fds, a negative entry stands for    *)
(* it, and FdOf takes it back.                                             *)
LEMMA FdFacts ==
    ASSUME NEW c \in Channels
    PROVE  /\ Fd[c] \in Fds /\ Fd[c] \in Nat
           /\ Ignored(Fd[c]) \in Int /\ Ignored(Fd[c]) < 0
           /\ \A ev : /\ FdOf([fd |-> Fd[c], ev |-> ev]) = Fd[c]
                      /\ FdOf([fd |-> Ignored(Fd[c]), ev |-> ev]) = Fd[c]
BY FdAssumption DEF Fds, Ignored, FdOf

(* The order of a round is a sequence of the channels that are ready.      *)
LEMMA OrderFacts ==
    ASSUME NEW ready \in SUBSET Channels, NEW q \in Orders(ready)
    PROVE  /\ q \in Seq(Channels)
           /\ \A i \in 1..Len(q) : q[i] \in ready
           /\ \A i, j \in 1..Len(q) : q[i] = q[j] => i = j
<1>1. Cardinality(ready) \in Nat
  BY ChannelAssumption, FS_Subset, FS_CardinalityType
<1>2. QED
  BY <1>1 DEF Orders

-----------------------------------------------------------------------------
(* Types.                                                                  *)
LEMMA TypeStep == IInv /\ [Next]_vars => TypeOK'
<1> SUFFICES ASSUME IInv, [Next]_vars PROVE TypeOK'
  OBVIOUS
<1>0. TypeOK
  BY DEF IInv
<1> USE DEF chanVars, regVars, roundVars
<1>1. ASSUME NEW c \in Channels, NewChannel(c) \/ Destroy(c) PROVE TypeOK'
  <2>1. /\ live' \in SUBSET Channels
        /\ events' = [events EXCEPT ![c] = {}]
        /\ revents' = [revents EXCEPT ![c] = {}]
        /\ index' = [index EXCEPT ![c] = kNew]
        /\ UNCHANGED <<kind, map, epoll, pollfds, size, active, pos, reported, called>>
    BY <1>0, <1>1 DEF TypeOK, NewChannel, Destroy, Constructed
  <2>2. QED
    BY <1>0, <2>1 DEF TypeOK, kNew
<1>2. ASSUME NEW c \in Channels, NEW ev \in NextEvents(c), Update(c, ev) PROVE TypeOK'
  <2>1. ev \in SUBSET Events /\ Fd[c] \in Fds /\ Fd[c] \in Nat /\ Ignored(Fd[c]) \in Int
    BY <1>0, FdFacts DEF TypeOK, NextEvents, Events
  <2>2. /\ events' = [events EXCEPT ![c] = ev]
        /\ UNCHANGED <<kind, live, revents, size, active, pos, reported, called>>
    BY <1>2 DEF Update
  <2>3. CASE kind = "epoll"
    <3>1. EPollUpdate(c, ev)
      BY <1>2, <2>3 DEF Update
    <3>2. [ptr |-> c, ev |-> ev] \in [ptr : Channels, ev : SUBSET Events] \union {None}
      BY <2>1
    <3>3. epoll' \in [Fds -> [ptr : Channels, ev : SUBSET Events] \union {None}]
      BY <1>0, <2>1, <3>1, <3>2 DEF TypeOK, EPollUpdate
    <3>4. /\ index' \in [Channels -> Int] /\ map' \in [Fds -> Channels \union {None}]
          /\ UNCHANGED pollfds
      BY <1>0, <2>1, <3>1 DEF TypeOK, EPollUpdate, kAdded, kDeleted
    <3>5. QED
      BY <1>0, <2>1, <2>2, <3>3, <3>4 DEF TypeOK
  <2>4. CASE kind = "poll"
    <3>1. PollUpdate(c, ev)
      BY <1>2, <2>4 DEF Update
    <3>2. \A fd \in Int : [fd |-> fd, ev |-> ev] \in [fd : Int, ev : SUBSET Events]
      BY <2>1
    <3> DEFINE E == [fd : Int, ev : SUBSET Events]
    <3>3. pollfds \in Seq(E)
      BY <1>0 DEF TypeOK
    <3>4. PICK e \in E : \/ pollfds' = Append(pollfds, e)
                         \/ pollfds' = [pollfds EXCEPT ![index[c] + 1] = e]
      BY <2>1, <3>1, <3>2 DEF PollUpdate
    <3>5. pollfds' \in Seq(E)
      <4> HIDE DEF E
      <4> QED
        BY <3>3, <3>4, ExceptSeq
    <3>6. /\ index' \in [Channels -> Int] /\ map' \in [Fds -> Channels \union {None}]
          /\ UNCHANGED epoll
      <4>1. index \in [Channels -> Int] /\ map \in [Fds -> Channels \union {None}]
        BY <1>0 DEF TypeOK
      <4>2. Len(pollfds) \in Int
        BY <3>3, LenProperties
      <4>3. QED
        BY <2>1, <3>1, <4>1, <4>2 DEF PollUpdate
    <3>7. QED
      BY <1>0, <2>1, <2>2, <3>5, <3>6 DEF TypeOK
  <2>5. QED
    BY <1>0, <2>3, <2>4 DEF TypeOK
<1>3. ASSUME NEW c \in Channels, Remove(c) PROVE TypeOK'
  <2>1. /\ Fd[c] \in Fds
        /\ UNCHANGED <<kind, live, events, revents, size, active, pos, reported, called>>
    BY <1>3, FdFacts DEF Remove
  <2>2. CASE kind = "epoll"
    <3>1. EPollRemove(c)
      BY <1>3, <2>2 DEF Remove
    <3>2. QED
      BY <1>0, <2>1, <3>1 DEF TypeOK, EPollRemove, kNew
  <2>3. CASE kind = "poll"
    <3>1. PollRemove(c) /\ index[c] + 1 \in 1..Len(pollfds)
      BY <1>3, <2>3 DEF Remove, IInv, PollInv, PollChannel
    <3> DEFINE E == [fd : Int, ev : SUBSET Events]
    <3>2. pollfds' \in Seq(E)
      <4>1. pollfds \in Seq(E)
        BY <1>0 DEF TypeOK
      <4>2. pollfds' = SubSeq([pollfds EXCEPT ![index[c] + 1] = pollfds[Len(pollfds)]],
                              1, Len(pollfds) - 1)
        BY <3>1 DEF PollRemove
      <4> HIDE DEF E
      <4> QED
        BY <3>1, <4>1, <4>2
    <3>3. index' \in [Channels -> Int] /\ map' \in [Fds -> Channels \union {None}]
      BY <1>0, <2>1, <3>1 DEF TypeOK, PollRemove
    <3>4. UNCHANGED epoll
      BY <3>1 DEF PollRemove
    <3>5. QED
      BY <1>0, <2>1, <3>2, <3>3, <3>4 DEF TypeOK
  <2>4. QED
    BY <1>0, <2>2, <2>3 DEF TypeOK
<1>4. CASE Poll
  <2>1. PICK ready \in SUBSET Channels : \E r \in [ready -> SUBSET Revents] :
           /\ IF kind = "epoll" THEN EPollFill(ready, r) ELSE PollFill(ready, r)
           /\ active' \in Orders(ready)
           /\ reported' = [c \in Channels |-> IF c \in ready THEN r[c] ELSE {}]
    BY <1>4 DEF Poll
  <2>2. active' \in Seq(Channels)
    BY <2>1, OrderFacts
  <2>3. revents' \in [Channels -> SUBSET Revents] /\ size' \in Nat
    <3>1. revents \in [Channels -> SUBSET Revents] /\ size \in Nat
      BY <1>0 DEF TypeOK
    <3>2. QED
      BY <2>1, <3>1 DEF EPollFill, PollFill
  <2>4. pos' \in 0..Len(active')
    BY <1>4, <2>2 DEF Poll
  <2>5. called' \in SUBSET {"close", "error", "read", "write"}
    BY <1>4 DEF Poll, Callbacks
  <2>6. reported' \in [Channels -> SUBSET Revents]
    BY <2>1
  <2>7. UNCHANGED <<kind, live, events, index, map, epoll, pollfds>>
    BY <1>4 DEF Poll
  <2>8. QED
    BY <1>0, <2>2, <2>3, <2>4, <2>5, <2>6, <2>7 DEF TypeOK
<1>5. CASE HandleNext \/ EndRound
  <2>1. called' \in SUBSET {"close", "error", "read", "write"}
    BY <1>5 DEF HandleNext, EndRound, Callbacks
  <2>2. QED
    <3>1. CASE HandleNext
      BY <1>0, <2>1, <3>1 DEF TypeOK, HandleNext
    <3>2. CASE EndRound
      BY <1>0, <2>1, <3>2 DEF TypeOK, EndRound
    <3>3. QED
      BY <1>5, <3>1, <3>2
<1>6. CASE UNCHANGED vars
  BY <1>0, <1>6 DEF TypeOK, vars
<1>7. QED
  BY <1>1, <1>2, <1>3, <1>4, <1>5, <1>6 DEF Next

-----------------------------------------------------------------------------
(* updateChannel leaves the channel in channels_, where there was none or  *)
(* itself; removeChannel takes it out.                                     *)
LEMMA UpdateMap ==
    ASSUME IInv, NEW c \in Channels, NEW ev \in NextEvents(c), Update(c, ev)
    PROVE  /\ c \in live
           /\ map' = [map EXCEPT ![Fd[c]] = c]
           /\ map[Fd[c]] \in {None, c}
           /\ UNCHANGED <<kind, live, active, pos>>
<1>1. /\ c \in live /\ Fd[c] \in Fds
      /\ map \in [Fds -> Channels \union {None}]
      /\ UNCHANGED <<kind, live, active, pos>>
  BY FdFacts DEF Update, IInv, TypeOK, roundVars
<1>2. map[Fd[c]] \in {None, c}
  BY <1>1 DEF IInv, MapInv
<1>3. (map' = map /\ Registered(c)) \/ map' = [map EXCEPT ![Fd[c]] = c]
  <2>1. index[c] # kNew => Registered(c)
    BY DEF Update
  <2>2. kind = "poll" /\ ~(index[c] < 0) => Registered(c)
    BY <1>1, <2>1 DEF IInv, TypeOK, PollInv, PollChannel, kNew
  <2>3. QED
    BY <2>1, <2>2 DEF Update, EPollUpdate, PollUpdate, IInv, TypeOK
<1>4. QED
  BY <1>1, <1>2, <1>3 DEF Registered

(* removeChannel takes the channel out of channels_.                       *)
LEMMA RemoveMap ==
    ASSUME IInv, NEW c \in Channels, Remove(c)
    PROVE  /\ c \in live /\ Registered(c)
           /\ map' = [map EXCEPT ![Fd[c]] = None]
           /\ UNCHANGED <<kind, live, active, pos>>
BY DEF Remove, EPollRemove, PollRemove, roundVars

(* Everything else leaves it alone.                                        *)
LEMMA MapStep == IInv /\ [Next]_vars => MapInv'
<1> SUFFICES ASSUME IInv, [Next]_vars PROVE MapInv'
  OBVIOUS
<1>0. /\ MapInv
      /\ map \in [Fds -> Channels \union {None}] /\ live \in SUBSET Channels
  BY DEF IInv, TypeOK
<1> USE DEF MapInv, chanVars, regVars, roundVars
<1>1. ASSUME NEW c \in Channels, NewChannel(c) \/ Destroy(c) PROVE MapInv'
  BY <1>0, <1>1, FdFacts DEF NewChannel, Destroy, Registered
<1>2. ASSUME NEW c \in Channels, NEW ev \in NextEvents(c), Update(c, ev) PROVE MapInv'
  BY <1>0, <1>2, UpdateMap, FdFacts
<1>3. ASSUME NEW c \in Channels, Remove(c) PROVE MapInv'
  BY <1>0, <1>3, RemoveMap, FdFacts
<1>4. CASE Poll \/ HandleNext \/ EndRound
  BY <1>0, <1>4 DEF Poll, HandleNext, EndRound
<1>5. CASE UNCHANGED vars
  BY <1>0, <1>5 DEF vars
<1>6. QED
  BY <1>1, <1>2, <1>3, <1>4, <1>5 DEF Next

(* EPollPoller.                                                            *)
LEMMA EPollStep == IInv /\ [Next]_vars => EPollInv'
<1> SUFFICES ASSUME IInv, [Next]_vars, kind' = "epoll" PROVE EPollInv'
  BY DEF EPollInv
<1>0. kind = "epoll"
  BY DEF Next, NewChannel, Update, Remove, Destroy, Poll, HandleNext, EndRound, vars
<1>a. /\ pollfds = <<>>
      /\ \A c \in live : EPollChannel(c)
      /\ \A f \in Fds : EPollEntry(f)
      /\ MapInv
  BY <1>0 DEF IInv, EPollInv
<1>b. /\ live \in SUBSET Channels
      /\ events \in [Channels -> SUBSET Events] /\ index \in [Channels -> Int]
      /\ map \in [Fds -> Channels \union {None}]
      /\ epoll \in [Fds -> [ptr : Channels, ev : SUBSET Events] \union {None}]
  BY DEF IInv, TypeOK
<1> USE DEF chanVars, regVars, roundVars, Registered, kNew, kAdded, kDeleted
<1>1. ASSUME NEW c \in Channels, NewChannel(c) \/ Destroy(c) PROVE EPollInv'
  <2>1. /\ events' = [events EXCEPT ![c] = {}] /\ index' = [index EXCEPT ![c] = kNew]
        /\ UNCHANGED <<map, epoll, pollfds>>
        /\ live' \in {live \union {c}, live \ {c}}
    BY <1>1 DEF NewChannel, Destroy, Constructed
  <2>2. ~Registered(c)
    BY <1>1, <1>a, FdFacts, NoneAssumption DEF NewChannel, Destroy, MapInv
  <2>3. ASSUME NEW f \in Fds PROVE EPollEntry(f)'
    <3>1. CASE epoll[f] = None
      BY <2>1, <3>1 DEF EPollEntry
    <3>2. CASE epoll[f] # None
      <4>1. map[f] # None /\ map[f] # c /\ map[f] \in Channels
        BY <1>a, <1>b, <2>2, <3>2, NoneAssumption DEF EPollEntry, MapInv
      <4>2. QED
        BY <1>a, <1>b, <2>1, <3>2, <4>1 DEF EPollEntry
    <3>3. QED
      BY <3>1, <3>2
  <2>4. ASSUME NEW d \in live' PROVE EPollChannel(d)'
    <3>1. CASE d = c
      <4>1. epoll[Fd[c]] # None => epoll[Fd[c]].ptr # c
        BY <1>a, <2>2, FdFacts DEF EPollEntry
      <4>2. QED
        BY <1>b, <2>1, <2>2, <3>1, <4>1 DEF EPollChannel
    <3>2. CASE d # c
      BY <1>a, <1>b, <2>1, <3>2 DEF EPollChannel
    <3>3. QED
      BY <3>1, <3>2
  <2>5. QED
    BY <1>a, <2>1, <2>3, <2>4 DEF EPollInv
<1>2. ASSUME NEW c \in Channels, NEW ev \in NextEvents(c), Update(c, ev) PROVE EPollInv'
  <2>1. /\ ev \in SUBSET Events /\ Fd[c] \in Fds
        /\ [ptr |-> c, ev |-> ev] # None
    BY <1>b, FdFacts, NoneAssumption DEF NextEvents, Events
  <2>2. /\ events' = [events EXCEPT ![c] = ev]
        /\ map' = [map EXCEPT ![Fd[c]] = c] /\ map[Fd[c]] \in {None, c}
        /\ c \in live /\ live' = live
    BY <1>2, UpdateMap DEF Update
  <2>3. /\ UNCHANGED pollfds
        /\ \/ /\ index[c] = kAdded /\ ev = {}
              /\ index' = [index EXCEPT ![c] = kDeleted]
              /\ epoll' = [epoll EXCEPT ![Fd[c]] = None]
           \/ /\ index' = [index EXCEPT ![c] = kAdded]
              /\ epoll' = [epoll EXCEPT ![Fd[c]] = [ptr |-> c, ev |-> ev]]
    BY <1>0, <1>2 DEF Update, EPollUpdate
  <2>4. ASSUME NEW f \in Fds PROVE EPollEntry(f)'
    <3>1. CASE f = Fd[c]
      BY <1>b, <2>1, <2>2, <2>3, <3>1 DEF EPollEntry
    <3>2. CASE f # Fd[c]
      <4>1. epoll'[f] = epoll[f] /\ map'[f] = map[f]
        BY <1>b, <2>1, <2>2, <2>3, <3>2
      <4>2. map[f] # None => map[f] # c /\ map[f] \in Channels
        BY <1>a, <1>b, <3>2 DEF MapInv
      <4>3. epoll[f] # None => map[f] # None
        BY <1>a, <1>b, NoneAssumption DEF EPollEntry
      <4>4. QED
        BY <1>a, <1>b, <2>2, <4>1, <4>2, <4>3 DEF EPollEntry
    <3>3. QED
      BY <3>1, <3>2
  <2>5. ASSUME NEW d \in live' PROVE EPollChannel(d)'
    <3>1. CASE d = c
      BY <1>b, <2>1, <2>2, <2>3, <3>1 DEF EPollChannel
    <3>2. CASE d # c
      <4>1. Fd[d] # Fd[c] /\ Fd[d] \in Fds /\ d \in live
        BY <1>a, <1>b, <2>2, <3>2, FdFacts DEF MapInv
      <4>2. QED
        BY <1>a, <1>b, <2>1, <2>2, <2>3, <3>2, <4>1 DEF EPollChannel
    <3>3. QED
      BY <3>1, <3>2
  <2>6. QED
    BY <1>a, <2>3, <2>4, <2>5 DEF EPollInv
<1>3. ASSUME NEW c \in Channels, Remove(c) PROVE EPollInv'
  <2>1. /\ c \in live /\ live' = live /\ Registered(c) /\ Fd[c] \in Fds
        /\ map' = [map EXCEPT ![Fd[c]] = None]
        /\ UNCHANGED <<events, pollfds>>
        /\ index' = [index EXCEPT ![c] = kNew]
        /\ epoll' = IF index[c] = kAdded THEN [epoll EXCEPT ![Fd[c]] = None] ELSE epoll
    BY <1>0, <1>3, FdFacts DEF Remove, EPollRemove
  <2>2. epoll'[Fd[c]] = None
    BY <1>a, <1>b, <2>1 DEF EPollChannel, EPollEntry
  <2>3. ASSUME NEW f \in Fds PROVE EPollEntry(f)'
    <3>1. CASE f = Fd[c]
      BY <2>2, <3>1 DEF EPollEntry
    <3>2. CASE f # Fd[c]
      BY <1>a, <1>b, <2>1, <3>2 DEF EPollEntry
    <3>3. QED
      BY <3>1, <3>2
  <2>4. ASSUME NEW d \in live' PROVE EPollChannel(d)'
    <3>1. CASE d = c
      BY <1>b, <2>1, <2>2, <3>1, NoneAssumption DEF EPollChannel
    <3>2. CASE d # c
      <4>1. Fd[d] # Fd[c] /\ Fd[d] \in Fds /\ d \in live
        BY <1>a, <1>b, <2>1, <3>2, FdFacts DEF MapInv
      <4>2. QED
        BY <1>a, <1>b, <2>1, <3>2, <4>1 DEF EPollChannel
    <3>3. QED
      BY <3>1, <3>2
  <2>5. QED
    BY <1>a, <2>1, <2>3, <2>4 DEF EPollInv
<1>4. CASE Poll \/ HandleNext \/ EndRound
  BY <1>a, <1>4 DEF Poll, HandleNext, EndRound, EPollInv, EPollChannel, EPollEntry
<1>5. CASE UNCHANGED vars
  BY <1>a, <1>5 DEF vars, EPollInv, EPollChannel, EPollEntry
<1>6. QED
  BY <1>1, <1>2, <1>3, <1>4, <1>5 DEF Next

(* PollPoller.  FdOf takes an entry back to the channel's descriptor.      *)
LEMMA EntryFd ==
    ASSUME NEW c \in Channels, NEW e, IsEntry(e, c)
    PROVE  FdOf(e) = Fd[c]
BY FdAssumption DEF IsEntry, FdOf, Ignored

(* An entry of pollfds_ is one channel's.                                  *)
LEMMA EntryOfOne ==
    ASSUME IInv, kind = "poll", NEW c \in live, NEW d \in live,
           Registered(c), Registered(d), index[c] = index[d]
    PROVE  c = d
<1>1. IsEntry(pollfds[index[c] + 1], c) /\ IsEntry(pollfds[index[d] + 1], d)
  BY DEF IInv, PollInv, PollChannel
<1>2. c \in Channels /\ d \in Channels
  BY DEF IInv, TypeOK
<1>3. Fd[c] = Fd[d]
  BY <1>1, <1>2, EntryFd
<1>4. QED
  BY <1>3 DEF IInv, MapInv

(* PollPoller keeps entries and channels in correspondence.                *)
LEMMA PollStep == IInv /\ [Next]_vars => PollInv'
<1> SUFFICES ASSUME IInv, [Next]_vars, kind' = "poll" PROVE PollInv'
  BY DEF PollInv
<1>0. kind = "poll"
  BY DEF Next, NewChannel, Update, Remove, Destroy, Poll, HandleNext, EndRound, vars
<1>a. /\ \A f \in Fds : epoll[f] = None
      /\ \A c \in live : PollChannel(c)
      /\ \A i \in 1..Len(pollfds) : \E c \in live : Registered(c) /\ index[c] + 1 = i
      /\ MapInv
  BY <1>0 DEF IInv, PollInv
<1>b. /\ live \in SUBSET Channels
      /\ events \in [Channels -> SUBSET Events] /\ index \in [Channels -> Int]
      /\ map \in [Fds -> Channels \union {None}]
      /\ pollfds \in Seq([fd : Int, ev : SUBSET Events])
  BY DEF IInv, TypeOK
<1> USE DEF chanVars, regVars, roundVars, Registered, kNew
<1>1. ASSUME NEW c \in Channels, NewChannel(c) \/ Destroy(c) PROVE PollInv'
  <2>1. /\ events' = [events EXCEPT ![c] = {}] /\ index' = [index EXCEPT ![c] = kNew]
        /\ UNCHANGED <<map, epoll, pollfds>>
        /\ live' \in {live \union {c}, live \ {c}}
    BY <1>1 DEF NewChannel, Destroy, Constructed
  <2>2. ~Registered(c)
    BY <1>1, <1>a, FdFacts, NoneAssumption DEF NewChannel, Destroy, MapInv
  <2>3. ASSUME NEW d \in live' PROVE PollChannel(d)'
    <3>1. CASE d = c
      BY <1>b, <2>1, <2>2, <3>1 DEF PollChannel
    <3>2. CASE d # c
      BY <1>a, <1>b, <2>1, <3>2 DEF PollChannel, IsEntry
    <3>3. QED
      BY <3>1, <3>2
  <2>4. ASSUME NEW i \in 1..Len(pollfds')
        PROVE  \E d \in live' : Registered(d)' /\ index'[d] + 1 = i
    <3>1. PICK d \in live : Registered(d) /\ index[d] + 1 = i
      BY <1>a, <2>1
    <3>2. d # c /\ d \in live' /\ index'[d] = index[d]
      BY <1>b, <2>1, <2>2, <3>1
    <3>3. QED
      BY <2>1, <3>1, <3>2
  <2>5. QED
    BY <1>a, <2>1, <2>3, <2>4 DEF PollInv
<1>2. ASSUME NEW c \in Channels, NEW ev \in NextEvents(c), Update(c, ev) PROVE PollInv'
  <2>1. /\ events' = [events EXCEPT ![c] = ev]
        /\ map' = [map EXCEPT ![Fd[c]] = c]
        /\ c \in live /\ live' = live
        /\ ev \in SUBSET Events /\ Fd[c] \in Fds
    <3>1. ev \in SUBSET Events
      BY <1>b DEF NextEvents, Events
    <3>2. events' = [events EXCEPT ![c] = ev] /\ c \in live /\ live' = live
      BY <1>2 DEF Update
    <3>3. map' = [map EXCEPT ![Fd[c]] = c] /\ Fd[c] \in Fds
      BY <1>2, UpdateMap, FdFacts
    <3>4. QED
      BY <3>1, <3>2, <3>3
  <2>2. PollUpdate(c, ev) /\ UNCHANGED epoll
    BY <1>0, <1>2 DEF Update, PollUpdate
  <2>3. \A d \in live : d # c => Fd[d] # Fd[c] /\ Fd[d] \in Fds /\ Registered(d)' = Registered(d)
    BY <1>a, <1>b, <2>1, FdFacts DEF MapInv
  <2>4. Registered(c)'
    BY <1>b, <2>1
  <2>5. CASE index[c] < 0
    <3>1. /\ ~Registered(c)
          /\ pollfds' = Append(pollfds, [fd |-> Fd[c], ev |-> ev])
          /\ index' = [index EXCEPT ![c] = Len(pollfds)]
      BY <1>2, <1>a, <1>b, <2>1, <2>2, <2>5 DEF Update, PollUpdate, PollChannel
    <3>2. /\ Len(pollfds) \in Nat /\ Len(pollfds') = Len(pollfds) + 1
          /\ pollfds'[Len(pollfds) + 1] = [fd |-> Fd[c], ev |-> ev]
          /\ \A i \in 1..Len(pollfds) : pollfds'[i] = pollfds[i]
      BY <1>b, <3>1
    <3>3. ASSUME NEW d \in live' PROVE PollChannel(d)'
      <4>1. CASE d = c
        BY <1>b, <2>1, <3>1, <3>2, <4>1 DEF PollChannel, IsEntry
      <4>2. CASE d # c
        BY <1>a, <1>b, <2>1, <2>3, <3>1, <3>2, <4>2 DEF PollChannel, IsEntry
      <4>3. QED
        BY <4>1, <4>2
    <3>4. ASSUME NEW i \in 1..Len(pollfds')
          PROVE  \E d \in live' : Registered(d)' /\ index'[d] + 1 = i
      <4>1. CASE i = Len(pollfds) + 1
        BY <1>b, <2>1, <2>4, <3>1, <3>2, <4>1
      <4>2. CASE i # Len(pollfds) + 1
        <5>1. PICK d \in live : Registered(d) /\ index[d] + 1 = i
          BY <1>a, <3>2, <4>2
        <5>2. d # c
          BY <3>1, <5>1
        <5>3. QED
          BY <1>b, <2>1, <2>3, <3>1, <5>1, <5>2
      <4>3. QED
        BY <4>1, <4>2
    <3>5. QED
      BY <1>a, <2>2, <3>3, <3>4 DEF PollInv
  <2>6. CASE ~(index[c] < 0)
    <3>1. /\ Registered(c) /\ index' = index
          /\ pollfds' = [pollfds EXCEPT ![index[c] + 1] =
                [fd |-> IF ev = {} THEN Ignored(Fd[c]) ELSE Fd[c], ev |-> ev]]
      BY <1>2, <1>a, <1>b, <2>1, <2>2, <2>6 DEF Update, PollUpdate, PollChannel
    <3>2. index[c] + 1 \in 1..Len(pollfds)
      BY <1>a, <2>1, <3>1 DEF PollChannel
    <3>3. /\ Len(pollfds') = Len(pollfds)
          /\ \A i \in 1..Len(pollfds) : i # index[c] + 1 => pollfds'[i] = pollfds[i]
          /\ pollfds'[index[c] + 1] =
                [fd |-> IF ev = {} THEN Ignored(Fd[c]) ELSE Fd[c], ev |-> ev]
      BY <1>b, <3>1, <3>2
    <3>4. ASSUME NEW d \in live' PROVE PollChannel(d)'
      <4>1. CASE d = c
        BY <1>a, <1>b, <2>1, <3>1, <3>2, <3>3, <4>1 DEF PollChannel, IsEntry
      <4>2. CASE d # c
        <5>1. Registered(d) => index[d] # index[c]
          BY <1>0, <2>1, <3>1, <4>2, EntryOfOne
        <5>2. events'[d] = events[d] /\ index'[d] = index[d] /\ index[d] \in Int /\ index[c] \in Int
          BY <1>b, <2>1, <3>1, <4>2
        <5>3. QED
          BY <1>a, <2>1, <2>3, <3>1, <3>3, <4>2, <5>1, <5>2 DEF PollChannel, IsEntry
      <4>3. QED
        BY <4>1, <4>2
    <3>5. ASSUME NEW i \in 1..Len(pollfds')
          PROVE  \E d \in live' : Registered(d)' /\ index'[d] + 1 = i
      <4>1. PICK d \in live : Registered(d) /\ index[d] + 1 = i
        BY <1>a, <3>3
      <4>2. Registered(d)'
        BY <2>3, <2>4, <4>1
      <4>3. QED
        BY <2>1, <3>1, <4>1, <4>2
    <3>6. QED
      BY <1>a, <2>2, <3>4, <3>5 DEF PollInv
  <2>7. QED
    BY <2>5, <2>6
<1>3. ASSUME NEW c \in Channels, Remove(c) PROVE PollInv'
  <2> DEFINE n == Len(pollfds)
             i == index[c] + 1
  <2>1. /\ c \in live /\ live' = live /\ Registered(c) /\ Fd[c] \in Fds
        /\ map' = [map EXCEPT ![Fd[c]] = None]
        /\ events' = events
    BY <1>3, RemoveMap, FdFacts DEF Remove
  <2>2. PollRemove(c) /\ UNCHANGED epoll
    BY <1>0, <1>3 DEF Remove, PollRemove
  <2>3. /\ n \in Nat /\ n > 0 /\ i \in 1..n
        /\ IsEntry(pollfds[i], c)
    BY <1>a, <1>b, <2>1 DEF PollChannel
  <2>4. /\ Len(pollfds') = n - 1
        /\ \A j \in 1..(n - 1) : pollfds'[j] = IF j = i THEN pollfds[n] ELSE pollfds[j]
    <3>1. pollfds' = SubSeq([pollfds EXCEPT ![i] = pollfds[n]], 1, n - 1)
      BY <2>2 DEF PollRemove
    <3> DEFINE E == [fd : Int, ev : SUBSET Events]
    <3>2. pollfds \in Seq(E)
      BY <1>b
    <3>3. QED
      <4> HIDE DEF E
      <4>1. [pollfds EXCEPT ![i] = pollfds[n]] \in Seq(E) /\ Len([pollfds EXCEPT ![i] = pollfds[n]]) = n
        BY <2>3, <3>2
      <4>2. QED
        BY <2>3, <3>1, <3>2, <4>1
  <2>5. PICK d \in live : Registered(d) /\ index[d] + 1 = n
    <3>1. n \in 1..Len(pollfds)
      BY <2>3
    <3>2. QED
      BY <1>a, <3>1
  <2>6. /\ IsEntry(pollfds[n], d) /\ map[FdOf(pollfds[n])] = d
        /\ i = n <=> d = c
    <3>1. d \in Channels /\ index[d] \in Int /\ index[c] \in Int
      BY <1>b
    <3>2. IsEntry(pollfds[n], d)
      BY <1>a, <2>5 DEF PollChannel
    <3>3. FdOf(pollfds[n]) = Fd[d]
      BY <3>1, <3>2, EntryFd
    <3>4. i = n => d = c
      BY <1>0, <2>1, <2>5, <3>1, EntryOfOne
    <3>5. QED
      BY <2>5, <3>2, <3>3, <3>4
  <2>7. index' = IF d = c THEN index ELSE [index EXCEPT ![d] = index[c]]
    BY <2>2, <2>6 DEF PollRemove
  <2>8. \A e \in live : e # c => Fd[e] # Fd[c] /\ Fd[e] \in Fds /\ Registered(e)' = Registered(e)
    BY <1>a, <1>b, <2>1, FdFacts DEF MapInv
  <2>9. ~Registered(c)'
    BY <1>b, <2>1, NoneAssumption
  <2>10. ASSUME NEW e \in live' PROVE PollChannel(e)'
    <3>0. e \in live /\ PollChannel(e) /\ index[e] \in Int /\ index[c] \in Int /\ index[c] >= 0
      BY <1>a, <1>b, <2>1, <2>3
    <3>1. CASE e = c
      <4>1. index'[e] = index[e]
        BY <1>b, <2>7, <3>1
      <4>2. QED
        BY <2>9, <3>0, <3>1, <4>1 DEF PollChannel
    <3>2. CASE e # c /\ e = d
      <4>1. index'[e] = index[c]
        BY <1>b, <2>7, <3>2
      <4>2. i # n
        BY <2>6, <3>2
      <4>3. i \in 1..(n - 1)
        BY <2>3, <4>2
      <4>4. pollfds'[i] = pollfds[n]
        BY <2>4, <4>3
      <4>5. QED
        BY <2>1, <2>4, <2>6, <3>0, <3>2, <4>1, <4>3, <4>4 DEF PollChannel, IsEntry
    <3>3. CASE e # c /\ e # d
      <4>1. index'[e] = index[e]
        BY <1>b, <2>7, <3>0, <3>3
      <4>2. Registered(e) => index[e] # index[c] /\ index[e] # index[d]
        BY <1>0, <2>1, <2>5, <3>0, <3>3, EntryOfOne
      <4>3. Registered(e) => index[e] + 1 \in 1..(n - 1) /\ index[e] + 1 # i
        BY <1>b, <2>3, <2>5, <3>0, <4>2 DEF PollChannel
      <4>4. Registered(e) => pollfds'[index[e] + 1] = pollfds[index[e] + 1]
        BY <2>4, <4>3
      <4>5. Registered(e)' = Registered(e)
        BY <2>8, <3>0, <3>3
      <4>6. QED
        BY <2>1, <2>4, <3>0, <4>1, <4>3, <4>4, <4>5 DEF PollChannel, IsEntry
    <3>4. QED
      BY <3>1, <3>2, <3>3
  <2>11. ASSUME NEW j \in 1..Len(pollfds')
         PROVE  \E e \in live' : Registered(e)' /\ index'[e] + 1 = j
    <3>1. j \in 1..(n - 1)
      BY <2>4
    <3>2. CASE j = i
      <4>1. d # c
        BY <2>3, <2>6, <3>1, <3>2
      <4>2. index'[d] = index[c] /\ Registered(d)'
        BY <1>b, <2>5, <2>7, <2>8, <4>1
      <4>3. QED
        BY <2>1, <2>5, <3>2, <4>2
    <3>3. CASE j # i
      <4>1. PICK e \in live : Registered(e) /\ index[e] + 1 = j
        BY <1>a, <2>3, <3>1
      <4>2. e # c /\ e # d
        BY <2>3, <2>5, <3>1, <3>3, <4>1
      <4>3. index'[e] = index[e] /\ Registered(e)'
        BY <1>b, <2>7, <2>8, <4>1, <4>2
      <4>4. QED
        BY <2>1, <4>1, <4>3
    <3>4. QED
      BY <3>2, <3>3
  <2>12. QED
    BY <1>a, <2>2, <2>10, <2>11 DEF PollInv
<1>4. CASE Poll \/ HandleNext \/ EndRound
  BY <1>a, <1>4 DEF Poll, HandleNext, EndRound, PollInv, PollChannel, IsEntry
<1>5. CASE UNCHANGED vars
  BY <1>a, <1>5 DEF vars, PollInv, PollChannel, IsEntry
<1>6. QED
  BY <1>1, <1>2, <1>3, <1>4, <1>5 DEF Next

(* The rest of a round.                                                    *)
LEMMA RoundStep == IInv /\ [Next]_vars => RoundInv'
<1> SUFFICES ASSUME IInv, [Next]_vars PROVE RoundInv'
  OBVIOUS
<1>0. /\ RoundInv /\ MapInv
      /\ active \in Seq(Channels) /\ pos \in 0..Len(active)
      /\ map \in [Fds -> Channels \union {None}] /\ live \in SUBSET Channels
  BY DEF IInv, TypeOK
<1> USE DEF RoundInv, chanVars, regVars, roundVars, Registered
<1>1. ASSUME NEW c \in Channels, NewChannel(c) \/ Destroy(c) PROVE RoundInv'
  BY <1>0, <1>1 DEF NewChannel, Destroy, Current
<1>2. ASSUME NEW c \in Channels, NEW ev \in NextEvents(c), Update(c, ev) PROVE RoundInv'
  BY <1>0, <1>2, UpdateMap, FdFacts DEF MapInv
<1>3. ASSUME NEW c \in Channels, Remove(c) PROVE RoundInv'
  <2>1. pos # 0 => c = Current \/ \A i \in 1..Len(active) : active[i] # c
    BY <1>3 DEF Remove
  <2>2. \A i \in 1..Len(active) : i > pos => active[i] # c
    BY <1>0, <2>1 DEF Current
  <2>3. \A i \in 1..Len(active) : i > pos => Fd[active[i]] # Fd[c]
    BY <1>0, <1>3, <2>2, RemoveMap
  <2>4. /\ map' = [map EXCEPT ![Fd[c]] = None] /\ UNCHANGED <<live, active, pos>>
    BY <1>3, RemoveMap
  <2>5. \A i \in 1..Len(active) : active[i] \in Channels /\ Fd[active[i]] \in Fds
    BY <1>0, FdFacts
  <2>6. \A i \in 1..Len(active) : i > pos => map'[Fd[active[i]]] = map[Fd[active[i]]]
    BY <1>0, <2>3, <2>4, <2>5
  <2>7. QED
    BY <1>0, <2>4, <2>6
<1>4. CASE Poll
  <2>1. PICK ready \in SUBSET {c \in Channels : Reports(c) # {}} : active' \in Orders(ready)
    BY <1>4 DEF Poll
  <2>2. \A c \in ready : Registered(c) /\ c \in live
    <3> SUFFICES ASSUME NEW c \in ready PROVE Registered(c) /\ c \in live
      OBVIOUS
    <3>1. c \in Channels /\ Reports(c) # {} /\ Fd[c] \in Fds
      BY <2>1, FdFacts
    <3>2. CASE kind = "epoll"
      <4>1. epoll[Fd[c]] # None /\ epoll[Fd[c]].ptr = c
        BY <3>1, <3>2 DEF Reports, EPollReports
      <4>2. QED
        BY <1>0, <3>1, <3>2, <4>1, NoneAssumption DEF IInv, EPollInv, EPollEntry, MapInv
    <3>3. CASE kind # "epoll"
      <4>1. Registered(c)
        BY <3>1, <3>3 DEF Reports, PollReports
      <4>2. QED
        BY <1>0, <3>1, <4>1, NoneAssumption DEF MapInv
    <3>4. QED
      BY <3>2, <3>3
  <2>3. /\ active' \in Seq(Channels)
        /\ \A i \in 1..Len(active') : active'[i] \in ready
        /\ \A i, j \in 1..Len(active') : active'[i] = active'[j] => i = j
    BY <2>1, OrderFacts
  <2>4. /\ pos' = 0 => active' = <<>>
        /\ UNCHANGED <<live, map>>
    BY <1>4 DEF Poll
  <2>5. QED
    BY <2>2, <2>3, <2>4
<1>5. CASE HandleNext \/ EndRound
  BY <1>0, <1>5 DEF HandleNext, EndRound
<1>6. CASE UNCHANGED vars
  BY <1>0, <1>6 DEF vars
<1>7. QED
  BY <1>1, <1>2, <1>3, <1>4, <1>5, <1>6 DEF Next

-----------------------------------------------------------------------------
(* The invariant holds in every behaviour, of either poller, for any       *)
(* channels on any descriptors.                                            *)
THEOREM Invariance == Spec => []IInv
<1>1. IInv /\ [Next]_vars => IInv'
  BY TypeStep, MapStep, EPollStep, PollStep, RoundStep DEF IInv
<1>2. QED
  BY InvInit, <1>1, PTL DEF Spec

(* The kernel watches each registered channel for exactly its events_ and  *)
(* nothing else, and every entry of pollfds_ is some channel's: no order   *)
(* of updateChannel and removeChannel of the two pollers loses or leaves   *)
(* behind an interest.                                                     *)
THEOREM WatchedAsAskedHolds == Spec => []WatchedAsAsked
<1>1. IInv => WatchedAsAsked
  <2> SUFFICES ASSUME IInv PROVE WatchedAsAsked
    OBVIOUS
  <2>1. /\ live \in SUBSET Channels /\ kind \in {"epoll", "poll"} /\ MapInv
        /\ events \in [Channels -> SUBSET Events] /\ index \in [Channels -> Int]
        /\ map \in [Fds -> Channels \union {None}]
    BY DEF IInv, TypeOK
  <2>2. \A c \in Channels : Registered(c) => c \in live
    BY <2>1, FdFacts, NoneAssumption DEF MapInv, Registered
  <2>3. CASE kind = "epoll"
    <3>1. pollfds = <<>>
      BY <2>3 DEF IInv, EPollInv
    <3>2. ASSUME NEW c \in Channels
          PROVE  Watched(c) = IF Registered(c) THEN events[c] ELSE {}
      <4>0. Fd[c] \in Fds /\ EPollEntry(Fd[c]) /\ (c \in live => EPollChannel(c))
        BY <2>3, FdFacts DEF IInv, EPollInv
      <4>1. CASE epoll[Fd[c]] # None /\ epoll[Fd[c]].ptr = c
        BY <2>3, <4>0, <4>1 DEF Watched, EPollEntry, Registered
      <4>2. CASE ~(epoll[Fd[c]] # None /\ epoll[Fd[c]].ptr = c)
        <5>1. Registered(c) => events[c] = {}
          BY <2>2, <4>0, <4>2 DEF EPollChannel
        <5>2. QED
          BY <2>3, <4>2, <5>1 DEF Watched
      <4>3. QED
        BY <4>1, <4>2
    <3>3. QED
      BY <3>1, <3>2 DEF WatchedAsAsked
  <2>4. CASE kind = "poll"
    <3>1. /\ \A c \in live : PollChannel(c)
          /\ \A i \in 1..Len(pollfds) : \E c \in live : Registered(c) /\ index[c] + 1 = i
      BY <2>4 DEF IInv, PollInv
    <3>2. ASSUME NEW i \in 1..Len(pollfds)
          PROVE  \E c \in live : Registered(c) /\ index[c] + 1 = i /\ IsEntry(pollfds[i], c)
      BY <3>1 DEF PollChannel
    <3>3. ASSUME NEW i \in 1..Len(pollfds)
          PROVE  FdOf(pollfds[i]) \in Fds /\ map[FdOf(pollfds[i])] # None
      <4>1. PICK c \in live : Registered(c) /\ IsEntry(pollfds[i], c)
        BY <3>2
      <4>2. c \in Channels /\ FdOf(pollfds[i]) = Fd[c]
        BY <2>1, <4>1, EntryFd
      <4>3. QED
        BY <4>1, <4>2, FdFacts, NoneAssumption DEF Registered
    <3>4. ASSUME NEW c \in Channels
          PROVE  Watched(c) = IF Registered(c) THEN events[c] ELSE {}
      <4> DEFINE places == {j \in 1..Len(pollfds) : Registered(c) /\ pollfds[j].fd = Fd[c]}
      <4>0. Watched(c) = UNION {pollfds[i].ev : i \in places}
        BY <2>4 DEF Watched
      <4>1. \A i \in places : Registered(c) /\ pollfds[i].ev = events[c]
        <5> SUFFICES ASSUME NEW i \in places PROVE Registered(c) /\ pollfds[i].ev = events[c]
          OBVIOUS
        <5>1. PICK d \in live : Registered(d) /\ IsEntry(pollfds[i], d)
          BY <3>2
        <5>2. d \in Channels /\ Fd[d] \in Nat /\ Fd[c] \in Nat /\ Ignored(Fd[d]) < 0
              /\ Ignored(Fd[d]) \in Int
          BY <2>1, FdFacts
        <5>3. Fd[d] = Fd[c]
          BY <5>1, <5>2 DEF IsEntry
        <5>4. c = d
          BY <2>1, <2>2, <5>3 DEF MapInv
        <5>5. QED
          BY <5>1, <5>4 DEF IsEntry
      <4>2. CASE Registered(c) /\ events[c] # {}
        <5>1. /\ c \in live /\ index[c] + 1 \in 1..Len(pollfds)
              /\ IsEntry(pollfds[index[c] + 1], c)
          BY <2>2, <3>1, <4>2 DEF PollChannel
        <5>2. index[c] + 1 \in places
          BY <4>2, <5>1 DEF IsEntry
        <5>3. {pollfds[i].ev : i \in places} = {events[c]}
          BY <4>1, <5>2
        <5>4. QED
          BY <4>0, <4>2, <5>3
      <4>3. CASE ~(Registered(c) /\ events[c] # {})
        <5>1. \A i \in places : pollfds[i].ev = {}
          BY <4>1, <4>3
        <5>2. UNION {pollfds[i].ev : i \in places} = {}
          BY <5>1
        <5>3. QED
          BY <4>0, <4>3, <5>2
      <4>4. QED
        BY <4>2, <4>3
    <3>5. QED
      BY <3>3, <3>4 DEF WatchedAsAsked
  <2>5. QED
    BY <2>1, <2>3, <2>4
<1>2. QED
  BY <1>1, Invariance, PTL

(* No pointer to a destroyed channel is in channels_, in the kernel's list *)
(* or still to be handled in the round.                                    *)
THEOREM NoDanglingHolds == Spec => []NoDangling
<1>1. IInv => NoDangling
  BY DEF IInv, TypeOK, MapInv, EPollInv, EPollEntry, PollInv, RoundInv, NoDangling
<1>2. QED
  BY <1>1, Invariance, PTL

(* index_ tells either poller the truth about a channel, and every         *)
(* variable keeps its type.                                                *)
THEOREM IndexIsPlaceHolds == Spec => []IndexIsPlace
<1>1. IInv => IndexIsPlace
  <2> SUFFICES ASSUME IInv PROVE IndexIsPlace
    OBVIOUS
  <2>1. TypeOK
    BY DEF IInv
  <2>2. CASE kind = "epoll"
    BY <2>1, <2>2 DEF IInv, EPollInv, EPollChannel, IndexIsPlace
  <2>3. CASE kind = "poll"
    <3>1. \A c \in live : c \in Channels /\ PollChannel(c)
      BY <2>1, <2>3 DEF IInv, PollInv, TypeOK
    <3>2. \A c \in live : Registered(c) => FdOf(pollfds[index[c] + 1]) = Fd[c]
      BY <3>1, EntryFd DEF PollChannel
    <3>3. QED
      BY <2>1, <2>3, <3>1, <3>2 DEF PollChannel, IndexIsPlace
  <2>4. QED
    BY <2>1, <2>2, <2>3 DEF TypeOK
<1>2. QED
  BY <1>1, Invariance, PTL
=============================================================================
