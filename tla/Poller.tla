------------------------------- MODULE Poller -------------------------------
(***************************************************************************)
(* networker::net::Channel with the two pollers, EPollPoller and           *)
(* PollPoller, and the part of EventLoop::loop that hands the ready        *)
(* channels out.  newDefaultPoller picks the poller from the environment,  *)
(* once.  All of it runs on the loop thread; what can go wrong lies in     *)
(* sequences of calls: channels that come and go on reused descriptors,    *)
(* and handlers that change the registrations in the middle of a round.    *)
(***************************************************************************)
EXTENDS Integers, Sequences, FiniteSets

CONSTANTS Channels,          \* the Channel objects
          Fd,                \* their descriptors; channels may share one in turn
          None,              \* no channel, no entry
          InitEventListSize, \* kInitEventListSize
          MaxEventList       \* bound: the doubling of events_ stops here

ASSUME FdAssumption == Fd \in [Channels -> Nat]
ASSUME ChannelAssumption == IsFiniteSet(Channels)
ASSUME NoneAssumption ==
    None \notin Channels /\ None \notin [ptr : Channels, ev : SUBSET {"in", "out"}]
ASSUME SizeAssumption == InitEventListSize \in Nat \ {0} /\ MaxEventList \in Nat

kNew == -1
kAdded == 1
kDeleted == 2
Events == {"in", "out"}             \* kReadEvent and kWriteEvent
Always == {"hup", "err"}            \* reported whether asked for or not
Revents == Events \union Always
Fds == {Fd[c] : c \in Channels}

VARIABLES
    kind,     \* "epoll" or "poll"
    live,     \* channels that have been constructed and not destroyed
    events,   \* events_
    revents,  \* revents_
    index,    \* index_
    map,      \* channels_: descriptor -> channel or None
    epoll,    \* the kernel's interest list: descriptor -> [ptr, ev] or None
    size,     \* events_.size() of EPollPoller
    pollfds,  \* pollfds_
    active,   \* activeChannels_
    pos,      \* the position of currentActiveChannel_ in active, 0 between rounds
    reported, \* what the kernel reported for the channels of active
    called    \* callbacks called for currentActiveChannel_

chanVars == <<live, events, revents, index>>
regVars == <<map, epoll, pollfds>>
roundVars == <<size, active, pos, reported, called>>
vars == <<kind, chanVars, regVars, roundVars>>

TypeOK ==
    /\ kind \in {"epoll", "poll"}
    /\ live \in SUBSET Channels
    /\ events \in [Channels -> SUBSET Events]
    /\ revents \in [Channels -> SUBSET Revents]
    /\ index \in [Channels -> Int]
    /\ map \in [Fds -> Channels \union {None}]
    /\ epoll \in [Fds -> [ptr : Channels, ev : SUBSET Events] \union {None}]
    /\ size \in Nat
    /\ pollfds \in Seq([fd : Int, ev : SUBSET Events])
    /\ active \in Seq(Channels)
    /\ pos \in 0..Len(active)
    /\ reported \in [Channels -> SUBSET Revents]
    /\ called \in SUBSET {"close", "error", "read", "write"}

Init ==
    /\ kind \in {"epoll", "poll"}
    /\ live = {}
    /\ events = [c \in Channels |-> {}]
    /\ revents = [c \in Channels |-> {}]
    /\ index = [c \in Channels |-> kNew]
    /\ map = [f \in Fds |-> None]
    /\ epoll = [f \in Fds |-> None]
    /\ size = InitEventListSize
    /\ pollfds = <<>>
    /\ active = <<>> /\ pos = 0
    /\ reported = [c \in Channels |-> {}]
    /\ called = {}

Registered(c) == map[Fd[c]] = c
Current == IF pos = 0 THEN None ELSE active[pos]

(* The entry PollPoller keeps for a channel that wants no events.          *)
Ignored(f) == -f - 1

-----------------------------------------------------------------------------
(* EPollPoller.                                                            *)

(* updateChannel: a new or a deleted channel is added, whatever its        *)
(* events; one that is added is modified or taken out.                     *)
EPollUpdate(c, ev) ==
    /\ map' = IF index[c] = kNew THEN [map EXCEPT ![Fd[c]] = c] ELSE map
    /\ IF index[c] = kAdded /\ ev = {}
       THEN /\ index' = [index EXCEPT ![c] = kDeleted]
            /\ epoll' = [epoll EXCEPT ![Fd[c]] = None]
       ELSE /\ index' = [index EXCEPT ![c] = kAdded]
            /\ epoll' = [epoll EXCEPT ![Fd[c]] = [ptr |-> c, ev |-> ev]]
    /\ UNCHANGED pollfds

EPollRemove(c) ==
    /\ map' = [map EXCEPT ![Fd[c]] = None]
    /\ epoll' = IF index[c] = kAdded THEN [epoll EXCEPT ![Fd[c]] = None] ELSE epoll
    /\ index' = [index EXCEPT ![c] = kNew]
    /\ UNCHANGED pollfds

(* epoll_wait reports some of the events asked for, errors and hang-ups.   *)
EPollReports(c) ==
    IF epoll[Fd[c]] # None /\ epoll[Fd[c]].ptr = c
    THEN (SUBSET (epoll[Fd[c]].ev \union Always)) \ {{}} ELSE {}

(* At most events_.size() of them at a time; fillActiveChannels copies     *)
(* them to the channels, and a full events_ is doubled.                    *)
EPollFill(ready, r) ==
    /\ Cardinality(ready) <= size
    /\ revents' = [c \in Channels |-> IF c \in ready THEN r[c] ELSE revents[c]]
    /\ size' = IF Cardinality(ready) = size /\ 2 * size <= MaxEventList
               THEN 2 * size ELSE size

-----------------------------------------------------------------------------
(* PollPoller.  Channel index i is entry i + 1 of pollfds.                 *)

(* Variant: an ignored entry is not taken up again.                        *)
PollUpdateStaysIgnored(c, ev) ==
    IF index[c] < 0
    THEN /\ pollfds' = Append(pollfds, [fd |-> Fd[c], ev |-> ev])
         /\ index' = [index EXCEPT ![c] = Len(pollfds)]
         /\ map' = [map EXCEPT ![Fd[c]] = c]
         /\ UNCHANGED epoll
    ELSE LET pfd == pollfds[index[c] + 1]
         IN  /\ pollfds' = [pollfds EXCEPT ![index[c] + 1] =
                              [fd |-> IF ev = {} THEN Ignored(Fd[c]) ELSE pfd.fd, ev |-> ev]]
             /\ UNCHANGED <<index, map, epoll>>

(* updateChannel: a new channel gets an entry at the end, with its own     *)
(* descriptor whatever its events; the entry of a registered one that      *)
(* wants no events is made negative.                                       *)
PollUpdate(c, ev) ==
    IF index[c] < 0
    THEN /\ pollfds' = Append(pollfds, [fd |-> Fd[c], ev |-> ev])
         /\ index' = [index EXCEPT ![c] = Len(pollfds)]
         /\ map' = [map EXCEPT ![Fd[c]] = c]
         /\ UNCHANGED epoll
    ELSE /\ pollfds' = [pollfds EXCEPT ![index[c] + 1] =
                          [fd |-> IF ev = {} THEN Ignored(Fd[c]) ELSE Fd[c], ev |-> ev]]
         /\ UNCHANGED <<index, map, epoll>>

FdOf(pfd) == IF pfd.fd < 0 THEN -pfd.fd - 1 ELSE pfd.fd

(* Variant: the channel of the moved entry is not told its new place.      *)
PollRemoveNoIndex(c) ==
    /\ map' = [map EXCEPT ![Fd[c]] = None]
    /\ pollfds' = SubSeq([pollfds EXCEPT ![index[c] + 1] = pollfds[Len(pollfds)]],
                         1, Len(pollfds) - 1)
    /\ UNCHANGED <<index, epoll>>

(* removeChannel: the last entry takes the place of the removed one.  The  *)
(* index of the removed channel keeps its value.                           *)
PollRemove(c) ==
    LET last == pollfds[Len(pollfds)]
        i == index[c]
    IN  /\ map' = [map EXCEPT ![Fd[c]] = None]
        /\ pollfds' = SubSeq([pollfds EXCEPT ![i + 1] = last], 1, Len(pollfds) - 1)
        /\ index' = IF i + 1 = Len(pollfds) THEN index
                    ELSE [index EXCEPT ![map[FdOf(last)]] = i]
        /\ UNCHANGED epoll

(* poll(2) skips negative descriptors.                                     *)
PollReports(c) ==
    UNION {(SUBSET (pollfds[i].ev \union Always)) \ {{}} :
              i \in {j \in 1..Len(pollfds) : Registered(c) /\ pollfds[j].fd = Fd[c]}}

(* Its fillActiveChannels leaves revents_ of the channels alone.           *)
PollFill(ready, r) == UNCHANGED <<revents, size>>

-----------------------------------------------------------------------------
(* Channel, called by its owner: between rounds, from a functor, or in a   *)
(* handler.                                                                *)
Constructed(c) ==
    /\ events' = [events EXCEPT ![c] = {}]
    /\ revents' = [revents EXCEPT ![c] = {}]
    /\ index' = [index EXCEPT ![c] = kNew]

NewChannel(c) ==
    /\ c \notin live
    /\ \A d \in live : Fd[d] # Fd[c]
    /\ live' = live \union {c}
    /\ Constructed(c)
    /\ UNCHANGED <<kind, regVars, roundVars>>

(* enableReading, disableReading, enableWriting, disableWriting and        *)
(* disableAll, each with update().                                         *)
NextEvents(c) ==
    {events[c] \union {"in"}, events[c] \ {"in"},
     events[c] \union {"out"}, events[c] \ {"out"}, {}}

(* Any of them may be the first call on a channel: ~Acceptor begins with   *)
(* disableAll when listen() was never called.  The asserts of              *)
(* updateChannel exclude a channel that is neither new nor registered.     *)
Update(c, ev) ==
    /\ c \in live
    /\ Registered(c) \/ index[c] = kNew
    /\ events' = [events EXCEPT ![c] = ev]
    /\ IF kind = "epoll" THEN EPollUpdate(c, ev) ELSE PollUpdate(c, ev)
    /\ UNCHANGED <<kind, live, revents, roundVars>>

(* remove() with EventLoop::removeChannel and the asserts on the way: no   *)
(* events, and in a round only the current channel or one not in it.  The  *)
(* assert at PollPoller.cpp:125 that the entry is negative is not a guard: *)
(* it fails for a channel whose only calls asked for nothing, once, and    *)
(* the model goes on from there as a build without asserts does.           *)
Remove(c) ==
    /\ c \in live /\ Registered(c)
    /\ events[c] = {}
    /\ pos # 0 => c = Current \/ \A i \in 1..Len(active) : active[i] # c
    /\ IF kind = "epoll" THEN EPollRemove(c) ELSE PollRemove(c)
    /\ UNCHANGED <<kind, live, events, revents, roundVars>>

(* Variant: ~Channel without the removal its assert asks for.              *)
DestroyRegistered(c) ==
    /\ c \in live
    /\ c # Current
    /\ live' = live \ {c}
    /\ UNCHANGED <<kind, events, revents, index, regVars, roundVars>>

(* ~Channel: not in its loop and not in its own handler; its descriptor    *)
(* is closed and may be given out again.  The fields of a channel that is  *)
(* not live have no meaning and are kept at the constructor's values.      *)
Destroy(c) ==
    /\ c \in live
    /\ ~Registered(c)
    /\ c # Current
    /\ live' = live \ {c}
    /\ Constructed(c)
    /\ UNCHANGED <<kind, regVars, roundVars>>

-----------------------------------------------------------------------------
(* The loop.                                                               *)
Orders(s) == {q \in [1..Cardinality(s) -> s] : \A i, j \in DOMAIN q : q[i] = q[j] => i = j}

Callbacks(r) ==
    (IF "hup" \in r /\ "in" \notin r THEN {"close"} ELSE {})
    \union (IF "err" \in r THEN {"error"} ELSE {})
    \union (IF "in" \in r THEN {"read"} ELSE {})
    \union (IF "out" \in r THEN {"write"} ELSE {})

Reports(c) == IF kind = "epoll" THEN EPollReports(c) ELSE PollReports(c)

Poll ==
    /\ pos = 0
    /\ \E ready \in SUBSET {c \in Channels : Reports(c) # {}} :
       \E r \in [ready -> (SUBSET Revents) \ {{}}] :
          /\ \A c \in ready : r[c] \in Reports(c)
          /\ IF kind = "epoll" THEN EPollFill(ready, r) ELSE PollFill(ready, r)
          /\ active' \in Orders(ready)
          /\ reported' = [c \in Channels |-> IF c \in ready THEN r[c] ELSE {}]
    /\ pos' = IF active' = <<>> THEN 0 ELSE 1
    /\ called' = IF active' = <<>> THEN {} ELSE Callbacks(revents'[active'[1]])
    /\ UNCHANGED <<kind, live, events, index, regVars>>

(* The handlers of the current channel return; the next one is handled.    *)
HandleNext ==
    /\ pos # 0 /\ pos < Len(active)
    /\ pos' = pos + 1
    /\ called' = Callbacks(revents[active[pos + 1]])
    /\ UNCHANGED <<kind, chanVars, regVars, size, active, reported>>

(* The round is over; activeChannels_ is cleared before the next poll and  *)
(* not read until then.                                                    *)
EndRound ==
    /\ pos # 0 /\ pos = Len(active)
    /\ pos' = 0
    /\ active' = <<>>
    /\ called' = {}
    /\ reported' = [c \in Channels |-> {}]
    /\ UNCHANGED <<kind, chanVars, regVars, size>>

Next ==
    \/ \E c \in Channels :
          \/ NewChannel(c) \/ Remove(c) \/ Destroy(c)
          \/ \E ev \in NextEvents(c) : Update(c, ev)
    \/ Poll \/ HandleNext \/ EndRound

Spec == Init /\ [][Next]_vars

-----------------------------------------------------------------------------
(* What the kernel is asked to watch for a channel.                        *)
Watched(c) ==
    IF kind = "epoll"
    THEN IF epoll[Fd[c]] # None /\ epoll[Fd[c]].ptr = c THEN epoll[Fd[c]].ev ELSE {}
    ELSE UNION {pollfds[i].ev : i \in {j \in 1..Len(pollfds) :
                                          Registered(c) /\ pollfds[j].fd = Fd[c]}}

(* The kernel watches each registered channel for exactly its events_, and *)
(* nothing else, through any order of updates, removals (the swap with the *)
(* last entry of pollfds_ included) and reuse of descriptors.              *)
WatchedAsAsked ==
    /\ \A c \in Channels : Watched(c) = IF Registered(c) THEN events[c] ELSE {}
    /\ \A i \in 1..Len(pollfds) : FdOf(pollfds[i]) \in Fds /\ map[FdOf(pollfds[i])] # None

(* The poller does not own channels: Poller.h asks each to unregister      *)
(* before it is destroyed.  No pointer to a destroyed channel is in        *)
(* channels_, in the kernel's list or still to be handled in this round.   *)
NoDangling ==
    /\ \A f \in Fds : map[f] # None => map[f] \in live
    /\ \A f \in Fds : epoll[f] # None => map[f] = epoll[f].ptr
    /\ \A i \in 1..Len(active) : pos # 0 /\ i >= pos => active[i] \in live

(* index_ tells the poller the truth: PollPoller finds its entry there,    *)
(* EPollPoller knows whether the kernel has the descriptor.                *)
IndexIsPlace ==
    /\ TypeOK
    /\ \A c \in live :
       IF kind = "epoll"
       THEN /\ index[c] = kNew <=> ~Registered(c)
            /\ index[c] = kAdded <=> (epoll[Fd[c]] # None /\ epoll[Fd[c]].ptr = c)
       ELSE /\ Registered(c) => /\ index[c] + 1 \in 1..Len(pollfds)
                                /\ FdOf(pollfds[index[c] + 1]) = Fd[c]
            /\ index[c] = kNew => ~Registered(c)

(* Channel.h says revents_ receives the events of epoll or poll: the       *)
(* callbacks called for a channel are those of the events reported for it. *)
ReportedIsHandled == pos # 0 => called = Callbacks(reported[active[pos]])
=============================================================================
