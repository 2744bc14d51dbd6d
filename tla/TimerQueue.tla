----------------------------- MODULE TimerQueue -----------------------------
(***************************************************************************)
(* networker::net::TimerQueue and Timer.  The loop thread owns timers_,    *)
(* activeTimers_ and the timerfd; other threads reach it through functors  *)
(* queued on the loop (EventLoop, taken here as the FIFO of Executor).     *)
(*                                                                         *)
(* Time is relative: an expiration is the number of ticks (of 100us, the   *)
(* smallest delay resetTimerfd uses) until it is due: 0 when it is due now *)
(* and Past when it is overdue.  How long ago is not kept, so that the     *)
(* order of two overdue expirations is any.  Addresses are reused, as      *)
(* those of deleted Timers are.                                            *)
(***************************************************************************)
EXTENDS Integers, Sequences, FiniteSets

CONSTANTS Addrs,       \* addresses operator new can return
          Posters,     \* threads other than the loop thread
          Delays,      \* values of "when" relative to now, in ticks
          Intervals,   \* intervals; 0 is a timer that does not repeat
          MaxCreated,  \* bound: Timers created in one behaviour
          MaxQueued,   \* bound: functors waiting at a time
          Off          \* a disarmed timerfd

ASSUME TickAssumption ==
    LET times == Delays \union Intervals \union {1}
    IN  times \subseteq Nat /\ \E m \in times : \A d \in times : d <= m
ASSUME AddrAssumption == IsFiniteSet(Addrs)
ASSUME BoundAssumption == MaxCreated \in Nat /\ MaxQueued \in Nat
ASSUME OffAssumption == Off \notin Nat

VARIABLES
    heap,      \* address -> Timer (sequence_, expiration_, interval_); seq 0: free
    created,   \* s_numCreated_
    timers,    \* timers_: set of <<expiration, address>>
    active,    \* activeTimers_: set of <<address, sequence>>
    canceling, \* cancelingTimers_
    calling,   \* callingExpiredTimers_: handleRead is running callbacks
    expired,   \* the vector of handleRead: ids of the timers taken out
    toRun,     \* those of expired whose callback has not been called
    since,     \* ticks since handleRead read the time
    timerfd,   \* ticks until timerfd_ is readable, or Off
    polled,    \* poll has put timerfdChannel_ among the active channels of this round
    pending,   \* functors queued on the loop by other threads
    adding,    \* poster -> the id addTimer made and has not returned yet, or <<>>
    ids,       \* TimerIds that addTimer has returned
    cancelled  \* ids of timers that cancelInLoop found active or expired

vars == <<heap, created, timers, active, canceling, calling, expired, toRun,
          since, timerfd, polled, pending, adding, ids, cancelled>>
sets == <<timers, active, canceling>>
batch == <<calling, expired, toRun, since>>

Past == -1
Free == [seq |-> 0, expiration |-> Past, interval |-> 0]
Ids == Addrs \X (0..MaxCreated)
Longest == CHOOSE m \in Delays \union Intervals \union {1} :
              \A d \in Delays \union Intervals \union {1} : d <= m
Ticks == Past..Longest
Requests == [op : {"add", "cancel"}, id : Ids]

TypeOK ==
    /\ heap \in [Addrs -> [seq : 0..MaxCreated, expiration : Ticks, interval : Ticks]]
    /\ created \in 0..MaxCreated
    /\ timers \subseteq Ticks \X Addrs
    /\ active \subseteq Ids
    /\ canceling \subseteq Ids
    /\ calling \in BOOLEAN
    /\ expired \subseteq Ids
    /\ toRun \subseteq expired
    /\ since \in 0..(Longest + 1)
    /\ timerfd \in Ticks \union {Off}
    /\ polled \in BOOLEAN
    /\ pending \in Seq(Requests)
    /\ adding \in [Posters -> Ids \union {<<>>}]
    /\ ids \subseteq Ids
    /\ cancelled \subseteq Ids

Init ==
    /\ heap = [a \in Addrs |-> Free]
    /\ created = 0
    /\ timers = {} /\ active = {} /\ canceling = {}
    /\ calling = FALSE /\ expired = {} /\ toRun = {} /\ since = 0
    /\ timerfd = Off /\ polled = FALSE
    /\ pending = <<>>
    /\ adding = [p \in Posters |-> <<>>]
    /\ ids = {} /\ cancelled = {}

Live(id) == heap[id[1]].seq = id[2] /\ id[2] # 0
AtLeast(x, n) == IF x < n THEN n ELSE x
Minus(x, n) == AtLeast(x - n, Past)

-----------------------------------------------------------------------------
(* resetTimerfd with howMuchTimeFromNow: never less than one tick.         *)
Arm(expiration) == AtLeast(expiration, 1)

IsFirst(e, entries) == e \in entries /\ \A f \in entries : e[1] <= f[1]

(* insert's earliestChanged, the values it can have.  The source compares  *)
(* with ">" the expirations of the new timer and of the first.             *)
EarliestChanged(when) ==
    IF timers = {} THEN {TRUE}
    ELSE {b \in BOOLEAN : \A e \in timers : IsFirst(e, timers) =>
             b = (when > e[1]) \/ (when = Past /\ e[1] = Past)}

(* Variant: insert forgets activeTimers_.                                  *)
AddOneSet(id, when) ==
    /\ timers' = timers \union {<<when, id[1]>>}
    /\ timerfd' = Arm(when)
    /\ UNCHANGED <<active, canceling>>

(* addTimerInLoop with insert of a Timer whose expiration is when.         *)
AddTimerInLoop(id, when) ==
    /\ timers' = timers \union {<<when, id[1]>>}
    /\ active' = active \union {id}
    /\ \E changed \in EarliestChanged(when) :
          timerfd' = IF changed THEN Arm(when) ELSE timerfd
    /\ UNCHANGED canceling

(* Variant: a timer being run is not remembered as cancelled.              *)
CancelActiveOnly(id) ==
    /\ timers' = IF id \in active THEN timers \ {<<heap[id[1]].expiration, id[1]>>}
                                  ELSE timers
    /\ active' = active \ {id}
    /\ heap' = IF id \in active THEN [heap EXCEPT ![id[1]] = Free] ELSE heap
    /\ cancelled' = IF id \in active \union expired THEN cancelled \union {id}
                                                    ELSE cancelled
    /\ UNCHANGED canceling

(* Variant: the id is dereferenced before it is looked up, so that a stale *)
(* id deletes the Timer that now has its address.                          *)
CancelByAddress(id) ==
    /\ timers' = {e \in timers : e[2] # id[1]}
    /\ active' = active \ {id}
    /\ heap' = [heap EXCEPT ![id[1]] = Free]
    /\ cancelled' = IF id \in active \union expired THEN cancelled \union {id}
                                                    ELSE cancelled
    /\ canceling' = IF id \notin active /\ calling THEN canceling \union {id}
                                                   ELSE canceling

(* cancelInLoop: an active timer is erased from both sets and deleted;     *)
(* anything else is remembered while callbacks are being run.              *)
CancelInLoop(id) ==
    /\ IF id \in active
       THEN /\ timers' = timers \ {<<heap[id[1]].expiration, id[1]>>}
            /\ active' = active \ {id}
            /\ heap' = [heap EXCEPT ![id[1]] = Free]
            /\ UNCHANGED canceling
       ELSE /\ canceling' = IF calling THEN canceling \union {id} ELSE canceling
            /\ UNCHANGED <<timers, active, heap>>
    /\ cancelled' = IF id \in active \union expired THEN cancelled \union {id}
                                                    ELSE cancelled

-----------------------------------------------------------------------------
(* new Timer at a free address.                                            *)
NewTimer(a, delay, interval) ==
    /\ heap[a] = Free
    /\ created < MaxCreated
    /\ created' = created + 1
    /\ heap' = [heap EXCEPT ![a] = [seq |-> created + 1, expiration |-> delay,
                                    interval |-> interval]]

(* addTimer off the loop thread, up to the queueing of addTimerInLoop.     *)
AddTimer(p, a, delay, interval) ==
    /\ adding[p] = <<>>
    /\ Len(pending) < MaxQueued
    /\ NewTimer(a, delay, interval)
    /\ pending' = Append(pending, [op |-> "add", id |-> <<a, created + 1>>])
    /\ adding' = [adding EXCEPT ![p] = <<a, created + 1>>]
    /\ UNCHANGED <<sets, batch, timerfd, polled, ids, cancelled>>

(* ... and its return statement, which reads timer->sequence() from the    *)
(* Timer it has handed over.  A deleted Timer holds any number.            *)
AddTimerReturns(p) ==
    /\ adding[p] # <<>>
    /\ LET a == adding[p][1] IN
       \E s \in IF heap[a] # Free THEN {heap[a].seq} ELSE 0..MaxCreated :
          ids' = ids \union {<<a, s>>}
    /\ adding' = [adding EXCEPT ![p] = <<>>]
    /\ UNCHANGED <<heap, created, sets, batch, timerfd, polled, pending, cancelled>>

(* User code runs on the loop thread: a callback of another channel, or    *)
(* inside handleRead one of the callbacks already started.                 *)
InUserCode == calling => toRun # expired

(* addTimer on the loop thread: runInLoop calls addTimerInLoop at once.    *)
AddTimerOnLoop(a, delay, interval) ==
    /\ InUserCode
    /\ NewTimer(a, delay, interval)
    /\ AddTimerInLoop(<<a, created + 1>>, delay)
    /\ ids' = ids \union {<<a, created + 1>>}
    /\ UNCHANGED <<batch, polled, pending, adding, cancelled>>

Cancel(id) ==
    /\ Len(pending) < MaxQueued
    /\ pending' = Append(pending, [op |-> "cancel", id |-> id])
    /\ UNCHANGED <<heap, created, sets, batch, timerfd, polled, adding, ids, cancelled>>

CancelOnLoop(id) ==
    /\ InUserCode
    /\ CancelInLoop(id)
    /\ UNCHANGED <<created, batch, timerfd, polled, pending, adding, ids>>

(* The loop runs the oldest queued functor, after the handlers of the      *)
(* round.                                                                  *)
RunFunctor ==
    /\ ~calling /\ ~polled
    /\ pending # <<>>
    /\ pending' = Tail(pending)
    /\ LET f == Head(pending) IN
       \/ /\ f.op = "add"
          /\ AddTimerInLoop(f.id, heap[f.id[1]].expiration)
          /\ UNCHANGED <<heap, cancelled>>
       \/ f.op = "cancel" /\ CancelInLoop(f.id) /\ UNCHANGED timerfd
    /\ UNCHANGED <<created, batch, polled, adding, ids>>

-----------------------------------------------------------------------------
(* poll finds the timerfd readable.  handleRead is then called in this     *)
(* round, after or before the callbacks of the other active channels.      *)
PollTimerfd ==
    /\ ~calling /\ ~polled
    /\ timerfd = 0
    /\ polled' = TRUE
    /\ UNCHANGED <<heap, created, sets, batch, timerfd, pending, adding, ids, cancelled>>

(* handleRead up to the callbacks: read the timerfd (it is then disarmed;  *)
(* one that a callback of the round has programmed again gives EAGAIN,     *)
(* which is logged, and stays armed) and getExpired.                       *)
HandleRead ==
    /\ ~calling
    /\ polled
    /\ polled' = FALSE
    /\ timerfd' = IF timerfd = 0 THEN Off ELSE timerfd
    /\ LET due == {e \in timers : e[1] <= 0} IN
       /\ timers' = timers \ due
       /\ expired' = {<<e[2], heap[e[2]].seq>> : e \in due}
    /\ active' = active \ expired'
    /\ toRun' = expired'
    /\ calling' = TRUE
    /\ canceling' = {}
    /\ since' = 0
    /\ UNCHANGED <<heap, created, pending, adding, ids, cancelled>>

(* The callback of an expired timer is called; until the next step of the  *)
(* batch it may add and cancel timers.  Overdue timers run in any order.   *)
RunCallback(id) ==
    /\ id \in toRun
    /\ toRun' = toRun \ {id}
    /\ UNCHANGED <<heap, created, sets, calling, expired, since, timerfd, polled,
                   pending, adding, ids, cancelled>>

(* reset: restart the repeating timers that were not cancelled, delete the *)
(* rest, and program the timerfd for the first of timers_.                 *)
Restarted == {id \in expired : heap[id[1]].interval > 0 /\ id \notin canceling}

(* Variant: reset does not program the timerfd again.                      *)
ResetNoArm ==
    /\ calling /\ toRun = {}
    /\ heap' = [a \in Addrs |->
                 IF \E id \in Restarted : id[1] = a
                 THEN [heap[a] EXCEPT !.expiration = Minus(heap[a].interval, since)]
                 ELSE IF \E id \in expired : id[1] = a THEN Free ELSE heap[a]]
    /\ timers' = timers \union {<<heap'[id[1]].expiration, id[1]>> : id \in Restarted}
    /\ active' = active \union Restarted
    /\ calling' = FALSE
    /\ expired' = {}
    /\ since' = 0
    /\ UNCHANGED <<created, timerfd, polled, canceling, toRun, pending, adding, ids,
                   cancelled>>

Reset ==
    /\ calling /\ toRun = {}
    /\ heap' = [a \in Addrs |->
                 IF \E id \in Restarted : id[1] = a
                 THEN [heap[a] EXCEPT !.expiration = Minus(heap[a].interval, since)]
                 ELSE IF \E id \in expired : id[1] = a THEN Free ELSE heap[a]]
    /\ timers' = timers \union {<<heap'[id[1]].expiration, id[1]>> : id \in Restarted}
    /\ active' = active \union Restarted
    /\ IF timers' = {} THEN UNCHANGED timerfd
       ELSE \E e \in timers' : IsFirst(e, timers') /\ timerfd' = Arm(e[1])
    /\ calling' = FALSE
    /\ expired' = {}
    /\ since' = 0
    /\ UNCHANGED <<created, polled, canceling, toRun, pending, adding, ids, cancelled>>

(* A tick passes, also while callbacks are running.                        *)
Tick ==
    /\ heap' = [a \in Addrs |-> [heap[a] EXCEPT !.expiration = Minus(@, 1)]]
    /\ timers' = {<<Minus(e[1], 1), e[2]>> : e \in timers}
    /\ timerfd' = IF timerfd = Off THEN Off ELSE AtLeast(timerfd - 1, 0)
    /\ since' = IF calling /\ since <= Longest THEN since + 1 ELSE since
    /\ UNCHANGED <<created, active, canceling, calling, expired, toRun, polled,
                   pending, adding, ids, cancelled>>

Next ==
    \/ \E a \in Addrs, d \in Delays, i \in Intervals :
          AddTimerOnLoop(a, d, i) \/ \E p \in Posters : AddTimer(p, a, d, i)
    \/ \E p \in Posters : AddTimerReturns(p)
    \/ \E id \in ids : Cancel(id) \/ CancelOnLoop(id)
    \/ RunFunctor
    \/ PollTimerfd
    \/ HandleRead
    \/ \E id \in Ids : RunCallback(id)
    \/ Reset
    \/ Tick

Spec == Init /\ [][Next]_vars

(* Time passes, poll reports a readable timerfd, callbacks return and the  *)
(* loop runs its functors.                                                 *)
FairSpec ==
    /\ Spec
    /\ WF_vars(Tick)
    /\ WF_vars(RunFunctor)
    /\ WF_vars(PollTimerfd)
    /\ WF_vars(HandleRead)
    /\ WF_vars(\E id \in Ids : RunCallback(id))
    /\ WF_vars(Reset)

-----------------------------------------------------------------------------
(* The invariant of TimerQueue.h: timers_ and activeTimers_ hold the same  *)
(* timers, none of them deleted, each filed under its own expiration (so   *)
(* that the erase of cancelInLoop finds it).  And between two calls of     *)
(* handleRead a queue that has timers has its timerfd armed, so that none  *)
(* is forgotten whatever was added, cancelled and restarted.               *)
QueueConsistent ==
    /\ TypeOK
    /\ active = {<<e[2], heap[e[2]].seq>> : e \in timers}
    /\ Cardinality(timers) = Cardinality(active)
    /\ \A e \in timers : heap[e[2]] # Free /\ heap[e[2]].expiration = e[1]
    /\ ~calling /\ timers # {} => timerfd # Off

(* While handleRead runs callbacks, the timers it took out are neither     *)
(* deleted under it nor active, whatever the callbacks add and cancel: no  *)
(* run() on a deleted Timer, no double delete in reset.                    *)
ExpiredLive == \A id \in expired : Live(id) /\ id \notin active

(* A timer that was cancelled when it was active or expired is never       *)
(* active again: reset does not re-insert one that its own or a sibling's  *)
(* callback cancelled.                                                     *)
CancelSticks == active \intersect cancelled = {}

(* Once timers are made no more, each active timer eventually leaves the   *)
(* queue, by its expiry or by cancel; a repeating one does so again and    *)
(* again.  The premise is the code's: with the ">" of insert each timer    *)
(* added behind the first programs the timerfd later, so that a stream of  *)
(* them without end postpones every timer for ever.                        *)
TimerLeaves ==
    <>[][created' = created]_vars => \A id \in Ids : (id \in active) ~> (id \notin active)

(* The comment in insert: the timerfd is reprogrammed when the new timer   *)
(* is the first to expire, that is, it is never later than the earliest.   *)
TimerfdEarliest ==
    ~calling /\ timers # {} => \A e \in timers : timerfd # Off /\ timerfd <= Arm(e[1])

=============================================================================
