----------------------------- MODULE EventLoop ------------------------------
(***************************************************************************)
(* networker::net::EventLoop: the functor queue, the eventfd that wakes    *)
(* the poller, and quit().  One thread (LoopThread) runs loop(); the       *)
(* Posters are the other threads, which may call runInLoop, queueInLoop    *)
(* and quit at any time.  A call is split where other threads can see it:  *)
(* the push happens under mutex_, the wakeup after the unlock.             *)
(***************************************************************************)
EXTENDS Naturals, Sequences

CONSTANTS LoopThread,   \* the thread that created the loop
          Posters,      \* every other thread
          MaxFunctors   \* bound: functors queued in one behaviour

ASSUME ThreadAssumption == LoopThread \notin Posters
ASSUME BoundAssumption == MaxFunctors \in Nat

Threads == Posters \union {LoopThread}

VARIABLES
    pc,        \* where LoopThread is: outside loop() or at a step of its body
    active,    \* activeChannels_ still to be handled: the wakeup channel, others
    calling,   \* callingPendingFunctors_
    quit,      \* quit_
    readable,  \* the counter of wakeupFd_ is not zero
    pending,   \* pendingFunctors_, functors named by the order of their push
    functors,  \* the vector doPendingFunctors swapped out; its head is running
    pushed,    \* functors pushed so far
    ran,       \* functors that have returned
    early,     \* functors LoopThread queued, without a wakeup, outside loop()
    call       \* the queueInLoop or quit a thread is in the middle of

loopVars == <<pc, active, calling, functors, ran>>
vars == <<pc, active, calling, quit, readable, pending, functors, pushed, ran,
          early, call>>

PCs == {"outside", "test", "poll", "handle", "swap", "run"}
Channels == {"wakeup", "io"}
Calls == {"none", "queueInLoop", "quit"}

(* One type invariant.                                                     *)
TypeOK ==
    /\ pc \in PCs
    /\ active \in SUBSET Channels
    /\ calling \in BOOLEAN
    /\ quit \in BOOLEAN
    /\ readable \in BOOLEAN
    /\ pending \in Seq(Nat)
    /\ functors \in Seq(Nat)
    /\ pushed \in Nat
    /\ ran \in Nat
    /\ early \in SUBSET Nat
    /\ call \in [Threads -> Calls]

(* The constructor gives callingPendingFunctors_ no value.                 *)
Init ==
    /\ pc = "outside"
    /\ active = {}
    /\ calling \in BOOLEAN
    /\ quit = FALSE
    /\ readable = FALSE
    /\ pending = <<>>
    /\ functors = <<>>
    /\ pushed = 0
    /\ ran = 0
    /\ early = {}
    /\ call = [t \in Threads |-> "none"]

-----------------------------------------------------------------------------
(* Calls.  A poster can call whenever it likes; LoopThread only where it   *)
(* runs user code: before or after loop(), in a callback of a channel, or  *)
(* in a functor.                                                           *)
InUserCode ==
    \/ pc = "outside"
    \/ pc = "handle" /\ "io" \in active
    \/ pc = "run" /\ functors # <<>>

CanCall(t) == call[t] = "none" /\ (t = LoopThread => InUserCode)

(* Variant: queueInLoop wakes the loop for other threads only.             *)
NeedsWakeupOthersOnly(t) == t # LoopThread

(* The test of queueInLoop, evaluated after the unlock.                    *)
NeedsWakeup(t) == t # LoopThread \/ calling

(* Variant: the functor goes to the front of the vector.                   *)
QueuePushFront(t) ==
    /\ CanCall(t)
    /\ pushed < MaxFunctors
    /\ pending' = <<pushed + 1>> \o pending
    /\ pushed' = pushed + 1
    /\ call' = [call EXCEPT ![t] = "queueInLoop"]
    /\ UNCHANGED <<loopVars, quit, readable, early>>

(* queueInLoop (and runInLoop off the loop thread) up to the unlock.       *)
QueuePush(t) ==
    /\ CanCall(t)
    /\ pushed < MaxFunctors
    /\ pending' = Append(pending, pushed + 1)
    /\ pushed' = pushed + 1
    /\ early' = IF t = LoopThread /\ pc = "outside" /\ ~calling
                THEN early \union {pushed + 1} ELSE early
    /\ call' = [call EXCEPT ![t] = "queueInLoop"]
    /\ UNCHANGED <<loopVars, quit, readable>>

(* queueInLoop after the unlock.                                           *)
QueueWakeup(t) ==
    /\ call[t] = "queueInLoop"
    /\ readable' = (readable \/ NeedsWakeup(t))
    /\ call' = [call EXCEPT ![t] = "none"]
    /\ UNCHANGED <<loopVars, quit, pending, pushed, early>>

(* Variant: quit() relies on the loop to notice the flag by itself.        *)
QuitStoreNoWakeup(t) ==
    /\ CanCall(t)
    /\ quit' = TRUE
    /\ UNCHANGED <<loopVars, readable, pending, pushed, early, call>>

(* quit() stores the flag; off the loop thread it then writes the eventfd. *)
QuitStore(t) ==
    /\ CanCall(t)
    /\ quit' = TRUE
    /\ call' = IF t = LoopThread THEN call ELSE [call EXCEPT ![t] = "quit"]
    /\ UNCHANGED <<loopVars, readable, pending, pushed, early>>

QuitWakeup(t) ==
    /\ call[t] = "quit"
    /\ readable' = TRUE
    /\ call' = [call EXCEPT ![t] = "none"]
    /\ UNCHANGED <<loopVars, quit, pending, pushed, early>>

-----------------------------------------------------------------------------
(* The body of loop().                                                     *)
LoopAt(l) == pc = l /\ call[LoopThread] = "none"

EnterLoop ==
    /\ LoopAt("outside")
    /\ quit' = FALSE
    /\ pc' = "test"
    /\ UNCHANGED <<active, calling, functors, ran, readable, pending, pushed,
                   early, call>>

TestQuit ==
    /\ LoopAt("test")
    /\ pc' = IF quit THEN "outside" ELSE "poll"
    /\ UNCHANGED <<active, calling, functors, ran, quit, readable, pending,
                   pushed, early, call>>

(* poll returns the ready channels: the wakeup channel is among them       *)
(* exactly when its counter is not zero; others may be ready too.          *)
PollReturn(ready) ==
    /\ LoopAt("poll")
    /\ "wakeup" \in ready <=> readable
    /\ active' = ready
    /\ pc' = "handle"
    /\ UNCHANGED <<calling, functors, ran, quit, readable, pending, pushed,
                   early, call>>

PollEvents == \E ready \in SUBSET Channels : ready # {} /\ PollReturn(ready)
PollTimeout == PollReturn({})

(* EventLoop::handleRead, the callback of the wakeup channel: reading an   *)
(* eventfd sets its counter to zero.                                       *)
HandleRead ==
    /\ LoopAt("handle")
    /\ "wakeup" \in active
    /\ readable' = FALSE
    /\ active' = active \ {"wakeup"}
    /\ UNCHANGED <<pc, calling, functors, ran, quit, pending, pushed, early, call>>

(* The callbacks of the other channels return.                             *)
HandleOther ==
    /\ LoopAt("handle")
    /\ "io" \in active
    /\ active' = active \ {"io"}
    /\ UNCHANGED <<pc, calling, functors, ran, quit, readable, pending, pushed,
                   early, call>>

(* doPendingFunctors: set the flag; swap under the lock; run; clear it.    *)
BeginFunctors ==
    /\ LoopAt("handle")
    /\ active = {}
    /\ calling' = TRUE
    /\ pc' = "swap"
    /\ UNCHANGED <<active, functors, ran, quit, readable, pending, pushed,
                   early, call>>

(* Variant: the vector is copied and the shared one is not emptied.        *)
CopyFunctors ==
    /\ LoopAt("swap")
    /\ functors' = pending
    /\ pc' = "run"
    /\ UNCHANGED <<active, calling, ran, quit, readable, pending, pushed, early,
                   call>>

SwapFunctors ==
    /\ LoopAt("swap")
    /\ functors' = pending
    /\ pending' = <<>>
    /\ pc' = "run"
    /\ UNCHANGED <<active, calling, ran, quit, readable, pushed, early, call>>

FunctorReturns ==
    /\ LoopAt("run")
    /\ functors # <<>>
    /\ functors' = Tail(functors)
    /\ ran' = ran + 1
    /\ UNCHANGED <<pc, active, calling, quit, readable, pending, pushed, early,
                   call>>

EndFunctors ==
    /\ LoopAt("run")
    /\ functors = <<>>
    /\ calling' = FALSE
    /\ pc' = "test"
    /\ UNCHANGED <<active, functors, ran, quit, readable, pending, pushed, early,
                   call>>

-----------------------------------------------------------------------------
(* The steps of loop() that need nothing from outside.                     *)
LoopStep ==
    \/ TestQuit \/ HandleRead \/ HandleOther
    \/ BeginFunctors \/ SwapFunctors \/ FunctorReturns \/ EndFunctors

FinishCall(t) == QueueWakeup(t) \/ QuitWakeup(t)

Next ==
    \/ \E t \in Threads : QueuePush(t) \/ QuitStore(t) \/ FinishCall(t)
    \/ EnterLoop \/ PollEvents \/ PollTimeout \/ LoopStep

Spec == Init /\ [][Next]_vars

(* A thread that is in a call finishes it, callbacks return, and poll      *)
(* returns while the eventfd is readable.  No fairness for the 10 second   *)
(* poll timeout: nothing below may depend on it.                           *)
FairSpec ==
    /\ Spec
    /\ WF_vars(LoopStep)
    /\ WF_vars(readable /\ PollEvents)
    /\ \A t \in Threads : WF_vars(FinishCall(t))

-----------------------------------------------------------------------------
(* While loop() sleeps in poll with a zero eventfd counter, each functor   *)
(* in pendingFunctors_ belongs to a call that has still to write the       *)
(* eventfd, unless LoopThread queued it before loop() started: no          *)
(* interleaving of push, swap, read of the eventfd and write loses a       *)
(* wakeup.                                                                 *)
NoLostWakeup ==
    /\ pc = "poll" /\ ~readable /\ pending # <<>>
    /\ \A t \in Posters : call[t] # "queueInLoop"
    => \A i \in 1..Len(pending) : pending[i] \in early

(* A quit that is set while loop() is about to sleep or sleeps is followed *)
(* by a wakeup that is pending or readable, so poll cannot miss it.        *)
QuitIsSeen ==
    pc = "poll" /\ quit => readable \/ \E t \in Posters : call[t] = "quit"

(* The functors not yet run, the vector being run before the shared one,   *)
(* are exactly those after the last one run, in the order of their pushes: *)
(* none is lost, repeated or overtaken by the swap.                        *)
QueueInOrder ==
    functors \o pending = [i \in 1..(pushed - ran) |-> ran + i]

(* A functor that another thread queued, or that was queued inside loop(), *)
(* is run without any help from the poll timeout, unless loop() is left.   *)
QueuedRuns ==
    \A i \in 1..MaxFunctors :
        (i <= pushed /\ i \notin early) ~> (ran >= i \/ pc = "outside")

(* quit(), from any thread and at any point of an iteration, makes loop()  *)
(* return, without any help from the poll timeout.                         *)
QuitReturns == (quit /\ pc # "outside") ~> (pc = "outside")

(* EventLoop implements Executor: the functors the loop holds, those being *)
(* run first, are its queue.                                               *)
E == INSTANCE Executor WITH
        queue <- functors \o pending, accepted <- pushed, executed <- ran
ImplementsExecutor == E!Spec
=============================================================================
