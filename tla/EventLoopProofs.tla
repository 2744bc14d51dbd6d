--------------------------- MODULE EventLoopProofs --------------------------
(***************************************************************************)
(* Proofs about EventLoop for every set of posters and every number of     *)
(* functors.  IInv is the inductive invariant; each conjunct is one of the *)
(* reasons why no wakeup and no functor is lost.                           *)
(***************************************************************************)
EXTENDS EventLoopThread, TLAPS, SequenceTheorems

(* Inside doPendingFunctors the flag is set; outside its loop the swapped  *)
(* vector is empty; LoopThread is in a call only where it runs user code.  *)
ControlInv ==
    /\ pc \in {"swap", "run"} => calling
    /\ pc # "run" => functors = <<>>
    /\ call[LoopThread] # "none" => pc \in {"outside", "handle", "run"}

(* Wherever loop() can reach poll without passing the swap, a functor that *)
(* is not early has a wakeup, delivered or still to be written.            *)
WakeInv ==
    /\ pc \in {"outside", "test", "poll", "run"} /\ ~readable
    /\ \A t \in Threads : call[t] = "queueInLoop" => ~NeedsWakeup(t)
    => \A i \in 1..Len(pending) : pending[i] \in early

(* The two vectors, element by element.                                    *)
OrderInv ==
    /\ Len(functors) + Len(pending) = pushed - ran
    /\ \A i \in 1..Len(functors) : functors[i] = ran + i
    /\ \A i \in 1..Len(pending) : pending[i] = ran + Len(functors) + i

IInv == TypeOK /\ ControlInv /\ WakeInv /\ QuitIsSeen /\ OrderInv

-----------------------------------------------------------------------------
(* The initial values have their types; the uninitialised flag is some     *)
(* boolean.                                                                *)
LEMMA TypeInit == Init => TypeOK
<1> SUFFICES ASSUME Init PROVE TypeOK
  OBVIOUS
<1>1. pending \in Seq(Nat) /\ functors \in Seq(Nat)
  BY DEF Init
<1>2. call \in [Threads -> Calls]
  BY DEF Init, Calls
<1>3. active \in SUBSET Channels /\ early \in SUBSET Nat
  BY DEF Init
<1>4. pc \in PCs /\ pushed \in Nat /\ ran \in Nat
  BY DEF Init, PCs
<1>5. calling \in BOOLEAN /\ quit \in BOOLEAN /\ readable \in BOOLEAN
  BY Zenon DEF Init
<1>6. QED
  BY <1>1, <1>2, <1>3, <1>4, <1>5, Zenon DEF TypeOK

(* Every step keeps the types.                                             *)
LEMMA TypeStep == TypeOK /\ [Next]_vars => TypeOK'
<1> SUFFICES ASSUME TypeOK, [Next]_vars PROVE TypeOK'
  OBVIOUS
<1> USE DEF TypeOK, PCs, Calls, Channels, loopVars
<1>1. ASSUME NEW t \in Threads, QueuePush(t) PROVE TypeOK'
  BY <1>1 DEF QueuePush
<1>2. ASSUME NEW t \in Threads, QuitStore(t) PROVE TypeOK'
  BY <1>2 DEF QuitStore
<1>3. ASSUME NEW t \in Threads, FinishCall(t) PROVE TypeOK'
  BY <1>3 DEF FinishCall, QueueWakeup, QuitWakeup, NeedsWakeup
<1>4. CASE EnterLoop
  BY <1>4 DEF EnterLoop
<1>5. CASE PollEvents \/ PollTimeout
  BY <1>5 DEF PollEvents, PollTimeout, PollReturn
<1>6. CASE LoopStep
  <2>1. CASE TestQuit
    BY <2>1 DEF TestQuit
  <2>2. CASE HandleRead \/ HandleOther
    BY <2>2 DEF HandleRead, HandleOther
  <2>3. CASE BeginFunctors
    BY <2>3 DEF BeginFunctors
  <2>4. CASE SwapFunctors
    BY <2>4 DEF SwapFunctors
  <2>5. CASE FunctorReturns
    <3>1. functors' \in Seq(Nat) /\ ran' \in Nat
      BY <2>5 DEF FunctorReturns
    <3>2. QED
      BY <2>5, <3>1 DEF FunctorReturns
  <2>6. CASE EndFunctors
    BY <2>6 DEF EndFunctors
  <2>7. QED
    BY <1>6, <2>1, <2>2, <2>3, <2>4, <2>5, <2>6 DEF LoopStep
<1>7. CASE UNCHANGED vars
  BY <1>7 DEF vars
<1>8. QED
  BY <1>1, <1>2, <1>3, <1>4, <1>5, <1>6, <1>7 DEF Next

(* The type invariant: the handlers of EventLoop.cpp never leave a member  *)
(* with a value of another type, whatever the interleaving.                *)
THEOREM TypeCorrect == Spec => []TypeOK
BY TypeInit, TypeStep, PTL DEF Spec

-----------------------------------------------------------------------------
(* The constructor establishes the invariant: both vectors are empty.      *)
LEMMA InvInit == Init => IInv
<1> SUFFICES ASSUME Init PROVE IInv
  OBVIOUS
<1>1. TypeOK
  BY TypeInit
<1>2. ControlInv
  BY DEF Init, ControlInv, Threads
<1>3. WakeInv
  BY DEF Init, WakeInv
<1>4. QuitIsSeen
  BY DEF Init, QuitIsSeen
<1>5. OrderInv
  BY DEF Init, OrderInv
<1>6. QED
  BY <1>1, <1>2, <1>3, <1>4, <1>5 DEF IInv

(* Control: the flag brackets the run of the swapped vector.               *)
LEMMA ControlStep == IInv /\ [Next]_vars => ControlInv'
<1> SUFFICES ASSUME IInv, [Next]_vars PROVE ControlInv'
  OBVIOUS
<1> USE DEF IInv, TypeOK, PCs, Calls, ControlInv, Threads, LoopAt, loopVars
<1>1. ASSUME NEW t \in Threads, QueuePush(t) PROVE ControlInv'
  BY <1>1 DEF QueuePush, CanCall, InUserCode
<1>2. ASSUME NEW t \in Threads, QuitStore(t) PROVE ControlInv'
  BY <1>2, ThreadAssumption DEF QuitStore, CanCall
<1>3. ASSUME NEW t \in Threads, FinishCall(t) PROVE ControlInv'
  BY <1>3 DEF FinishCall, QueueWakeup, QuitWakeup
<1>4. CASE EnterLoop \/ TestQuit
  BY <1>4 DEF EnterLoop, TestQuit
<1>5. CASE PollEvents \/ PollTimeout
  BY <1>5 DEF PollEvents, PollTimeout, PollReturn
<1>6. CASE HandleRead \/ HandleOther
  BY <1>6 DEF HandleRead, HandleOther
<1>7. CASE BeginFunctors
  BY <1>7 DEF BeginFunctors
<1>8. CASE SwapFunctors
  BY <1>8 DEF SwapFunctors
<1>9. CASE FunctorReturns
  BY <1>9 DEF FunctorReturns
<1>10. CASE EndFunctors
  BY <1>10 DEF EndFunctors
<1>11. CASE UNCHANGED vars
  BY <1>11 DEF vars
<1>12. QED
  BY <1>1, <1>2, <1>3, <1>4, <1>5, <1>6, <1>7, <1>8, <1>9, <1>10, <1>11
  DEF Next, LoopStep

(* Order: pushes extend the shared vector, the swap moves it as a whole    *)
(* into an empty one, and functors are consumed from the front.            *)
LEMMA OrderStep == IInv /\ [Next]_vars => OrderInv'
<1> SUFFICES ASSUME IInv, [Next]_vars PROVE OrderInv'
  OBVIOUS
<1> USE DEF IInv, TypeOK, OrderInv
<1>1. ASSUME NEW t \in Threads, QueuePush(t) PROVE OrderInv'
  <2>1. /\ pending' = Append(pending, pushed + 1)
        /\ pushed' = pushed + 1
        /\ UNCHANGED <<functors, ran>>
    BY <1>1 DEF QueuePush, loopVars
  <2>2. /\ Len(pending') = Len(pending) + 1
        /\ \A i \in 1..Len(pending) : pending'[i] = pending[i]
        /\ pending'[Len(pending) + 1] = pushed + 1
    BY <2>1
  <2>3. pushed = ran + Len(functors) + Len(pending)
    OBVIOUS
  <2>4. Len(functors') + Len(pending') = pushed' - ran'
    BY <2>1, <2>2, <2>3
  <2>5. \A i \in 1..Len(functors') : functors'[i] = ran' + i
    BY <2>1
  <2>6. \A i \in 1..Len(pending') : pending'[i] = ran' + Len(functors') + i
    <3> SUFFICES ASSUME NEW i \in 1..Len(pending')
                 PROVE pending'[i] = ran + Len(functors) + i
      BY <2>1
    <3>1. CASE i = Len(pending) + 1
      BY <2>2, <2>3, <3>1
    <3>2. CASE i # Len(pending) + 1
      <4>1. i \in 1..Len(pending)
        BY <2>2, <3>2
      <4>2. QED
        BY <2>2, <4>1
    <3>3. QED
      BY <3>1, <3>2
  <2>7. QED
    BY <2>4, <2>5, <2>6
<1>2. CASE SwapFunctors
  <2>1. /\ functors = <<>>
        /\ functors' = pending
        /\ pending' = <<>>
        /\ UNCHANGED <<pushed, ran>>
    BY <1>2 DEF SwapFunctors, ControlInv, LoopAt
  <2>2. Len(functors) = 0 /\ Len(pending') = 0
    BY <2>1
  <2>3. QED
    BY <2>1, <2>2
<1>3. CASE FunctorReturns
  <2>1. /\ functors # <<>>
        /\ functors' = Tail(functors)
        /\ ran' = ran + 1
        /\ UNCHANGED <<pending, pushed>>
    BY <1>3 DEF FunctorReturns
  <2>2. /\ Len(functors') = Len(functors) - 1
        /\ \A i \in 1..Len(functors') : functors'[i] = functors[i + 1]
    BY <2>1
  <2>3. QED
    BY <2>1, <2>2
<1>4. ASSUME UNCHANGED <<functors, pending, pushed, ran>> PROVE OrderInv'
  BY <1>4
<1>5. ASSUME NEW t \in Threads, QuitStore(t) \/ FinishCall(t) PROVE OrderInv'
  BY <1>4, <1>5 DEF QuitStore, FinishCall, QueueWakeup, QuitWakeup, loopVars
<1>6. CASE EnterLoop \/ TestQuit \/ PollEvents \/ PollTimeout
  BY <1>4, <1>6 DEF EnterLoop, TestQuit, PollEvents, PollTimeout, PollReturn
<1>7. CASE HandleRead \/ HandleOther \/ BeginFunctors \/ EndFunctors
  BY <1>4, <1>7 DEF HandleRead, HandleOther, BeginFunctors, EndFunctors
<1>8. CASE UNCHANGED vars
  BY <1>4, <1>8 DEF vars
<1>9. QED
  BY <1>1, <1>2, <1>3, <1>5, <1>6, <1>7, <1>8 DEF Next, LoopStep

(* Quit: the flag is only set with a wakeup to follow, and the eventfd is  *)
(* only read on the way to the next test of the flag.                      *)
LEMMA QuitStep == IInv /\ [Next]_vars => QuitIsSeen'
<1> SUFFICES ASSUME IInv, [Next]_vars PROVE QuitIsSeen'
  OBVIOUS
<1> USE DEF IInv, TypeOK, PCs, QuitIsSeen, Threads, LoopAt, loopVars
<1>1. ASSUME NEW t \in Threads, QueuePush(t) PROVE QuitIsSeen'
  BY <1>1 DEF QueuePush, CanCall
<1>2. ASSUME NEW t \in Threads, QuitStore(t) PROVE QuitIsSeen'
  BY <1>2 DEF QuitStore, CanCall, InUserCode
<1>3. ASSUME NEW t \in Threads, FinishCall(t) PROVE QuitIsSeen'
  BY <1>3 DEF FinishCall, QueueWakeup, QuitWakeup
<1>4. CASE TestQuit
  BY <1>4 DEF TestQuit
<1>5. ASSUME pc' # "poll" PROVE QuitIsSeen'
  BY <1>5
<1>6. CASE EnterLoop \/ PollEvents \/ PollTimeout
  BY <1>5, <1>6 DEF EnterLoop, PollEvents, PollTimeout, PollReturn
<1>7. CASE LoopStep /\ ~TestQuit
  BY <1>5, <1>7 DEF LoopStep, HandleRead, HandleOther, BeginFunctors,
                    SwapFunctors, FunctorReturns, EndFunctors
<1>8. CASE UNCHANGED vars
  BY <1>8 DEF vars
<1>9. QED
  BY <1>1, <1>2, <1>3, <1>4, <1>6, <1>7, <1>8 DEF Next

(* Wakeups: a push is followed by a write unless the swap is still ahead   *)
(* of LoopThread or the functor is early.                                  *)
LEMMA WakeStep == IInv /\ [Next]_vars => WakeInv'
<1> SUFFICES ASSUME IInv, [Next]_vars PROVE WakeInv'
  OBVIOUS
<1> USE DEF IInv, TypeOK, PCs, Calls, WakeInv, NeedsWakeup
<1>1. ASSUME NEW t \in Threads, QueuePush(t) PROVE WakeInv'
  <2>1. /\ pending' = Append(pending, pushed + 1)
        /\ call' = [call EXCEPT ![t] = "queueInLoop"]
        /\ call[t] = "none"
        /\ UNCHANGED <<pc, calling, readable>>
        /\ early \subseteq early'
    BY <1>1 DEF QueuePush, CanCall, loopVars
  <2>2. CASE NeedsWakeup(t)
    BY <2>1, <2>2
  <2>3. CASE ~NeedsWakeup(t) /\ pc = "outside"
    <3>1. pushed + 1 \in early'
      BY <1>1, <2>3 DEF QueuePush
    <3>2. QED
      BY <2>1, <2>3, <3>1
  <2>4. CASE ~NeedsWakeup(t) /\ pc # "outside"
    BY <1>1, <2>1, <2>4 DEF QueuePush, CanCall, InUserCode, ControlInv
  <2>5. QED
    BY <2>2, <2>3, <2>4
<1>2. ASSUME NEW t \in Threads, QuitStore(t) PROVE WakeInv'
  BY <1>2 DEF QuitStore, CanCall, loopVars
<1>3. ASSUME NEW t \in Threads, FinishCall(t) PROVE WakeInv'
  BY <1>3 DEF FinishCall, QueueWakeup, QuitWakeup, loopVars
<1>4. CASE EnterLoop \/ TestQuit
  BY <1>4 DEF EnterLoop, TestQuit, LoopAt
<1>5. ASSUME pc' \in {"handle", "swap"} PROVE WakeInv'
  BY <1>5
<1>6. CASE PollEvents \/ PollTimeout
  BY <1>5, <1>6 DEF PollEvents, PollTimeout, PollReturn
<1>7. CASE HandleRead \/ HandleOther \/ BeginFunctors
  BY <1>5, <1>7 DEF HandleRead, HandleOther, BeginFunctors, LoopAt
<1>8. CASE SwapFunctors
  BY <1>8 DEF SwapFunctors
<1>9. CASE FunctorReturns
  BY <1>9 DEF FunctorReturns
<1>10. CASE EndFunctors
  BY <1>10 DEF EndFunctors, LoopAt
<1>11. CASE UNCHANGED vars
  BY <1>11 DEF vars
<1>12. QED
  BY <1>1, <1>2, <1>3, <1>4, <1>6, <1>7, <1>8, <1>9, <1>10, <1>11
  DEF Next, LoopStep

(* The whole invariant holds in every reachable state.                     *)
THEOREM Invariance == Spec => []IInv
<1>1. IInv /\ [Next]_vars => IInv'
  BY TypeStep, ControlStep, WakeStep, QuitStep, OrderStep DEF IInv
<1>2. QED
  BY InvInit, <1>1, PTL DEF Spec

(* No wakeup is lost between queueInLoop and poll, for any number of       *)
(* threads and functors.                                                   *)
THEOREM WakeupNotLost == Spec => []NoLostWakeup
<1>1. IInv => NoLostWakeup
  BY ThreadAssumption
  DEF IInv, TypeOK, WakeInv, ControlInv, NoLostWakeup, Threads, NeedsWakeup, Calls
<1>2. QED
  BY Invariance, <1>1, PTL

(* quit() from another thread is never slept through.                      *)
THEOREM QuitNotMissed == Spec => []QuitIsSeen
<1>1. IInv => QuitIsSeen
  BY DEF IInv
<1>2. QED
  BY Invariance, <1>1, PTL

(* The swap and the pushes keep the functors in order, each exactly once.  *)
LEMMA OrderOfQueue == IInv => QueueInOrder
<1> SUFFICES ASSUME IInv PROVE QueueInOrder
  OBVIOUS
<1> USE DEF IInv, TypeOK, OrderInv
<1>1. /\ functors \o pending \in Seq(Nat)
      /\ Len(functors \o pending) = pushed - ran
  OBVIOUS
<1>2. \A i \in 1..(pushed - ran) : (functors \o pending)[i] = ran + i
  OBVIOUS
<1>3. functors \o pending = [i \in 1..(pushed - ran) |-> (functors \o pending)[i]]
  <2> DEFINE q == functors \o pending
  <2>1. q \in [1..Len(q) -> Nat]
    BY <1>1, LenProperties
  <2> HIDE DEF q
  <2>2. q = [i \in 1..Len(q) |-> q[i]]
    BY <2>1
  <2>3. QED
    BY <1>1, <2>2 DEF q
<1>4. QED
  BY <1>2, <1>3 DEF QueueInOrder

(* Functors run in the order they were queued, none lost, none twice.      *)
THEOREM FunctorsInOrder == Spec => []QueueInOrder
BY Invariance, OrderOfQueue, PTL

-----------------------------------------------------------------------------
(* The queue of Executor under the two operations that move it.            *)
LEMMA ConcatAppend ==
    ASSUME NEW s \in Seq(Nat), NEW u \in Seq(Nat), NEW e \in Nat
    PROVE  s \o Append(u, e) = Append(s \o u, e)
OBVIOUS

(* The first functor of the batch returned.                                *)
LEMMA ConcatTail ==
    ASSUME NEW s \in Seq(Nat), NEW u \in Seq(Nat), s # <<>>
    PROVE  /\ s \o u # <<>>
           /\ Head(s \o u) = s[1]
           /\ Tail(s \o u) = Tail(s) \o u
<1>1. Len(s) \in Nat /\ Len(s) > 0
  OBVIOUS
<1>2. s \o u \in Seq(Nat) /\ Len(s \o u) = Len(s) + Len(u)
  OBVIOUS
<1>3. s \o u # <<>>
  BY <1>1, <1>2
<1>4. Head(s \o u) = s[1]
  BY <1>1, <1>2
<1>5. Tail(s \o u) = Tail(s) \o u
  OBVIOUS
<1>6. QED
  BY <1>3, <1>4, <1>5

(* EventLoop implements Executor: a push accepts a callback, the return of *)
(* a functor executes the oldest one, and everything else, the swap of the *)
(* two vectors included, is invisible to callers.                          *)
THEOREM Refinement == Spec => ImplementsExecutor
<1>1. Init => E!Init
  BY DEF Init, E!Init
<1>2. IInv /\ [Next]_vars => [E!Next]_(E!vars)
  <2> SUFFICES ASSUME IInv, [Next]_vars PROVE [E!Next]_(E!vars)
    OBVIOUS
  <2> USE DEF IInv, TypeOK
  <2>1. ASSUME NEW t \in Threads, QueuePush(t) PROVE E!Accept
    <3>1. /\ pending' = Append(pending, pushed + 1)
          /\ pushed' = pushed + 1
          /\ UNCHANGED <<functors, ran>>
      BY <2>1 DEF QueuePush, loopVars
    <3>2. functors \o Append(pending, pushed + 1) = Append(functors \o pending, pushed + 1)
      BY ConcatAppend
    <3>3. QED
      BY <3>1, <3>2 DEF E!Accept
  <2>2. CASE FunctorReturns
    <3>1. functors[1] = ran + 1
      BY <2>2 DEF FunctorReturns, OrderInv
    <3>2. QED
      BY <2>2, <3>1, ConcatTail DEF FunctorReturns, E!Next, E!Execute
  <2>3. CASE SwapFunctors
    <3>1. functors = <<>> /\ functors' = pending /\ pending' = <<>>
      BY <2>3 DEF SwapFunctors, ControlInv, LoopAt
    <3>2. functors' \o pending' = functors \o pending
      BY <3>1
    <3>3. QED
      BY <2>3, <3>2 DEF SwapFunctors, E!vars
  <2>4. ASSUME UNCHANGED <<functors, pending, pushed, ran>> PROVE UNCHANGED E!vars
    BY <2>4 DEF E!vars
  <2>5. ASSUME NEW t \in Threads, QuitStore(t) \/ FinishCall(t)
        PROVE UNCHANGED E!vars
    BY <2>4, <2>5 DEF QuitStore, FinishCall, QueueWakeup, QuitWakeup, loopVars
  <2>6. CASE EnterLoop \/ TestQuit \/ PollEvents \/ PollTimeout
    BY <2>4, <2>6 DEF EnterLoop, TestQuit, PollEvents, PollTimeout, PollReturn
  <2>7. CASE HandleRead \/ HandleOther \/ BeginFunctors \/ EndFunctors
    BY <2>4, <2>7 DEF HandleRead, HandleOther, BeginFunctors, EndFunctors
  <2>8. CASE UNCHANGED vars
    BY <2>4, <2>8 DEF vars
  <2>9. QED
    BY <2>1, <2>2, <2>3, <2>5, <2>6, <2>7, <2>8 DEF Next, LoopStep, E!Next
<1>3. QED
  BY <1>1, <1>2, Invariance, PTL DEF Spec, ImplementsExecutor, E!Spec

-----------------------------------------------------------------------------
(* EventLoopThread.  What the thread and its owner do to the loop is what  *)
(* EventLoop allows: a step of theirs is a step of the loop, or leaves it  *)
(* as it is.                                                               *)
LEMMA ThreadStepIsLoopStep ==
    ASSUME Owner \in Posters
    PROVE  [ThreadNext]_allVars => [Next]_vars
<1> SUFFICES ASSUME [ThreadNext]_allVars PROVE [Next]_vars
  OBVIOUS
<1>1. LoopThread \in Threads /\ Owner \in Threads /\ Posters \subseteq Threads
  BY DEF Threads
<1>2. CASE CallLoop
  BY <1>2 DEF CallLoop, Next
<1>3. CASE LoopRuns
  BY <1>1, <1>3 DEF LoopRuns, Next, FinishCall
<1>4. CASE OthersCall \/ CallsFinish
  BY <1>1, <1>4 DEF OthersCall, CallsFinish, Next, FinishCall
<1>5. CASE DtorQuits \/ DtorWakes
  BY <1>1, <1>5 DEF DtorQuits, DtorWakes, Next, FinishCall
<1>6. CASE Publish \/ ClearLoop \/ DestroyLoop \/ StartLoop \/ StartLoopReturns
  BY <1>6 DEF Publish, ClearLoop, DestroyLoop, StartLoop, StartLoopReturns
<1>7. CASE Dtor \/ DtorJoins \/ Gone \/ UNCHANGED allVars
  BY <1>7 DEF Dtor, DtorJoins, Gone, allVars
<1> QED  BY <1>2, <1>3, <1>4, <1>5, <1>6, <1>7 DEF ThreadNext

(* The loop of an EventLoopThread is an EventLoop, so all that is proved   *)
(* above holds of it: no wakeup and no functor is lost whenever startLoop, *)
(* threadFunc and the destructor come.                                     *)
THEOREM ThreadRunsLoop ==
    ASSUME Owner \in Posters
    PROVE  ThreadSpec => Spec
<1>1. ThreadInit => Init
  BY DEF ThreadInit
<1> QED  BY <1>1, ThreadStepIsLoopStep, PTL DEF ThreadSpec, Spec

(* Where the thread can be for each place of its owner; only the owner has *)
(* set quit_, so a loop() that has returned was told to; functors are      *)
(* queued from outside only while the owner keeps the thread.              *)
PlaceInv ==
    /\ loopPtr <=> thread \in {"published", "looping"}
    /\ CASE own = "new" -> thread = "unstarted"
         [] own = "waiting" -> thread \in {"callback", "published", "looping"}
         [] own \in {"running", "quitting"} -> thread \in {"published", "looping"}
         [] own \in {"waking", "joining"} ->
               thread \in {"published", "looping", "cleared", "exited"}
         [] own = "gone" -> thread \in {"unstarted", "exited"}
         [] OTHER -> FALSE

QuitInv ==
    /\ quit => own \in {"waking", "joining", "gone"}
    /\ thread = "looping" /\ pc = "outside" => own \in {"waking", "joining"}

UserInv == \A t \in Posters : call[t] = "queueInLoop" => own = "running"

ThreadInv == PlaceInv /\ QuitInv /\ UserInv

LEMMA PlaceStep == ThreadInv /\ [ThreadNext]_allVars => PlaceInv'
<1> SUFFICES ASSUME ThreadInv, [ThreadNext]_allVars PROVE PlaceInv'
  OBVIOUS
<1> USE DEF ThreadInv, PlaceInv
<1>1. CASE Publish \/ CallLoop \/ DestroyLoop
  BY <1>1 DEF Publish, CallLoop, DestroyLoop
<1>2. CASE ClearLoop
  BY <1>2 DEF ClearLoop, LoopAt, QuitInv
<1>3. CASE LoopRuns \/ OthersCall \/ CallsFinish
  BY <1>3 DEF LoopRuns, OthersCall, CallsFinish, threadVars
<1>4. CASE StartLoop \/ StartLoopReturns
  BY <1>4 DEF StartLoop, StartLoopReturns
<1>5. CASE Dtor
  BY <1>5 DEF Dtor
<1>6. CASE DtorQuits \/ DtorWakes \/ DtorJoins
  BY <1>6 DEF DtorQuits, DtorWakes, DtorJoins
<1>7. CASE Gone \/ UNCHANGED allVars
  BY <1>7 DEF Gone, allVars, threadVars
<1> QED  BY <1>1, <1>2, <1>3, <1>4, <1>5, <1>6, <1>7 DEF ThreadNext

(* loop() returns only from the test of quit_.                             *)
LEMMA ThreadQuitStep == ThreadInv /\ [ThreadNext]_allVars => QuitInv'
<1> SUFFICES ASSUME ThreadInv, [ThreadNext]_allVars PROVE QuitInv'
  OBVIOUS
<1> USE DEF ThreadInv, QuitInv
<1>1. CASE Publish \/ ClearLoop \/ DestroyLoop
  BY <1>1 DEF Publish, ClearLoop, DestroyLoop, vars
<1>2. CASE CallLoop
  BY <1>2 DEF CallLoop, EnterLoop
<1>3. CASE LoopRuns
  <2>1. CASE thread = "looping" /\ TestQuit
    <3>1. quit' = quit /\ own' = own /\ (pc' = "outside" => quit)
      BY <1>3, <2>1 DEF LoopRuns, threadVars, TestQuit
    <3>2. own # "gone"
      BY <2>1 DEF PlaceInv
    <3> QED  BY <3>1, <3>2
  <2>2. CASE thread = "looping" /\ (PollEvents \/ PollTimeout)
    BY <1>3, <2>2 DEF LoopRuns, threadVars, PollEvents, PollTimeout, PollReturn
  <2>3. CASE /\ thread = "looping" /\ pc # "outside"
             /\ \/ HandleRead \/ HandleOther \/ BeginFunctors
                \/ SwapFunctors \/ FunctorReturns \/ EndFunctors
    BY <1>3, <2>3 DEF LoopRuns, threadVars, HandleRead, HandleOther, BeginFunctors,
                      SwapFunctors, FunctorReturns, EndFunctors
  <2>4. CASE QueuePush(LoopThread) \/ QueueWakeup(LoopThread)
    BY <1>3, <2>4 DEF LoopRuns, threadVars, QueuePush, QueueWakeup, loopVars
  <2> QED  BY <1>3, <2>1, <2>2, <2>3, <2>4 DEF LoopRuns, LoopStep
<1>4. CASE OthersCall \/ CallsFinish
  BY <1>4 DEF OthersCall, CallsFinish, threadVars, QueuePush, QueueWakeup, loopVars
<1>5. CASE StartLoop \/ StartLoopReturns \/ Dtor
  BY <1>5 DEF StartLoop, StartLoopReturns, Dtor, vars
<1>6. CASE DtorQuits \/ DtorWakes
  BY <1>6 DEF DtorQuits, DtorWakes, QuitStore, QuitWakeup, loopVars
<1>7. CASE DtorJoins \/ Gone \/ UNCHANGED allVars
  BY <1>7 DEF DtorJoins, Gone, allVars, threadVars, vars
<1> QED  BY <1>1, <1>2, <1>3, <1>4, <1>5, <1>6, <1>7 DEF ThreadNext

(* The destructor waits for the calls of others to return.                 *)
LEMMA UserStep ==
    ASSUME Owner \in Posters
    PROVE  TypeOK /\ ThreadInv /\ [ThreadNext]_allVars => UserInv'
<1> SUFFICES ASSUME TypeOK, UserInv, [ThreadNext]_allVars, NEW p \in Posters,
                    call'[p] = "queueInLoop"
             PROVE  own' = "running"
  BY DEF ThreadInv, UserInv
<1>1. call \in [Threads -> Calls] /\ p \in Threads /\ p # LoopThread
  BY ThreadAssumption DEF TypeOK, Threads
<1>2. call[p] = "queueInLoop" => own = "running"
  BY DEF UserInv
<1>3. CASE Publish \/ ClearLoop \/ DestroyLoop
  BY <1>2, <1>3 DEF Publish, ClearLoop, DestroyLoop, vars
<1>4. CASE CallLoop
  BY <1>2, <1>4 DEF CallLoop, EnterLoop
<1>5. CASE LoopRuns
  <2>1. CASE QueuePush(LoopThread) \/ QueueWakeup(LoopThread)
    BY <1>1, <1>2, <1>5, <2>1 DEF LoopRuns, threadVars, QueuePush, QueueWakeup
  <2>2. CASE LoopStep \/ PollEvents \/ PollTimeout
    BY <1>2, <1>5, <2>2 DEF LoopRuns, threadVars, LoopStep, TestQuit, HandleRead,
         HandleOther, BeginFunctors, SwapFunctors, FunctorReturns, EndFunctors,
         PollEvents, PollTimeout, PollReturn
  <2> QED  BY <1>5, <2>1, <2>2 DEF LoopRuns
<1>6. CASE OthersCall
  BY <1>6 DEF OthersCall, threadVars
<1>7. CASE CallsFinish
  BY <1>1, <1>2, <1>7 DEF CallsFinish, threadVars, QueueWakeup
<1>8. CASE StartLoop \/ StartLoopReturns
  BY <1>2, <1>8 DEF StartLoop, StartLoopReturns, vars
<1>9. CASE Dtor
  BY <1>9 DEF Dtor, vars
<1>10. CASE DtorQuits \/ DtorWakes
  BY <1>1, <1>2, <1>10, ThreadAssumption
     DEF DtorQuits, DtorWakes, QuitStore, QuitWakeup
<1>11. CASE DtorJoins \/ Gone \/ UNCHANGED allVars
  BY <1>2, <1>11 DEF DtorJoins, Gone, allVars, threadVars, vars
<1> QED  BY <1>3, <1>4, <1>5, <1>6, <1>7, <1>8, <1>9, <1>10, <1>11 DEF ThreadNext

(* Nobody uses the loop on threadFunc's stack when it is gone, but for the *)
(* wakeup of the destructor's own quit, and threadFunc does not outlive    *)
(* the EventLoopThread whose members it uses.                              *)
THEOREM LoopAliveWhileUsed ==
    ASSUME Owner \in Posters
    PROVE  ThreadSpec => []AliveWhileUsed
<1>1. ThreadInit => ThreadInv
  BY DEF ThreadInit, Init, ThreadInv, PlaceInv, QuitInv, UserInv, Threads
<1>2. TypeOK /\ ThreadInv /\ [ThreadNext]_allVars => ThreadInv'
  BY PlaceStep, ThreadQuitStep, UserStep DEF ThreadInv
<1>3. ThreadInv => AliveWhileUsed
  BY DEF ThreadInv, PlaceInv, UserInv, AliveWhileUsed
<1>4. ThreadSpec => []TypeOK
  BY ThreadRunsLoop, TypeCorrect, PTL
<1> QED  BY <1>1, <1>2, <1>3, <1>4, PTL DEF ThreadSpec
=============================================================================
