-------------------------- MODULE EventLoopThread ---------------------------
(***************************************************************************)
(* networker::net::EventLoopThread around an EventLoop: the owner starts a *)
(* thread that makes an EventLoop on its stack, publishes its address and  *)
(* runs it; the destructor quits the loop and joins the thread.  Posters   *)
(* other than the owner use the loop as long as the owner keeps it.        *)
(***************************************************************************)
EXTENDS EventLoop

CONSTANT Owner    \* one of the posters

VARIABLES
    thread,   \* where threadFunc is
    loopPtr,  \* loop_ is not NULL
    own       \* where the owner is: startLoop, the program, the destructor

threadVars == <<thread, loopPtr, own>>
allVars == <<vars, threadVars>>

ThreadInit ==
    /\ Init
    /\ thread = "unstarted"
    /\ loopPtr = FALSE
    /\ own = "new"

-----------------------------------------------------------------------------
(* threadFunc.                                                             *)

(* The EventLoop exists and callback_ runs; then loop_ is set and the      *)
(* owner is notified.                                                      *)
Publish ==
    /\ thread = "callback" /\ call[LoopThread] = "none"
    /\ thread' = "published"
    /\ loopPtr' = TRUE
    /\ UNCHANGED <<vars, own>>

CallLoop ==
    /\ thread = "published"
    /\ EnterLoop
    /\ thread' = "looping"
    /\ UNCHANGED <<loopPtr, own>>

ClearLoop ==
    /\ thread = "looping" /\ LoopAt("outside")
    /\ thread' = "cleared"
    /\ loopPtr' = FALSE
    /\ UNCHANGED <<vars, own>>

(* The EventLoop on the stack of threadFunc is destroyed.                  *)
DestroyLoop ==
    /\ thread = "cleared"
    /\ thread' = "exited"
    /\ UNCHANGED <<vars, loopPtr, own>>

(* The loop runs, or the user's callback_ queues functors.                 *)
LoopRuns ==
    /\ \/ thread = "looping" /\ pc # "outside"
             /\ (LoopStep \/ PollEvents \/ PollTimeout \/ QueuePush(LoopThread))
       \/ thread = "callback" /\ QueuePush(LoopThread)
       \/ QueueWakeup(LoopThread)
    /\ UNCHANGED threadVars

-----------------------------------------------------------------------------
(* The owner.                                                              *)
StartLoop ==
    /\ own = "new"
    /\ own' = "waiting"
    /\ thread' = "callback"
    /\ UNCHANGED <<vars, loopPtr>>

StartLoopReturns ==
    /\ own = "waiting"
    /\ loopPtr
    /\ own' = "running"
    /\ UNCHANGED <<vars, thread, loopPtr>>

OthersCall ==
    /\ own = "running"
    /\ \E t \in Posters : QueuePush(t)
    /\ UNCHANGED threadVars

CallsFinish ==
    /\ \E t \in Posters : QueueWakeup(t)
    /\ UNCHANGED threadVars

(* The destructor reads loop_ without the lock.  The program destroys the  *)
(* thread when no other call on the loop is under way.                     *)
Dtor ==
    /\ own \in {"new", "running"}
    /\ \A t \in Posters : call[t] = "none"
    /\ own' = IF loopPtr THEN "quitting" ELSE "gone"
    /\ UNCHANGED <<vars, thread, loopPtr>>

DtorQuits ==
    /\ own = "quitting"
    /\ QuitStore(Owner)
    /\ own' = "waking"
    /\ UNCHANGED <<thread, loopPtr>>

DtorWakes ==
    /\ own = "waking"
    /\ QuitWakeup(Owner)
    /\ own' = "joining"
    /\ UNCHANGED <<thread, loopPtr>>

DtorJoins ==
    /\ own = "joining"
    /\ thread = "exited"
    /\ own' = "gone"
    /\ UNCHANGED <<vars, thread, loopPtr>>

Gone == own = "gone" /\ UNCHANGED allVars

ThreadNext ==
    \/ Publish \/ CallLoop \/ ClearLoop \/ DestroyLoop \/ LoopRuns
    \/ StartLoop \/ StartLoopReturns \/ OthersCall \/ CallsFinish
    \/ Dtor \/ DtorQuits \/ DtorWakes \/ DtorJoins \/ Gone

ThreadSpec == ThreadInit /\ [][ThreadNext]_allVars

(* Both threads are scheduled, a call that was begun is finished, and poll *)
(* returns while the eventfd is readable or after its timeout.             *)
ThreadFairSpec ==
    /\ ThreadSpec
    /\ WF_allVars(Publish) /\ WF_allVars(CallLoop)
    /\ WF_allVars(ClearLoop) /\ WF_allVars(DestroyLoop)
    /\ WF_allVars(LoopStep /\ UNCHANGED threadVars)
    /\ WF_allVars((PollEvents \/ PollTimeout) /\ UNCHANGED threadVars)
    /\ WF_allVars(QueueWakeup(LoopThread) /\ UNCHANGED threadVars)
    /\ WF_allVars(CallsFinish) /\ WF_allVars(StartLoopReturns)
    /\ WF_allVars(DtorQuits) /\ WF_allVars(DtorWakes) /\ WF_allVars(DtorJoins)

-----------------------------------------------------------------------------
(* The loop on the stack of threadFunc exists while anyone queues a        *)
(* functor on it and until the destructor, which read loop_ without the    *)
(* lock, has stored quit_; and when the destructor is done, no threadFunc  *)
(* is left that would use its mutex_, loop_ and callback_.                 *)
AliveWhileUsed ==
    /\ \/ own \in {"running", "quitting"}
       \/ \E t \in Posters : call[t] = "queueInLoop"
       => thread \in {"published", "looping"}
    /\ own = "gone" => thread \in {"unstarted", "exited"}

(* quit() is documented to make the loop exit and the readme says the loop *)
(* runs until it sees the exit state: the destructor's join returns.       *)
DtorReturns == (own = "quitting") ~> (own = "gone")

=============================================================================
