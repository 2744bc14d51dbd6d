------------------------------ MODULE Executor ------------------------------
(***************************************************************************)
(* What EventLoop::queueInLoop promises its callers, with no threads, no   *)
(* locks and no wakeups: callbacks are numbered in the order in which they *)
(* are accepted and are executed one at a time, in that order, each once.  *)
(***************************************************************************)
EXTENDS Naturals, Sequences

VARIABLES queue,    \* accepted callbacks that have not run to completion
          accepted, \* number of callbacks accepted so far
          executed  \* number of callbacks that have run to completion

vars == <<queue, accepted, executed>>

Init == queue = <<>> /\ accepted = 0 /\ executed = 0

Accept ==
    /\ queue' = Append(queue, accepted + 1)
    /\ accepted' = accepted + 1
    /\ UNCHANGED executed

(* The head of the queue has to be the oldest callback not yet executed.   *)
Execute ==
    /\ queue # <<>>
    /\ Head(queue) = executed + 1
    /\ queue' = Tail(queue)
    /\ executed' = executed + 1
    /\ UNCHANGED accepted

Next == Accept \/ Execute

Spec == Init /\ [][Next]_vars
=============================================================================
