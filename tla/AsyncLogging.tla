---------------------------- MODULE AsyncLogging ----------------------------
(***************************************************************************)
(* networker::AsyncLogging: the log front end (append, any thread, under   *)
(* mutex_) fills currentBuffer_; the logging thread (threadFunc) swaps the *)
(* filled buffers out under the lock and writes them without it to its own *)
(* LogFile.  A buffer is the sequence of the log lines in it, a line is    *)
(* its number.                                                             *)
(***************************************************************************)
EXTENDS LogFile

CONSTANTS Capacity,  \* lines that fit into a buffer
          KeepLimit, \* buffers written in a round; more are dropped (25)
          MaxLines,  \* bound: lines appended in one behaviour
          MaxTime    \* bound: seconds counted

(* The source keeps two buffers of an overlong round.                      *)
ASSUME CapacityAssumption == Capacity \in Nat \ {0}
ASSUME KeepAssumption == KeepLimit \in Nat /\ KeepLimit >= 2

VARIABLES
    current,  \* currentBuffer_
    next,     \* nextBuffer_ holds an (empty) buffer
    buffers,  \* buffers_: the filled ones
    running,  \* running_
    pc,       \* the logging thread
    new1,     \* newBuffer1 holds a buffer
    new2,     \* newBuffer2 holds a buffer
    toWrite,  \* buffersToWrite
    wrote,    \* how many of them have been written
    log,      \* output, from the start of threadFunc on
    now,      \* time(NULL)
    dropped,  \* lines discarded with a "Dropped" message
    appended, \* lines appended so far
    owner     \* the thread that starts and stops the logger

front == <<current, next, buffers>>
back == <<new1, new2, toWrite, wrote, log, dropped>>
vars == <<front, running, pc, back, appended, owner, now>>

TypeOK ==
    /\ current \in Seq(Nat)
    /\ next \in BOOLEAN
    /\ buffers \in Seq(Seq(Nat))
    /\ running \in BOOLEAN
    /\ pc \in {"unstarted", "begin", "test", "lock", "wait", "swap", "cut",
               "write", "refill", "done"}
    /\ new1 \in BOOLEAN /\ new2 \in BOOLEAN
    /\ toWrite \in Seq(Seq(Nat))
    /\ wrote \in 0..Len(toWrite)
    /\ log \in Logs
    /\ now \in Nat
    /\ dropped \in SUBSET Nat
    /\ appended \in Nat
    /\ owner \in {"created", "starting", "started", "stopping", "joining", "stopped"}

Init ==
    /\ current = <<>> /\ next = TRUE /\ buffers = <<>>
    /\ running = FALSE
    /\ pc = "unstarted"
    /\ new1 = TRUE /\ new2 = TRUE /\ toWrite = <<>>
    /\ wrote = 0 /\ now = 1 /\ log = NewLog(now) /\ dropped = {}
    /\ appended = 0 /\ owner = "created"

-----------------------------------------------------------------------------
(* cond_.notify() wakes the logging thread if it waits; it is lost         *)
(* otherwise.                                                              *)
Notify == pc' = IF pc = "wait" THEN "swap" ELSE pc

(* FixedBuffer::avail: the room left, in lines.                            *)
Avail(buffer) == Capacity - Len(buffer)

(* append, all of it under mutex_.                                         *)
AppendLine ==
    /\ appended < MaxLines
    /\ appended' = appended + 1
    /\ IF Avail(current) > 0
       THEN /\ current' = Append(current, appended + 1)
            /\ UNCHANGED <<next, buffers, pc>>
       ELSE /\ buffers' = Append(buffers, current)
            /\ next' = FALSE
            /\ current' = <<appended + 1>>
            /\ Notify
    /\ UNCHANGED <<running, back, owner, now>>

-----------------------------------------------------------------------------
(* start(): set running_, Thread::start, wait for the latches.             *)
Start ==
    /\ owner = "created"
    /\ owner' = "starting"
    /\ running' = TRUE
    /\ pc' = "begin"
    /\ UNCHANGED <<front, back, appended, now>>

(* runInThread and the beginning of threadFunc: count the latches down and *)
(* open the log file.                                                      *)
RunInThread ==
    /\ pc = "begin"
    /\ pc' = "test"
    /\ log' = NewLog(now)
    /\ UNCHANGED <<front, running, new1, new2, toWrite, wrote, dropped, appended, owner, now>>

(* The thread's latch and the logger's are at 0.                           *)
CountedDown == pc \notin {"unstarted", "begin"}

(* start() returns.                                                        *)
LatchWait ==
    /\ owner = "starting"
    /\ CountedDown
    /\ owner' = "started"
    /\ UNCHANGED <<front, running, pc, back, appended, now>>

(* stop(): clear running_, notify (without the lock), join.                *)
StopFlag ==
    /\ owner = "started"
    /\ owner' = "stopping"
    /\ running' = FALSE
    /\ UNCHANGED <<front, pc, back, appended, now>>

StopNotify ==
    /\ owner = "stopping"
    /\ owner' = "joining"
    /\ Notify
    /\ UNCHANGED <<front, running, back, appended, now>>

Join ==
    /\ owner = "joining"
    /\ pc = "done"
    /\ owner' = "stopped"
    /\ UNCHANGED <<front, running, pc, back, appended, now>>

-----------------------------------------------------------------------------
(* threadFunc.                                                             *)
TestRunning ==
    /\ pc = "test"
    /\ pc' = IF running THEN "lock" ELSE "done"
    /\ UNCHANGED <<front, running, back, appended, owner, now>>

(* The critical section: wait, at most flushInterval_, if nothing is filed.*)
WaitForSeconds ==
    /\ pc = "lock"
    /\ buffers = <<>>
    /\ pc' = "wait"
    /\ UNCHANGED <<front, running, back, appended, owner, now>>

(* Variant: the wait has no time limit.                                    *)
WaitForever == FALSE /\ UNCHANGED vars

(* The time is over, or the wait returned for no reason.                   *)
WaitEnds ==
    /\ pc = "wait"
    /\ pc' = "swap"
    /\ UNCHANGED <<front, running, back, appended, owner, now>>

(* With the lock held and something filed, or back from the wait (an if,   *)
(* not a while: whatever ended the wait, the swap follows).                *)
HoldsLock == pc = "swap" \/ (pc = "lock" /\ buffers # <<>>)

(* Variant: the current buffer is filed before the older ones.             *)
SwapCurrentFirst ==
    /\ HoldsLock
    /\ toWrite' = <<current>> \o buffers
    /\ buffers' = <<>>
    /\ current' = <<>> /\ new1' = FALSE
    /\ next' = TRUE /\ new2' = (new2 /\ next)
    /\ pc' = "cut"
    /\ UNCHANGED <<running, wrote, log, dropped, appended, owner, now>>

SwapBuffers ==
    /\ HoldsLock
    /\ toWrite' = Append(buffers, current)
    /\ buffers' = <<>>
    /\ current' = <<>> /\ new1' = FALSE
    /\ next' = TRUE /\ new2' = (new2 /\ next)
    /\ pc' = "cut"
    /\ UNCHANGED <<running, wrote, log, dropped, appended, owner, now>>

LinesIn(chunks) == UNION {ToSet(chunks[i]) : i \in DOMAIN chunks}

(* Variant: an overlong round keeps a single buffer.                       *)
KeptOne == IF Len(toWrite) > KeepLimit THEN SubSeq(toWrite, 1, 1) ELSE toWrite

(* What is left of an overlong round: its first two buffers.               *)
Kept == IF Len(toWrite) > KeepLimit THEN SubSeq(toWrite, 1, 2) ELSE toWrite

(* Lines are dropped with a message of their own in the log.               *)
CutRound ==
    /\ pc = "cut"
    /\ toWrite' = Kept
    /\ dropped' = dropped \union (LinesIn(toWrite) \ LinesIn(Kept))
    /\ log' = IF Kept = toWrite THEN log ELSE AppendUnlocked(log, <<>>, 1, now)
    /\ pc' = "write"
    /\ UNCHANGED <<front, running, new1, new2, wrote, appended, owner, now>>

WriteBuffer ==
    /\ pc = "write" /\ wrote < Len(toWrite)
    /\ wrote' = wrote + 1
    /\ log' = AppendUnlocked(log, toWrite[wrote + 1], Len(toWrite[wrote + 1]), now)
    /\ UNCHANGED <<front, running, pc, new1, new2, toWrite, dropped, appended, owner, now>>

(* Two of the written buffers are kept for the refill.                     *)
EndWriting ==
    /\ pc = "write" /\ wrote = Len(toWrite)
    /\ toWrite' = IF Len(toWrite) > 2 THEN SubSeq(toWrite, 1, 2) ELSE toWrite
    /\ wrote' = 0
    /\ pc' = "refill"
    /\ UNCHANGED <<front, running, new1, new2, log, dropped, appended, owner, now>>

(* Refill newBuffer1, and newBuffer2 if it was given away, from the        *)
(* buffers just written; forget the rest.                                  *)
Refill ==
    /\ pc = "refill"
    /\ new1' = (new1 \/ Len(toWrite) >= 1)
    /\ new2' = (new2 \/ Len(toWrite) >= (IF new1 THEN 1 ELSE 2))
    /\ toWrite' = <<>>
    /\ pc' = "test"
    /\ UNCHANGED <<front, running, wrote, log, dropped, appended, owner, now>>

(* A second passes.                                                        *)
Tick ==
    /\ now < MaxTime
    /\ now' = now + 1
    /\ UNCHANGED <<front, running, pc, back, appended, owner>>

BackStep == RunInThread \/ TestRunning \/ WaitForSeconds \/ WaitEnds \/ SwapBuffers
            \/ CutRound \/ WriteBuffer \/ EndWriting \/ Refill

Finished == owner = "stopped" /\ UNCHANGED vars

Next == AppendLine \/ Start \/ LatchWait \/ StopFlag \/ StopNotify \/ Join \/ BackStep \/ Tick
        \/ Finished

Spec == Init /\ [][Next]_vars

(* The logging thread is scheduled and its timed wait ends; a stop() that  *)
(* was called goes on.                                                     *)
FairSpec == Spec /\ WF_vars(BackStep) /\ WF_vars(StopNotify) /\ WF_vars(Join)

-----------------------------------------------------------------------------
(* The asserts of threadFunc: at the top of a round both spare buffers are *)
(* there and nothing is left to write; the swap gives something to write;  *)
(* the refill finds as many written buffers as it has to replace.          *)
SparesReturn ==
    /\ TypeOK
    /\ pc = "test" => new1 /\ new2 /\ toWrite = <<>>
    /\ pc \in {"cut", "write"} => toWrite # <<>>
    /\ pc = "refill" => Len(toWrite) >= (IF new1 THEN 0 ELSE 1) + (IF new2 THEN 0 ELSE 1)

Unwritten == IF pc \in {"cut", "write"} THEN SubSeq(toWrite, wrote + 1, Len(toWrite)) ELSE <<>>

(* Where the lines are: in the files, in buffers being written, filed, and *)
(* in the current buffer.                                                  *)
Chunks == Written(log) \o Unwritten \o buffers \o <<current>>

(* Read one after another, the chunks give an ascending sequence.          *)
Ascending(chunks) ==
    \A i, j \in DOMAIN chunks :
        \A a \in DOMAIN chunks[i], b \in DOMAIN chunks[j] :
            (i < j \/ (i = j /\ a < b)) => chunks[i][a] < chunks[j][b]

(* Every line appended is, in this order, in a log file, in a buffer being *)
(* written, filed, or current, or was dropped with an overlong round, or   *)
(* was in a file that a second rename in the same second replaced: swaps   *)
(* and rolls neither lose, repeat nor reorder any other line, and the      *)
(* order of the renamed files' names is that of their lines.               *)
LinesInOrder ==
    /\ Ascending(Chunks)
    /\ LinesIn(Chunks) \union dropped \union log.lost = 1..appended
    /\ LinesIn(Chunks) \intersect (dropped \union log.lost) = {}
    /\ \A i, j \in DOMAIN AllFiles(log) :
          i < j /\ AllFiles(log)[i].name # Base /\ AllFiles(log)[j].name # Base
              => AllFiles(log)[i].name < AllFiles(log)[j].name

(* Each line gets into the file (or is dropped with a message) while the   *)
(* logger runs, with no more lines needed to push it out.                  *)
LineWritten ==
    \A n \in 1..MaxLines :
        (appended >= n) ~> (n \in OnDisk(log) \union log.lost \union dropped
                           \/ owner # "started")

(* stop() returns: the join does not wait for a thread that sleeps on.     *)
StopReturns == (owner = "stopping") ~> (owner = "stopped")

=============================================================================
