---------------------------- MODULE TcpConnection ---------------------------
(***************************************************************************)
(* The life of one networker::net::TcpConnection of a TcpServer whose      *)
(* connections run on an I/O loop of the thread pool: accepted on the main *)
(* loop, used and closed on the I/O loop, removed on the main loop and     *)
(* destroyed on the I/O loop, while other threads (Users) call its         *)
(* thread-safe looking operations.  Each loop is taken as the FIFO of      *)
(* functors that module Executor specifies.                                *)
(*                                                                         *)
(* The object lives while a shared_ptr to it exists: in connections_, in a *)
(* queued functor bound to shared_from_this(), or in a user's hands.       *)
(* Functors of send, shutdown and startRead are bound to a raw this.       *)
(* The asserts do not stop the program (the default build defines NDEBUG); *)
(* one that fails is recorded in "failed".                                 *)
(***************************************************************************)
EXTENDS Naturals, Sequences, FiniteSets

CONSTANTS Users,         \* threads other than the two loops
          Ops,           \* operations called on the I/O loop, in callbacks
          UserOps,       \* operations called by Users
          MsgLen,        \* bytes of a message
          MaxBytes,      \* bound: bytes passed to sendInLoop
          MaxQueue,      \* bound: functors on the loop when a call queues another
          HighWaterMark

ASSUME ConfigAssumption ==
    /\ Ops \union UserOps \subseteq {"send", "shutdown", "forceClose",
                                     "forceCloseWithDelay", "startRead"}
    /\ MsgLen \in Nat \ {0} /\ MaxBytes \in Nat /\ MaxQueue \in Nat
    /\ HighWaterMark \in Nat

VARIABLES
    inMap,     \* connections_ holds the connection
    mainQueue, \* functors of the main loop
    ioQueue,   \* functors of the I/O loop
    state,     \* state_, or "none" before the accept
    reading,   \* channel_->isReading()
    writing,   \* channel_->isWriting()
    added,     \* channel_ is registered with the poller of its loop
    outBuf,    \* outputBuffer_: bytes named by their position in the stream
    accepted,  \* bytes passed to sendInLoop on an open connection
    wired,     \* bytes the socket took
    fin,       \* socket_->shutdownWrite() was called
    eof,       \* the peer has closed its side
    reset,     \* the peer has reset the connection
    delayed,   \* a forceCloseWithDelay timer is pending
    holds,     \* users that hold a TcpConnectionPtr
    op,        \* user -> the call it is in, past its test of state_
    late,      \* a call took effect after a close that came since its test
    failed     \* assertions that failed

connVars == <<state, reading, writing, added, outBuf, accepted, wired, fin>>
peerVars == <<eof, reset>>
userVars == <<holds, op, late>>
vars == <<inMap, mainQueue, ioQueue, connVars, peerVars, delayed, userVars,
          failed>>

StrongFunctors == {"connectEstablished", "connectDestroyed", "forceCloseInLoop",
                   "callback"}
RawFunctors == {"sendInLoop", "shutdownInLoop", "startReadInLoop"}
States == {"none", "kConnecting", "kConnected", "kDisconnecting", "kDisconnected"}
Asserts == {"connectEstablished: kConnecting", "handleClose: open",
            "removeConnectionInLoop: n == 1", "Channel::remove: isNoneEvent",
            "removeChannel: registered"}

Elements(s) == {s[i] : i \in 1..Len(s)}

TypeOK ==
    /\ inMap \in BOOLEAN /\ late \in BOOLEAN
    /\ mainQueue \in Seq({"removeConnectionInLoop"})
    /\ ioQueue \in Seq(StrongFunctors \union RawFunctors)
    /\ state \in States
    /\ reading \in BOOLEAN /\ writing \in BOOLEAN /\ added \in BOOLEAN
    /\ outBuf \in Seq(Nat) /\ accepted \in Nat /\ wired \in Nat
    /\ fin \in BOOLEAN /\ eof \in BOOLEAN /\ reset \in BOOLEAN /\ delayed \in BOOLEAN
    /\ holds \in SUBSET Users
    /\ op \in [Users -> UserOps \union {"none"}]
    /\ failed \in SUBSET Asserts

Init ==
    /\ inMap = FALSE /\ late = FALSE
    /\ mainQueue = <<>> /\ ioQueue = <<>>
    /\ state = "none"
    /\ reading = FALSE /\ writing = FALSE /\ added = FALSE
    /\ outBuf = <<>> /\ accepted = 0 /\ wired = 0
    /\ fin = FALSE /\ eof = FALSE /\ reset = FALSE /\ delayed = FALSE
    /\ holds = {} /\ op = [u \in Users |-> "none"]
    /\ failed = {}

(* A shared_ptr to the connection exists.                                  *)
Alive ==
    \/ inMap
    \/ mainQueue # <<>>
    \/ Elements(ioQueue) \intersect StrongFunctors # {}
    \/ holds # {}

Fails(assertion, cond) == IF cond THEN {assertion} ELSE {}
Open == state \in {"kConnected", "kDisconnecting"}

-----------------------------------------------------------------------------
(* The output path.                                                        *)

(* What the kernel can take of n bytes; a reset or shut down socket fails  *)
(* with EPIPE or ECONNRESET and takes nothing.                             *)
Broken == reset \/ fin
Writable(n) == IF Broken THEN {0} ELSE 0..n

(* Variant: sendInLoop writes to the socket although output is waiting.    *)
SendInLoopUnordered(queue) ==
    /\ ioQueue' = queue
    /\ accepted' = accepted + MsgLen
    /\ \E n \in Writable(MsgLen) :
          LET rest == [i \in 1..(MsgLen - n) |-> accepted + n + i]
          IN  /\ wired' = wired + n
              /\ outBuf' = outBuf \o rest
              /\ writing' = (writing \/ rest # <<>>)
    /\ UNCHANGED <<state, reading, added, fin>>

(* sendInLoop: give up when closed; write directly when nothing waits;     *)
(* buffer the rest, unless the socket is broken, and watch for writable.   *)
(* writeCompleteCallback_ and highWaterMarkCallback_ are queued behind the *)
(* functors of queue.                                                      *)
SendInLoop(queue) ==
    IF state = "kDisconnected"
    THEN ioQueue' = queue /\ UNCHANGED connVars
    ELSE
    /\ accepted' = accepted + MsgLen
    /\ LET direct == ~writing /\ outBuf = <<>>
       IN  \E n \in IF direct THEN Writable(MsgLen) ELSE {0} :
             LET fault == direct /\ Broken
                 rest == [i \in 1..(MsgLen - n) |-> accepted + n + i]
                 high == /\ Len(outBuf) + Len(rest) >= HighWaterMark
                         /\ Len(outBuf) < HighWaterMark
             IN  /\ wired' = wired + n
                 /\ outBuf' = IF fault THEN outBuf ELSE outBuf \o rest
                 /\ writing' = (writing \/ (rest # <<>> /\ ~fault))
                 /\ ioQueue' = IF rest = <<>> \/ (high /\ ~fault)
                               THEN Append(queue, "callback") ELSE queue
    /\ UNCHANGED <<state, reading, added, fin>>

(* shutdownInLoop leaves a connection that is writing to handleWrite.      *)
ShutdownInLoop(stillWriting) == fin' = (fin \/ ~stillWriting)

(* Variant: handleWrite forgets the pending shutdown.                      *)
HandleWriteNoShutdown ==
    /\ writing /\ Alive
    /\ \E n \in Writable(Len(outBuf)) \ {0} :
          /\ wired' = wired + n
          /\ outBuf' = SubSeq(outBuf, n + 1, Len(outBuf))
          /\ writing' = (outBuf' # <<>>)
          /\ ioQueue' = IF outBuf' = <<>> THEN Append(ioQueue, "callback") ELSE ioQueue
    /\ UNCHANGED <<state, reading, added, accepted, fin, inMap,
                   mainQueue, peerVars, delayed, userVars, failed>>

(* Variant: the writable event is never switched off.                      *)
HandleWriteKeepsWatching ==
    /\ writing /\ Alive
    /\ \E n \in Writable(Len(outBuf)) \ {0} :
          /\ wired' = wired + n
          /\ outBuf' = SubSeq(outBuf, n + 1, Len(outBuf))
    /\ UNCHANGED <<state, reading, writing, added, accepted, fin, ioQueue,
                   inMap, mainQueue, peerVars, delayed, userVars, failed>>

(* handleWrite on a writable socket that takes some of the output.  A      *)
(* failed write only logs.                                                 *)
HandleWrite ==
    /\ writing /\ Alive
    /\ \E n \in Writable(Len(outBuf)) \ {0} :
          /\ wired' = wired + n
          /\ outBuf' = SubSeq(outBuf, n + 1, Len(outBuf))
          /\ writing' = (outBuf' # <<>>)
          /\ ioQueue' = IF outBuf' = <<>> THEN Append(ioQueue, "callback") ELSE ioQueue
          /\ IF outBuf' = <<>> /\ state = "kDisconnecting"
             THEN ShutdownInLoop(FALSE) ELSE UNCHANGED fin
    /\ UNCHANGED <<state, reading, added, accepted, inMap,
                   mainQueue, peerVars, delayed, userVars, failed>>

-----------------------------------------------------------------------------
(* Closing.                                                                *)

(* handleClose with the close callback, TcpServer::removeConnection.       *)
HandleClose ==
    /\ state' = "kDisconnected"
    /\ reading' = FALSE /\ writing' = FALSE
    /\ mainQueue' = Append(mainQueue, "removeConnectionInLoop")
    /\ failed' = failed \union Fails("handleClose: open", ~Open)
    /\ UNCHANGED <<added, outBuf, accepted, wired, fin>>

(* handleRead finds the end of the stream (after a reset: once the pending *)
(* error has been read, which handleError only logs).  Channel::handleEvent*)
(* dispatches only while its tie can be locked.                            *)
HandleRead ==
    /\ reading /\ Alive
    /\ eof \/ reset
    /\ HandleClose
    /\ UNCHANGED <<inMap, ioQueue, peerVars, delayed, userVars>>

(* Variant: forceCloseInLoop does not look at the state again.             *)
ForceCloseUnchecked == HandleClose

ForceCloseInLoop ==
    IF Open THEN HandleClose ELSE UNCHANGED <<connVars, mainQueue, failed>>

ConnectEstablished ==
    /\ state' = "kConnected"
    /\ reading' = TRUE
    /\ added' = TRUE
    /\ failed' = failed \union
                 Fails("connectEstablished: kConnecting", state # "kConnecting")
    /\ UNCHANGED <<writing, outBuf, accepted, wired, fin>>

(* connectDestroyed; its last call, channel_->remove(), is unconditional.  *)
ConnectDestroyed ==
    LET connected == state = "kConnected" IN
    /\ state' = IF connected THEN "kDisconnected" ELSE state
    /\ reading' = (reading /\ ~connected)
    /\ writing' = (writing /\ ~connected)
    /\ added' = FALSE
    /\ failed' = failed
          \union Fails("Channel::remove: isNoneEvent", reading' \/ writing')
          \union Fails("removeChannel: registered", ~added)
    /\ UNCHANGED <<outBuf, accepted, wired, fin>>

(* After the close it registers the channel again.                         *)
StartReadInLoop ==
    /\ reading' = TRUE
    /\ added' = TRUE
    /\ late' = (late \/ ~Open)
    /\ UNCHANGED <<state, writing, outBuf, accepted, wired, fin>>

-----------------------------------------------------------------------------
(* The I/O loop runs its oldest functor.                                   *)
PopFunctor(f) == ioQueue # <<>> /\ Head(ioQueue) = f

RunFunctor ==
    /\ \/ /\ PopFunctor("connectEstablished")
          /\ ConnectEstablished
          /\ ioQueue' = Tail(ioQueue)
          /\ UNCHANGED <<mainQueue, late>>
       \/ /\ PopFunctor("connectDestroyed")
          /\ ConnectDestroyed
          /\ ioQueue' = Tail(ioQueue)
          /\ UNCHANGED <<mainQueue, late>>
       \/ /\ PopFunctor("forceCloseInLoop")
          /\ ForceCloseInLoop
          /\ ioQueue' = Tail(ioQueue)
          /\ UNCHANGED late
       \/ /\ PopFunctor("sendInLoop")
          /\ SendInLoop(Tail(ioQueue))
          /\ UNCHANGED <<mainQueue, late, failed>>
       \/ /\ PopFunctor("shutdownInLoop")
          /\ ShutdownInLoop(writing)
          /\ ioQueue' = Tail(ioQueue)
          /\ UNCHANGED <<state, reading, writing, added, outBuf, accepted, wired,
                         mainQueue, late, failed>>
       \/ /\ PopFunctor("startReadInLoop")
          /\ StartReadInLoop
          /\ ioQueue' = Tail(ioQueue)
          /\ UNCHANGED <<mainQueue, failed>>
       \/ /\ PopFunctor("callback")
          /\ ioQueue' = Tail(ioQueue)
          /\ UNCHANGED <<connVars, mainQueue, late, failed>>
    /\ UNCHANGED <<inMap, peerVars, delayed, holds, op>>

-----------------------------------------------------------------------------
(* Calls on the I/O loop itself, from a callback of the connection.        *)
SendsAhead == Cardinality({i \in 1..Len(ioQueue) : ioQueue[i] = "sendInLoop"})
              + Cardinality({u \in Users : op[u] = "send"})
RoomToSend == accepted + MsgLen * (SendsAhead + 1) <= MaxBytes
RoomToQueue == Len(ioQueue) < MaxQueue

(* Bound: once a call came late there are no further ones.                 *)
InLoop(o) == o \in Ops /\ added /\ Alive /\ ~late

SendOnLoop ==
    /\ InLoop("send") /\ RoomToSend
    /\ state = "kConnected"
    /\ SendInLoop(ioQueue)
    /\ UNCHANGED <<inMap, mainQueue, peerVars, delayed, userVars, failed>>

ShutdownOnLoop ==
    /\ InLoop("shutdown")
    /\ state = "kConnected"
    /\ state' = "kDisconnecting"
    /\ ShutdownInLoop(writing)
    /\ UNCHANGED <<reading, writing, added, outBuf, accepted, wired, inMap,
                   mainQueue, ioQueue, peerVars, delayed, userVars, failed>>

(* forceClose queues even on the loop thread.                              *)
ForceClose ==
    /\ Open
    /\ state' = "kDisconnecting"
    /\ ioQueue' = Append(ioQueue, "forceCloseInLoop")
    /\ UNCHANGED <<reading, writing, added, outBuf, accepted, wired, fin>>

ForceCloseOnLoop ==
    /\ InLoop("forceClose") /\ RoomToQueue
    /\ ForceClose
    /\ UNCHANGED <<inMap, mainQueue, peerVars, delayed, userVars, failed>>

ForceCloseWithDelayOnLoop ==
    /\ InLoop("forceCloseWithDelay") /\ RoomToQueue /\ ~delayed
    /\ Open
    /\ state' = "kDisconnecting"
    /\ delayed' = TRUE
    /\ UNCHANGED <<reading, writing, added, outBuf, accepted, wired, fin,
                   inMap, mainQueue, ioQueue, peerVars, userVars, failed>>

(* The timer of forceCloseWithDelay calls forceClose if its weak_ptr can   *)
(* still be locked.                                                        *)
DelayExpires ==
    /\ delayed
    /\ delayed' = FALSE
    /\ IF Alive /\ Open THEN ForceClose ELSE UNCHANGED <<connVars, ioQueue>>
    /\ UNCHANGED <<inMap, mainQueue, peerVars, userVars, failed>>

StartReadOnLoop ==
    /\ InLoop("startRead")
    /\ ~reading
    /\ StartReadInLoop
    /\ UNCHANGED <<inMap, mainQueue, ioQueue, peerVars, delayed, holds, op, failed>>

-----------------------------------------------------------------------------
(* Calls from other threads.  state_ is a plain enum: the test and the     *)
(* store are separate steps, whatever the comments say about compare and   *)
(* swap.                                                                   *)
UserTakes(u) ==
    /\ u \notin holds
    /\ state = "kConnected" /\ added
    /\ holds' = holds \union {u}
    /\ UNCHANGED <<inMap, mainQueue, ioQueue, connVars, peerVars, delayed,
                   op, late, failed>>

UserReleases(u) ==
    /\ u \in holds
    /\ op[u] = "none"
    /\ holds' = holds \ {u}
    /\ UNCHANGED <<inMap, mainQueue, ioQueue, connVars, peerVars, delayed,
                   op, late, failed>>

(* The test at the head of send, shutdown, forceClose, ...                 *)
Passes(o) ==
    \/ o \in {"send", "shutdown"} /\ state = "kConnected"
    \/ o \in {"forceClose", "forceCloseWithDelay"} /\ Open
    \/ o = "startRead"

UserTests(u, o) ==
    /\ u \in holds /\ op[u] = "none" /\ ~late
    /\ Passes(o)
    /\ RoomToQueue /\ (o = "send" => RoomToSend)
    /\ op' = [op EXCEPT ![u] = o]
    /\ UNCHANGED <<inMap, mainQueue, ioQueue, connVars, peerVars, delayed,
                   holds, late, failed>>

(* ... and its body: store the state, then queue the functor.              *)
FunctorOf(o) == CASE o = "send" -> <<"sendInLoop">>
                  [] o = "shutdown" -> <<"shutdownInLoop">>
                  [] o = "forceClose" -> <<"forceCloseInLoop">>
                  [] o = "startRead" -> <<"startReadInLoop">>
                  [] OTHER -> <<>>

UserActs(u) ==
    /\ op[u] # "none"
    /\ state' = IF op[u] \in {"send", "startRead"} THEN state ELSE "kDisconnecting"
    /\ ioQueue' = ioQueue \o FunctorOf(op[u])
    /\ delayed' = (delayed \/ op[u] = "forceCloseWithDelay")
    /\ op' = [op EXCEPT ![u] = "none"]
    /\ late' = (late \/ ~Open)
    /\ UNCHANGED <<reading, writing, added, outBuf, accepted, wired, fin,
                   inMap, mainQueue, peerVars, holds, failed>>

-----------------------------------------------------------------------------
(* The main loop, the server and the peer.                                 *)
NewConnection ==
    /\ state = "none"
    /\ state' = "kConnecting"
    /\ inMap' = TRUE
    /\ ioQueue' = Append(ioQueue, "connectEstablished")
    /\ UNCHANGED <<reading, writing, added, outBuf, accepted, wired, fin,
                   mainQueue, peerVars, delayed, userVars, failed>>

(* Variant: the map keeps the connection.                                  *)
RemoveKeepsMap ==
    /\ mainQueue # <<>>
    /\ mainQueue' = Tail(mainQueue)
    /\ ioQueue' = Append(ioQueue, "connectDestroyed")
    /\ UNCHANGED <<inMap, connVars, peerVars, delayed, userVars, failed>>

RemoveConnectionInLoop ==
    /\ mainQueue # <<>>
    /\ mainQueue' = Tail(mainQueue)
    /\ inMap' = FALSE
    /\ ioQueue' = Append(ioQueue, "connectDestroyed")
    /\ failed' = failed \union Fails("removeConnectionInLoop: n == 1", ~inMap)
    /\ UNCHANGED <<connVars, peerVars, delayed, userVars>>

PeerCloses ==
    /\ state # "none"
    /\ ~eof /\ eof' = TRUE
    /\ UNCHANGED <<inMap, mainQueue, ioQueue, connVars, reset, delayed,
                   userVars, failed>>

PeerResets ==
    /\ state # "none"
    /\ ~reset /\ reset' = TRUE
    /\ UNCHANGED <<inMap, mainQueue, ioQueue, connVars, eof, delayed,
                   userVars, failed>>

(* The connection is gone.                                                 *)
Destroyed == state # "none" /\ ~Alive

(* Nothing is left to do.                                                  *)
Done ==
    /\ Destroyed
    /\ ioQueue = <<>> /\ ~delayed
    /\ UNCHANGED vars

CallOnLoop == SendOnLoop \/ ShutdownOnLoop \/ ForceCloseOnLoop
              \/ ForceCloseWithDelayOnLoop \/ StartReadOnLoop
CallOffLoop == \E u \in Users : UserTakes(u) \/ UserReleases(u) \/ UserActs(u)
                                 \/ \E o \in UserOps : UserTests(u, o)

Next ==
    \/ RunFunctor \/ HandleRead \/ HandleWrite \/ DelayExpires
    \/ CallOnLoop \/ CallOffLoop
    \/ NewConnection \/ RemoveConnectionInLoop
    \/ PeerCloses \/ PeerResets \/ Done

Spec == Init /\ [][Next]_vars

(* Both loops run their functors, poll reports a readable socket and the   *)
(* timer expires.  A writable socket is reported as long as the peer reads *)
(* (it may also reset); users finish their calls and let go.               *)
FairSpec ==
    /\ Spec
    /\ WF_vars(RunFunctor) /\ WF_vars(RemoveConnectionInLoop)
    /\ WF_vars(HandleRead) /\ WF_vars(HandleWrite) /\ WF_vars(DelayExpires)
    /\ \A u \in Users : WF_vars(UserActs(u)) /\ SF_vars(UserReleases(u))

-----------------------------------------------------------------------------
(* However many ways of closing coincide, no assertion of TcpConnection,   *)
(* TcpServer or Channel on this path fails; when the last shared_ptr is    *)
(* dropped the connection is closed, its channel is out of the poller, and *)
(* no functor that is bound to a raw this is left.  Only a call that loses *)
(* the race between its test and a close breaks this.                      *)
NoAssertFails ==
    ~late => /\ failed = {}
             /\ Destroyed => /\ state = "kDisconnected" /\ ~added
                             /\ Elements(ioQueue) \intersect RawFunctors = {}

(* The bytes reach the socket in the order of the sends: what waits in     *)
(* outputBuffer_ is exactly what follows the bytes already written, and    *)
(* the write side of an open connection is shut down only after all of it. *)
StreamInOrder ==
    /\ ~Broken => outBuf = [i \in 1..(accepted - wired) |-> wired + i]
    /\ fin /\ Open /\ ~late => outBuf = <<>>

(* Output that is waiting is always watched for on an open connection.     *)
OutputWatched ==
    /\ TypeOK
    /\ state # "kDisconnected" /\ ~late => (writing <=> outBuf # <<>>)

(* A connection that shutdown or forceClose put into kDisconnecting sends  *)
(* its FIN or is closed.                                                   *)
ShutdownCompletes ==
    (state = "kDisconnecting") ~> (fin \/ reset \/ state = "kDisconnected" \/ late)

(* A closed connection is eventually destroyed: no reference is leaked.    *)
ClosedIsDestroyed == (state = "kDisconnected") ~> (Destroyed \/ late)
=============================================================================
