------------------------------ MODULE TcpServer -----------------------------
(***************************************************************************)
(* networker::net::TcpServer with its Acceptor, its EventLoopThreadPool    *)
(* and all its connections.  The base loop (0) accepts; loops 1, 2, ... of *)
(* the pool run the connections, or the base loop does when there is no    *)
(* thread.  A connection is what the server sees of it: module             *)
(* TcpConnection has the rest.  A loop is taken at the level of one round: *)
(* events are handled, then the functors that were queued when it swapped  *)
(* are run, then quit_ is tested.  The references bound in a round's       *)
(* functors are dropped when the round ends.                               *)
(***************************************************************************)
EXTENDS Naturals, Sequences, SequencesExt, FiniteSetsExt

CONSTANTS MaxThreads,    \* bound: threads of the pool
          MaxConns,      \* bound: clients of one behaviour
          Fds,           \* the descriptors the server may have open
          AcceptErrors   \* errors of accept(2) other than EMFILE

ASSUME ServerAssumption ==
    /\ MaxThreads \in Nat /\ MaxConns \in Nat
    /\ Fds \subseteq Nat /\ {0, 1} \subseteq Fds
    /\ AcceptErrors \subseteq {"EAGAIN", "ECONNABORTED", "EINTR", "EPROTO", "EPERM"}

Base == 0
Loops == 0..MaxThreads
Conns == 1..MaxConns
listenFd == 0
idleFd == 1

VARIABLES
    status,     \* the process: "running", "aborted" or "undefined"
    server,     \* the TcpServer: "up", "dtor" (in its destructor), "gone"
    numThreads, \* numThreads_
    started,    \* started_
    loops,      \* loops_
    next,       \* next_
    backlog,    \* clients the kernel holds for accept; 0 before listen()
    listenning, \* listenning_
    nextConnId, \* nextConnId_
    connections,\* connections_
    conn,       \* connection -> its state_, loop_ and socket_
    registered, \* connections whose channel is in the poller of its loop
    destroyed,  \* connections that were destroyed
    open,       \* open descriptors
    pc,         \* where the thread of each loop is
    joined,     \* threads of the pool that ~EventLoopThread has joined
    quit,       \* quit_ of each loop
    queue,      \* pendingFunctors_ of each loop
    batch,      \* functors of the round still to be run
    held,       \* connections bound in the functors of the round
    failed      \* the asserts that failed

poolVars == <<numThreads, started, loops, joined>>
acceptVars == <<next, backlog, nextConnId>>
connVars == <<connections, conn, registered>>
loopVars == <<pc, quit, queue, batch, held>>
vars == <<status, server, listenning, poolVars, acceptVars, connVars,
          destroyed, open, loopVars, failed>>

Functors == {"connectEstablished", "connectDestroyed", "removeConnectionInLoop"}
States == {"none", "kConnecting", "kConnected", "kDisconnecting", "kDisconnected"}

(* The asserts on a connection's way: start finds the acceptor not yet     *)
(* listening, connectEstablished finds kConnecting, the connection is in   *)
(* connections_ when it is erased, its channel is in the poller, and has   *)
(* no event enabled, when it is removed.                                   *)
Asserts == {"listenning", "kConnecting", "erased", "channels_", "isNoneEvent"}

TypeOK ==
    /\ status \in {"running", "aborted", "undefined"}
    /\ server \in {"up", "dtor", "gone"}
    /\ numThreads \in 0..MaxThreads /\ started \in BOOLEAN
    /\ loops \in Seq(Loops \ {Base}) /\ joined \in Loops /\ next \in Nat
    /\ backlog \in 0..MaxConns /\ listenning \in BOOLEAN
    /\ nextConnId \in 1..(MaxConns + 1)
    /\ connections \subseteq Conns /\ registered \subseteq Conns
    /\ conn \in [Conns -> [state : States, loop : Loops, fd : Fds]]
    /\ destroyed \subseteq Conns /\ open \subseteq Fds
    /\ pc \in [Loops -> {"none", "callback", "published", "poll", "handled",
                         "run", "start", "dtor", "join", "exited"}]
    /\ quit \in [Loops -> BOOLEAN]
    /\ \A q \in {queue, batch} : q \in [Loops -> Seq(Functors \X Conns)]
    /\ held \in [Loops -> SUBSET Conns]
    /\ failed \subseteq Asserts

(* The constructors of Acceptor, EventLoopThreadPool and TcpServer.        *)
Init ==
    /\ status = "running" /\ server = "up"
    /\ numThreads = 0 /\ started = FALSE /\ loops = <<>> /\ joined = 0 /\ next = 0
    /\ backlog = 0 /\ listenning = FALSE /\ nextConnId = 1
    /\ connections = {} /\ registered = {} /\ destroyed = {}
    /\ conn = [c \in Conns |-> [state |-> "none", loop |-> Base, fd |-> listenFd]]
    /\ open = {listenFd, idleFd}
    /\ pc = [l \in Loops |-> IF l = Base THEN "poll" ELSE "none"]
    /\ quit = [l \in Loops |-> FALSE]
    /\ queue = [l \in Loops |-> <<>>] /\ batch = [l \in Loops |-> <<>>]
    /\ held = [l \in Loops |-> {}]
    /\ failed = {}

Running == status = "running"
At(l, label) == Running /\ pc[l] = label
Go(l, label) == pc' = [pc EXCEPT ![l] = label]
Push(l, f, c) == queue' = [queue EXCEPT ![l] = Append(@, <<f, c>>)]
Handlers == {"poll", "handled"}
InHandlers(l) == Running /\ pc[l] \in Handlers
Unless(holds, name) == IF holds THEN {} ELSE {name}

-----------------------------------------------------------------------------
(* setThreadNum and start, on the base loop.                               *)
SetThreadNum(n) ==
    /\ At(Base, "poll") /\ server = "up" /\ ~started
    /\ numThreads' = n
    /\ UNCHANGED <<status, server, listenning, started, loops, joined, acceptVars,
                   connVars, destroyed, open, loopVars, failed>>

(* Acceptor::listen.                                                       *)
Listen == listenning' = TRUE /\ failed' = failed \union Unless(~listenning, "listenning")

(* start: nothing on a second call; the pool is started, then the acceptor *)
(* listens.                                                                *)
Start ==
    /\ At(Base, "poll") /\ server = "up"
    /\ ~started
    /\ started' = TRUE
    /\ IF numThreads = 0 THEN Listen /\ UNCHANGED pc
       ELSE Go(Base, "start") /\ UNCHANGED <<listenning, failed>>
    /\ UNCHANGED <<status, server, numThreads, loops, joined, acceptVars, connVars,
                   destroyed, open, quit, queue, batch, held>>

(* The first start from another thread: EventLoopThreadPool::start calls   *)
(* assertInLoopThread, which ends in LOG_FATAL.                            *)
StartElsewhere ==
    /\ Running /\ server = "up" /\ ~started
    /\ started' = TRUE
    /\ status' = "aborted"
    /\ UNCHANGED <<server, listenning, numThreads, loops, joined, acceptVars, connVars,
                   destroyed, open, loopVars, failed>>

(* One turn of the loop of EventLoopThreadPool::start: the next thread is  *)
(* created ...                                                             *)
StartThread(l) ==
    /\ At(Base, "start") /\ l = Len(loops) + 1 /\ pc[l] = "none"
    /\ Go(l, "callback")
    /\ UNCHANGED <<status, server, listenning, poolVars, acceptVars, connVars,
                   destroyed, open, quit, queue, batch, held, failed>>

(* ... publishes its loop (EventLoopThread::threadFunc) ...                *)
Publish(l) ==
    /\ At(l, "callback")
    /\ Go(l, "published")
    /\ UNCHANGED <<status, server, listenning, poolVars, acceptVars, connVars,
                   destroyed, open, quit, queue, batch, held, failed>>

(* Variant: startLoop waits for a notify and does not look at loop_.       *)
StartLoopMissesIt(l) ==
    /\ At(Base, "start") /\ l = Len(loops) + 1
    /\ pc[l] = "published"
    /\ loops' = Append(loops, l)
    /\ IF l = numThreads THEN Listen /\ Go(Base, "poll")
       ELSE UNCHANGED <<listenning, failed, pc>>
    /\ UNCHANGED <<status, server, numThreads, started, joined, acceptVars, connVars,
                   destroyed, open, quit, queue, batch, held>>

(* ... and startLoop returns it.                                           *)
StartLoopReturns(l) ==
    /\ At(Base, "start") /\ l = Len(loops) + 1
    /\ pc[l] \notin {"none", "callback"}
    /\ loops' = Append(loops, l)
    /\ IF l = numThreads THEN Listen /\ Go(Base, "poll")
       ELSE UNCHANGED <<listenning, failed, pc>>
    /\ UNCHANGED <<status, server, numThreads, started, joined, acceptVars, connVars,
                   destroyed, open, quit, queue, batch, held>>

(* EventLoop::loop is entered: it sets quit_ to false.                     *)
EnterLoop(l) ==
    /\ At(l, "published")
    /\ quit' = [quit EXCEPT ![l] = FALSE]
    /\ Go(l, "poll")
    /\ UNCHANGED <<status, server, listenning, poolVars, acceptVars, connVars,
                   destroyed, open, queue, batch, held, failed>>

-----------------------------------------------------------------------------
(* The end of a connection's life.                                         *)

(* Connections some shared_ptr refers to.                                  *)
Bound(functors) == {functors[i][2] : i \in 1..Len(functors)}
Referenced == connections \union UNION {Bound(queue[l]) \union held[l] : l \in Loops}

(* Variant: ~Socket leaves the descriptor open.                            *)
ReleaseNoClose ==
    /\ destroyed' = 1..(nextConnId - 1) \ Referenced'
    /\ UNCHANGED open

(* The last reference is gone: ~TcpConnection with its Socket and Channel. *)
Release ==
    LET dead == (1..(nextConnId - 1)) \ (Referenced' \union destroyed)
    IN  /\ destroyed' = destroyed \union dead
        /\ open' = (open \ {conn[c].fd : c \in dead})

-----------------------------------------------------------------------------
(* The acceptor.                                                           *)
ClientConnects ==
    /\ Running /\ listenning /\ server # "gone"
    /\ backlog + nextConnId <= MaxConns
    /\ backlog' = backlog + 1
    /\ UNCHANGED <<status, server, listenning, poolVars, next, nextConnId,
                   connVars, destroyed, open, loopVars, failed>>

(* EventLoopThreadPool::getNextLoop.                                       *)
NextLoop == IF loops = <<>> THEN Base ELSE loops[next + 1]

(* Variant: next_ is put back to 0 although loops are left.                *)
AfterNextEarly ==
    IF loops = <<>> THEN next ELSE IF next + 2 >= Len(loops) THEN 0 ELSE next + 1

AfterNext ==
    IF loops = <<>> THEN next ELSE IF next + 1 >= Len(loops) THEN 0 ELSE next + 1

(* setNonBlockAndCloseOnExec(-1), which sockets::accept calls before it    *)
(* looks at errno, fails itself and leaves EBADF.                          *)
ErrnoOf(error) == "EBADF"

(* The errors sockets::accept goes on after; on others LOG_FATAL aborts.   *)
Expected == {"EAGAIN", "ECONNABORTED", "EINTR", "EPROTO", "EPERM", "EMFILE"}

(* connectEstablished.                                                     *)
Established(c) ==
    /\ conn' = [conn EXCEPT ![c].state = "kConnected"]
    /\ registered' = registered \union {c}

(* newConnection for the descriptor fd.  The connection is established at  *)
(* once when it runs on the base loop.                                     *)
NewConnection(fd) ==
    LET c == nextConnId
        l == NextLoop
        new == [state |-> "kConnecting", loop |-> l, fd |-> fd]
    IN  /\ next' = AfterNext
        /\ nextConnId' = nextConnId + 1
        /\ connections' = connections \union {c}
        /\ IF l = Base
           THEN /\ conn' = [conn EXCEPT ![c] = [new EXCEPT !.state = "kConnected"]]
                /\ registered' = registered \union {c}
                /\ UNCHANGED queue
           ELSE /\ conn' = [conn EXCEPT ![c] = new]
                /\ Push(l, "connectEstablished", c)
                /\ UNCHANGED registered

(* Acceptor::handleRead when accept succeeds, with the lowest descriptor.  *)
HandleRead ==
    /\ InHandlers(Base) /\ listenning /\ server = "up" /\ backlog > 0
    /\ Fds \ open # {}
    /\ open' = open \union {Min(Fds \ open)}
    /\ NewConnection(Min(Fds \ open))
    /\ backlog' = backlog - 1
    /\ Go(Base, "handled")
    /\ UNCHANGED <<status, server, listenning, poolVars, destroyed, quit, batch,
                   held, failed>>

(* Variant: EMFILE is survived, but nothing takes the client away.         *)
HandleReadSpins(error) ==
    /\ InHandlers(Base) /\ listenning /\ server = "up" /\ backlog > 0
    /\ error = "EMFILE" <=> Fds \ open = {}
    /\ Go(Base, "handled")
    /\ UNCHANGED <<status, server, listenning, poolVars, acceptVars, connVars,
                   destroyed, open, quit, queue, batch, held, failed>>

(* accept fails: no descriptor is left, or the client has gone.  Were      *)
(* EMFILE to come through, idleFd_ would make room to turn a client away.  *)
HandleReadFails(error) ==
    /\ InHandlers(Base) /\ listenning /\ server = "up" /\ backlog > 0
    /\ error = "EMFILE" <=> Fds \ open = {}
    /\ IF ErrnoOf(error) \in Expected
       THEN /\ backlog' = IF ErrnoOf(error) = "EMFILE" THEN backlog - 1 ELSE backlog
            /\ Go(Base, "handled")
            /\ UNCHANGED status
       ELSE status' = "aborted" /\ UNCHANGED <<backlog, pc>>
    /\ UNCHANGED <<server, listenning, poolVars, next, nextConnId, connVars,
                   destroyed, open, quit, queue, batch, held, failed>>

-----------------------------------------------------------------------------
(* Closing.  handleClose runs on the connection's loop, erasing it from    *)
(* connections_ on the base loop, connectDestroyed on its own loop again.  *)

(* Variant: connectDestroyed is not queued.                                *)
RemoveOnly(c) ==
    /\ connections' = connections \ {c}
    /\ failed' = failed \union Unless(c \in connections, "erased")
    /\ UNCHANGED queue

(* removeConnectionInLoop.                                                 *)
RemoveConnectionInLoop(c) ==
    /\ connections' = connections \ {c}
    /\ failed' = failed \union Unless(c \in connections, "erased")
    /\ Push(conn[c].loop, "connectDestroyed", c)

(* A callback of the connection calls shutdown.                            *)
Shutdown(c) ==
    /\ InHandlers(conn[c].loop) /\ c \in registered
    /\ conn[c].state = "kConnected"
    /\ conn' = [conn EXCEPT ![c].state = "kDisconnecting"]
    /\ Go(conn[c].loop, "handled")
    /\ UNCHANGED <<status, server, listenning, poolVars, acceptVars, connections,
                   registered, destroyed, open, quit, queue, batch, held, failed>>

(* The peer has closed: TcpConnection::handleClose with the close callback *)
(* TcpServer::removeConnection.                                            *)
HandleClose(c) ==
    LET l == conn[c].loop IN
    /\ InHandlers(l) /\ c \in registered
    /\ conn[c].state \in {"kConnected", "kDisconnecting"}
    /\ conn' = [conn EXCEPT ![c].state = "kDisconnected"]
    /\ IF l = Base
       THEN RemoveConnectionInLoop(c)
       ELSE Push(Base, "removeConnectionInLoop", c) /\ UNCHANGED <<connections, failed>>
    /\ Go(l, "handled")
    /\ UNCHANGED <<status, server, listenning, poolVars, acceptVars, registered,
                   destroyed, open, quit, batch, held>>

(* connectDestroyed for the connections cs.  One that is kDisconnecting    *)
(* stays so, and its channel is removed with its events enabled, which the *)
(* asserts of Channel::remove, of the poller and of ~TcpConnection refuse. *)
ConnectDestroyed(cs) ==
    /\ conn' = [c \in Conns |-> IF c \in cs /\ conn[c].state = "kConnected"
                                THEN [conn[c] EXCEPT !.state = "kDisconnected"]
                                ELSE conn[c]]
    /\ registered' = registered \ cs
    /\ failed' = failed \union Unless(cs \subseteq registered, "channels_")
                  \union Unless(\A c \in cs : conn[c].state # "kDisconnecting", "isNoneEvent")

-----------------------------------------------------------------------------
(* The functors of a round.                                                *)

(* Variant: what a thread of the pool queues does not wake the base loop.  *)
TakeFunctorsUnwoken(l) ==
    /\ InHandlers(l)
    /\ pc[l] = "handled" \/ (l # Base /\ queue[l] # <<>>) \/ quit[l]
    /\ batch' = [batch EXCEPT ![l] = queue[l]]
    /\ held' = [held EXCEPT ![l] = Bound(queue[l])]
    /\ queue' = [queue EXCEPT ![l] = <<>>]
    /\ Go(l, "run")
    /\ UNCHANGED <<status, server, listenning, poolVars, acceptVars, connVars,
                   destroyed, open, quit, failed>>

TakeFunctors(l) ==
    /\ InHandlers(l)
    /\ pc[l] = "handled" \/ queue[l] # <<>> \/ quit[l]
    /\ batch' = [batch EXCEPT ![l] = queue[l]]
    /\ held' = [held EXCEPT ![l] = Bound(queue[l])]
    /\ queue' = [queue EXCEPT ![l] = <<>>]
    /\ Go(l, "run")
    /\ UNCHANGED <<status, server, listenning, poolVars, acceptVars, connVars,
                   destroyed, open, quit, failed>>

(* removeConnectionInLoop is bound to the server by a raw pointer.         *)
RunFunctor(l) ==
    /\ At(l, "run") /\ batch[l] # <<>>
    /\ LET f == Head(batch[l])[1]
           c == Head(batch[l])[2]
       IN  \/ /\ f = "connectEstablished"
              /\ Established(c)
              /\ failed' = failed \union Unless(conn[c].state = "kConnecting", "kConnecting")
              /\ UNCHANGED <<status, connections, queue>>
           \/ /\ f = "connectDestroyed"
              /\ ConnectDestroyed({c})
              /\ UNCHANGED <<status, connections, queue>>
           \/ /\ f = "removeConnectionInLoop" /\ server = "up"
              /\ RemoveConnectionInLoop(c)
              /\ UNCHANGED <<status, conn, registered>>
           \/ /\ f = "removeConnectionInLoop" /\ server = "gone"
              /\ status' = "undefined"
              /\ UNCHANGED <<connVars, queue, failed>>
    /\ batch' = [batch EXCEPT ![l] = Tail(@)]
    /\ UNCHANGED <<server, listenning, poolVars, acceptVars, destroyed, open, pc,
                   quit, held>>

(* The round is over: its references are dropped.  A loop that has to quit *)
(* leaves, and what was queued since its swap is destroyed with it.        *)
EndRound(l) ==
    /\ At(l, "run") /\ batch[l] = <<>>
    /\ held' = [held EXCEPT ![l] = {}]
    /\ queue' = IF quit[l] THEN [queue EXCEPT ![l] = <<>>] ELSE queue
    /\ Go(l, IF quit[l] THEN "exited" ELSE "poll")
    /\ UNCHANGED <<status, server, listenning, poolVars, acceptVars, connVars,
                   quit, batch, failed>>
    /\ Release

-----------------------------------------------------------------------------
(* connections_ is gone through in the order of its keys, the connections' *)
(* names as strings; which order that is does not matter here.             *)
Listed(cs) == CHOOSE s \in Bijection(1..Cardinality(cs), cs) : TRUE

(* The functors ~TcpServer queues to a loop of the pool.                   *)
DestroyOn(l) ==
    LET cs == Listed({c \in connections : conn[c].loop = l /\ l # Base})
    IN  [i \in DOMAIN cs |-> <<"connectDestroyed", cs[i]>>]

(* ~TcpServer on the base loop.  Its body destroys every connection on its *)
(* own loop ...                                                            *)
DtorBody ==
    /\ At(Base, "poll") /\ server = "up"
    /\ server' = "dtor"
    /\ connections' = {}
    /\ ConnectDestroyed({c \in connections : conn[c].loop = Base})
    /\ queue' = [l \in Loops |-> queue[l] \o DestroyOn(l)]
    /\ Go(Base, "dtor")
    /\ UNCHANGED <<status, listenning, poolVars, acceptVars, quit, batch, held>>
    /\ Release

(* ... then ~EventLoopThread quits and joins one thread after another ...  *)
QuitThread ==
    /\ At(Base, "dtor") /\ joined < Len(loops)
    /\ quit' = [quit EXCEPT ![loops[joined + 1]] = TRUE]
    /\ Go(Base, "join")
    /\ UNCHANGED <<status, server, listenning, poolVars, acceptVars,
                   connVars, destroyed, open, queue, batch, held, failed>>

JoinReturns ==
    /\ At(Base, "join") /\ pc[loops[joined + 1]] = "exited"
    /\ joined' = joined + 1
    /\ Go(Base, "dtor")
    /\ UNCHANGED <<status, server, listenning, numThreads, started, loops,
                   acceptVars, connVars, destroyed, open, quit, queue, batch, held, failed>>

(* ... and the acceptor is destroyed last.                                 *)
DtorEnds ==
    /\ At(Base, "dtor") /\ joined = Len(loops)
    /\ server' = "gone"
    /\ listenning' = FALSE
    /\ backlog' = 0
    /\ open' = open \ {listenFd, idleFd}
    /\ Go(Base, "handled")
    /\ UNCHANGED <<status, poolVars, next, nextConnId, connVars, destroyed, quit,
                   queue, batch, held, failed>>

-----------------------------------------------------------------------------
BaseStep == QuitThread \/ JoinReturns \/ DtorEnds
            \/ \E l \in Loops : StartThread(l) \/ StartLoopReturns(l)
ThreadStep(l) == Publish(l) \/ EnterLoop(l) \/ TakeFunctors(l) \/ RunFunctor(l)
                 \/ EndRound(l)

Next ==
    \/ \E n \in 0..MaxThreads : SetThreadNum(n)
    \/ Start \/ StartElsewhere \/ ClientConnects \/ HandleRead
    \/ \E e \in AcceptErrors \union {"EMFILE"} : HandleReadFails(e)
    \/ \E c \in Conns : Shutdown(c) \/ HandleClose(c)
    \/ DtorBody \/ BaseStep
    \/ \E l \in Loops : ThreadStep(l)

Spec == Init /\ [][Next]_vars

(* Every thread is scheduled, and poll reports a client that waits.        *)
FairSpec ==
    /\ Spec
    /\ WF_vars(BaseStep) /\ WF_vars(HandleRead \/ HandleReadFails("EMFILE"))
    /\ \A l \in Loops : WF_vars(ThreadStep(l))

-----------------------------------------------------------------------------
(* Descriptors are neither leaked nor closed twice: besides the acceptor's *)
(* two, exactly those of the connections that still exist are open, each   *)
(* with one owner, whichever loop dropped the last reference.              *)
Live == {c \in Conns : c < nextConnId /\ c \notin destroyed}
FdsOwned ==
    /\ TypeOK
    /\ open = {conn[c].fd : c \in Live}
              \union (IF server = "gone" THEN {} ELSE {listenFd, idleFd})
    /\ \A c, d \in Live : conn[c].fd = conn[d].fd => c = d

(* The asserts on a connection's way through the loops hold, and it is     *)
(* destroyed only out of its poller and closed, as long as its loop runs.  *)
(* One use is refused: ~TcpServer while a connection is shutting down, as  *)
(* connectDestroyed then removes a channel with its events enabled.  And a *)
(* loop that quits drops functors, and with them open connections.         *)
NoAssertFails ==
    /\ failed \subseteq {"isNoneEvent"}
    /\ "isNoneEvent" \in failed =>
          server # "up" /\ \E c \in Conns \ registered : conn[c].state = "kDisconnecting"
    /\ \A c \in destroyed : pc[conn[c].loop] # "exited" =>
          /\ c \notin registered
          /\ \/ conn[c].state = "kDisconnected"
             \/ conn[c].state = "kDisconnecting" /\ "isNoneEvent" \in failed

(* getNextLoop spreads the connections evenly: the loops of the pool have  *)
(* been given equally many, but for one, and the base loop none.           *)
Given(l) == Cardinality({c \in 1..(nextConnId - 1) : conn[c].loop = l})
Balanced ==
    loops # <<>> => /\ Given(Base) = 0
                    /\ \A l, m \in Range(loops) : Given(l) <= Given(m) + 1

(* start() on the base loop comes to the point where the server listens,   *)
(* whenever the threads of the pool publish their loops.  This says        *)
(* nothing of start() on another thread: TcpServer.h calls it thread safe, *)
(* but the first such call ends the process (StartElsewhere).              *)
StartListens == (started /\ Running /\ server = "up") ~> listenning

(* Every client is accepted, unless the server is destroyed or a failing   *)
(* accept takes the process with it.                                       *)
ClientServed == (backlog > 0) ~> (backlog = 0 \/ ~Running \/ server # "up")

(* A connection that is closed is released by the loops that pass it       *)
(* around; ~TcpServer may hold that up.                                    *)
ClosedIsReleased ==
    \A c \in Conns : (conn[c].state = "kDisconnected")
                        ~> (c \in destroyed \/ ~Running \/ server = "dtor")
=============================================================================
