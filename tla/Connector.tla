----------------------------- MODULE Connector -----------------------------
(***************************************************************************)
(* networker::net::Connector and the TcpClient that owns it: connect, back *)
(* off and try again, hand the socket to a TcpConnection, connect again    *)
(* when that is closed.  The connector lives on the loop thread, in rounds *)
(* of poll, handlers and functors; connect, disconnect and stop are called *)
(* there or from another thread, whose writes of the two connect_ flags    *)
(* are steps of their own.  The TcpConnection is the socket it holds from  *)
(* newConnection to connectDestroyed.  connect may be called again, and    *)
(* the client is destroyed on the loop thread.  An assert that fails is    *)
(* recorded, as NDEBUG has it in the default build.                        *)
(***************************************************************************)
EXTENDS Integers, Sequences, FiniteSets

CONSTANTS InitRetryDelay,  \* kInitRetryDelayMs
          MaxRetryDelay,   \* kMaxRetryDelayMs
          MaxSocket        \* bound: descriptors are 1..MaxSocket

ASSUME DelayAssumption ==
    InitRetryDelay \in Nat /\ MaxRetryDelay \in Nat /\ InitRetryDelay <= MaxRetryDelay
ASSUME SocketAssumption == MaxSocket \in Nat

NoSocket == 0
Sockets == 1..MaxSocket
States == {"kDisconnected", "kConnecting", "kConnected"}
Ops == {"connect", "reconnect", "disconnect", "stop"}
Connects == {"connect", "reconnect"}    \* connect() and its second call
Idle == <<"idle", 0>>
Functors == {"startInLoop", "stopInLoop", "resetChannel", "forceCloseInLoop",
             "connectDestroyed"}
                \X (Sockets \union {NoSocket})

VARIABLES
    state,       \* Connector::state_
    goOn,        \* Connector::connect_
    channel,     \* channel_: "none", "added" to the poller, or "removed" from it
    sock,        \* the descriptor of channel_
    delay,       \* retryDelayMs_
    retry,       \* TcpClient::retry_
    connect,     \* TcpClient::connect_
    connection,  \* the socket of TcpClient::connection_, or NoSocket
    open,        \* open descriptors
    phase,       \* of the loop: "poll", "handlers", "restart", "functors"
    ready,       \* what poll reported and has not been handled
    queue,       \* pendingFunctors_
    batch,       \* the functors taken by doPendingFunctors
    timers,      \* pending runAfter(startInLoop)
    pc,          \* the other thread: the call it is in and how far, or Idle
    called,      \* calls that have been begun, since the second connect() if any
    returned,    \* those that have returned
    client,      \* the TcpClient: "up", "dtor" (its connector is kept), "gone"
    rushed,      \* what the second connect() or ~TcpClient did not wait for
    server,      \* "down", and from some time on "up"
    gaveUp,      \* connect(2) failed in a way that is not tried again
    broken,      \* a channel or connector was used after its destruction
    failed       \* an assert failed

connVars == <<state, goOn, channel, sock, delay>>
clientVars == <<retry, connect, connection>>
loopVars == <<phase, ready, queue, batch, timers, open>>
callVars == <<pc, called, returned>>
endVars == <<client, rushed>>
vars == <<connVars, clientVars, loopVars, callVars, endVars, server, gaveUp, broken, failed>>

TypeOK ==
    /\ state \in States /\ goOn \in BOOLEAN
    /\ channel \in {"none", "added", "removed"}
    /\ sock \in Sockets \union {NoSocket}
    /\ delay \in InitRetryDelay..MaxRetryDelay
    /\ retry \in BOOLEAN /\ connect \in BOOLEAN
    /\ connection \in Sockets \union {NoSocket}
    /\ open \in SUBSET Sockets
    /\ phase \in {"poll", "handlers", "restart", "functors"}
    /\ ready \in SUBSET {"write", "error", "close", "timer"}
    /\ queue \in Seq(Functors) /\ batch \in Seq(Functors)
    /\ timers \in Nat
    /\ pc \in {Idle} \union (Ops \X (1..2))
    /\ called \in SUBSET Ops /\ returned \in SUBSET called
    /\ server \in {"down", "up"}
    /\ client \in {"up", "dtor", "gone"}
    /\ rushed \in {"nothing", "state", "pending", "stop"}
    /\ gaveUp \in BOOLEAN /\ broken \in BOOLEAN /\ failed \in BOOLEAN

Init ==
    /\ state = "kDisconnected" /\ goOn = FALSE
    /\ channel = "none" /\ sock = NoSocket /\ delay = InitRetryDelay
    /\ retry \in BOOLEAN /\ connect = TRUE /\ connection = NoSocket
    /\ open = {}
    /\ phase = "poll" /\ ready = {} /\ queue = <<>> /\ batch = <<>> /\ timers = 0
    /\ pc = Idle /\ called = {} /\ returned = {}
    /\ client = "up" /\ rushed = "nothing"
    /\ server = "down" /\ gaveUp = FALSE /\ broken = FALSE /\ failed = FALSE

Functor(name) == <<name, NoSocket>>
Push(functors) == queue' = queue \o functors

-----------------------------------------------------------------------------
(* The connector's own steps, parts of the handlers below.                 *)

(* Variant: the failed attempt is not repeated.                            *)
RetryNever(s, again, d) ==
    /\ state' = "kDisconnected"
    /\ open' = open \ {s}
    /\ timers' = timers
    /\ delay' = d

Retry(s, again, d) ==
    /\ state' = "kDisconnected"
    /\ open' = open \ {s}
    /\ timers' = IF again THEN timers + 1 ELSE timers
    /\ delay' = IF ~again THEN d ELSE IF 2 * d < MaxRetryDelay THEN 2 * d ELSE MaxRetryDelay

(* connecting: a channel that is still there is replaced and destroyed.    *)
Connecting(s, fails) ==
    /\ state' = "kConnecting"
    /\ channel' = "added" /\ sock' = s
    /\ open' = open \union {s}
    /\ failed' = (failed \/ fails \/ channel # "none")
    /\ broken' = (broken \/ channel = "added")

(* How connect(2) may end while the server is up or down: 0 or an errno of *)
(* the first group, of the second, or of the others.                       *)
ConnectResults == IF server = "up" THEN {"connecting"} ELSE {"connecting", "retry", "error"}

(* connect in state st; fails tells that startInLoop's assert does.        *)
Connect(st, d, fails) ==
    \E s \in Sockets \ open :
       /\ \A t \in Sockets \ open : s <= t
       /\ \/ /\ "connecting" \in ConnectResults
             /\ Connecting(s, fails)
             /\ delay' = d
             /\ UNCHANGED <<timers, gaveUp>>
          \/ /\ "retry" \in ConnectResults
             /\ Retry(s, TRUE, d)
             /\ failed' = (failed \/ fails)
             /\ UNCHANGED <<channel, sock, gaveUp, broken>>
          \/ /\ "error" \in ConnectResults
             /\ gaveUp' = TRUE
             /\ state' = st /\ delay' = d
             /\ failed' = (failed \/ fails)
             /\ UNCHANGED <<channel, sock, open, timers, broken>>

(* Variant: connect_ is not looked at.                                     *)
StartInLoopAnyway(st, again, d) == Connect(st, d, st # "kDisconnected")

(* startInLoop in state st, with connect_ = again and the delay d.         *)
StartInLoop(st, again, d) ==
    IF again THEN Connect(st, d, st # "kDisconnected")
    ELSE /\ state' = st /\ delay' = d
         /\ failed' = (failed \/ st # "kDisconnected")
         /\ UNCHANGED <<channel, sock, open, timers, gaveUp, broken>>

(* removeAndResetChannel: out of the poller at once, reset by a functor.   *)
RemoveChannel ==
    /\ channel' = "removed"
    /\ sock' = NoSocket

StopInLoop ==
    IF state = "kConnecting"
    THEN /\ RemoveChannel
         /\ Push(<<Functor("resetChannel")>>)
         /\ Retry(sock, goOn, delay)
         /\ UNCHANGED goOn
    ELSE UNCHANGED <<connVars, open, timers, queue>>

-----------------------------------------------------------------------------
(* The loop: poll, the handlers of what it reported, the functors.         *)

(* The connecting channel is writable or in error, the connection's peer   *)
(* has closed it, a retry timer has expired.  The retry delay (500 ms and  *)
(* more) outlasts the round in which resetChannel is due.                  *)
Pollable ==
    (IF channel = "added" THEN {"write"} ELSE {})
    \union (IF channel = "added" /\ server = "down" THEN {"error"} ELSE {})
    \union (IF connection # NoSocket THEN {"close"} ELSE {})
    \union (IF timers > 0 /\ \A i \in 1..Len(queue) : queue[i] # Functor("resetChannel")
            THEN {"timer"} ELSE {})

Poll(r) ==
    /\ phase = "poll"
    /\ r \subseteq Pollable
    /\ ready' = r
    /\ timers' = IF "timer" \in r THEN timers - 1 ELSE timers
    /\ phase' = "handlers"
    /\ UNCHANGED <<connVars, clientVars, queue, batch, open, callVars, endVars,
                   server, gaveUp, broken, failed>>

Handles(event) ==
    /\ phase = "handlers"
    /\ event \in ready
    /\ ready' = ready \ {event}

(* Variant: a connection that is no longer wanted keeps its socket.        *)
HandleWriteKeepsSocket ==
    /\ Handles("write") /\ "error" \notin ready
    /\ IF state = "kConnecting"
       THEN /\ RemoveChannel
            /\ Push(<<Functor("resetChannel")>>)
            /\ \/ server = "down" /\ Retry(sock, goOn, delay) /\ UNCHANGED connection
               \/ /\ state' = "kConnected"
                  /\ connection' = IF goOn THEN sock ELSE connection
                  /\ UNCHANGED <<open, timers, delay>>
       ELSE UNCHANGED <<state, channel, sock, delay, open, timers, queue, connection>>
    /\ UNCHANGED <<goOn, retry, connect, phase, batch, callVars, endVars, server,
                   gaveUp, broken, failed>>

(* handleWrite with TcpClient::newConnection; an error of the socket or a  *)
(* self-connect is tried again.  An error is handled before.               *)
HandleWrite ==
    /\ Handles("write") /\ "error" \notin ready
    /\ IF state = "kConnecting"
       THEN /\ RemoveChannel
            /\ Push(<<Functor("resetChannel")>>)
            /\ \/ server = "down" /\ Retry(sock, goOn, delay) /\ UNCHANGED connection
               \/ /\ state' = "kConnected"
                  /\ IF goOn THEN connection' = sock /\ UNCHANGED open
                     ELSE open' = open \ {sock} /\ UNCHANGED connection
                  /\ UNCHANGED <<timers, delay>>
            /\ UNCHANGED failed
       ELSE /\ failed' = (failed \/ state # "kDisconnected")
            /\ UNCHANGED <<state, channel, sock, delay, open, timers, queue, connection>>
    /\ UNCHANGED <<goOn, retry, connect, phase, batch, callVars, endVars, server,
                   gaveUp, broken>>

(* Variant: the state is still kConnecting when a write event follows.     *)
HandleErrorKeepsState ==
    /\ Handles("error")
    /\ RemoveChannel
    /\ Push(<<Functor("resetChannel")>>)
    /\ open' = open \ {sock}
    /\ timers' = IF goOn THEN timers + 1 ELSE timers
    /\ UNCHANGED <<state, goOn, delay, clientVars, phase, batch, callVars, endVars,
                   server, gaveUp, broken, failed>>

HandleError ==
    /\ Handles("error")
    /\ IF state = "kConnecting"
       THEN /\ RemoveChannel
            /\ Push(<<Functor("resetChannel")>>)
            /\ Retry(sock, goOn, delay)
       ELSE UNCHANGED <<state, channel, sock, delay, open, timers, queue>>
    /\ UNCHANGED <<goOn, clientVars, phase, batch, callVars, endVars, server, gaveUp,
                   broken, failed>>

(* The connection is closed: TcpClient::removeConnection up to the test of *)
(* retry_ and connect_, or what ~TcpClient has put in its place.           *)
Close ==
    /\ connection' = NoSocket
    /\ Push(<<<<"connectDestroyed", connection>>>>)

HandleClose ==
    /\ Handles("close")
    /\ IF connection # NoSocket THEN Close ELSE UNCHANGED <<connection, queue>>
    /\ phase' = IF connection # NoSocket /\ client = "up" /\ retry /\ connect
                THEN "restart" ELSE phase
    /\ UNCHANGED <<connVars, retry, connect, batch, timers, open, callVars, endVars,
                   server, gaveUp, broken, failed>>

(* Variant: restart leaves the state at kConnected.                        *)
RestartConnected ==
    /\ phase = "restart"
    /\ phase' = "handlers"
    /\ goOn' = TRUE
    /\ StartInLoop(state, TRUE, InitRetryDelay)
    /\ UNCHANGED <<clientVars, ready, queue, batch, callVars, endVars, server>>

(* Connector::restart.                                                     *)
Restart ==
    /\ phase = "restart"
    /\ phase' = "handlers"
    /\ goOn' = TRUE
    /\ StartInLoop("kDisconnected", TRUE, InitRetryDelay)
    /\ UNCHANGED <<clientVars, ready, queue, batch, callVars, endVars, server>>

(* A retry timer has expired.                                              *)
HandleTimer ==
    /\ Handles("timer")
    /\ StartInLoop(state, goOn, delay)
    /\ UNCHANGED <<goOn, clientVars, phase, queue, batch, callVars, endVars, server>>

TakeFunctors ==
    /\ phase = "handlers" /\ ready = {}
    /\ phase' = "functors"
    /\ batch' = queue /\ queue' = <<>>
    /\ UNCHANGED <<connVars, clientVars, ready, timers, open, callVars, endVars,
                   server, gaveUp, broken, failed>>

Runs(name) == phase = "functors" /\ batch # <<>> /\ Head(batch)[1] = name
              /\ batch' = Tail(batch)

(* start and stop bind their functors to the connector by a raw pointer.   *)
RunStart ==
    /\ Runs("startInLoop")
    /\ IF client = "gone"
       THEN broken' = TRUE /\ UNCHANGED <<connVars, timers, open, gaveUp, failed>>
       ELSE StartInLoop(state, goOn, delay)
    /\ UNCHANGED <<goOn, clientVars, phase, ready, queue, callVars, endVars, server>>

RunStop ==
    /\ Runs("stopInLoop")
    /\ StopInLoop
    /\ broken' = (broken \/ client = "gone")
    /\ UNCHANGED <<clientVars, phase, ready, callVars, endVars, server, gaveUp, failed>>

(* resetChannel, bound in the same way; ~Channel asserts that the channel  *)
(* has been removed.                                                       *)
RunReset ==
    /\ Runs("resetChannel")
    /\ channel' = "none"
    /\ failed' = (failed \/ channel = "added")
    /\ broken' = (broken \/ channel = "added" \/ client = "gone")
    /\ UNCHANGED <<state, goOn, sock, delay, clientVars, phase, ready, queue, timers, open,
                   callVars, endVars, server, gaveUp>>

(* forceCloseInLoop, queued by ~TcpClient.                                 *)
RunForceClose ==
    /\ Runs("forceCloseInLoop")
    /\ IF connection # NoSocket THEN Close ELSE UNCHANGED <<connection, queue>>
    /\ UNCHANGED <<connVars, retry, connect, phase, ready, timers, open, callVars,
                   endVars, server, gaveUp, broken, failed>>

(* The connection's last reference goes with the functor; its Socket       *)
(* closes the descriptor.                                                  *)
RunDestroyed ==
    /\ Runs("connectDestroyed")
    /\ open' = open \ {Head(batch)[2]}
    /\ UNCHANGED <<connVars, clientVars, phase, ready, queue, timers, callVars, endVars,
                   server, gaveUp, broken, failed>>

EndRound ==
    /\ phase = "functors" /\ batch = <<>>
    /\ phase' = "poll"
    /\ UNCHANGED <<connVars, clientVars, ready, queue, batch, timers, open, callVars,
                   endVars, server, gaveUp, broken, failed>>

-----------------------------------------------------------------------------
(* TcpClient::connect, disconnect and stop: connect is called first and    *)
(* once again, the others at most once after each, from either thread and  *)
(* not at the same time as connect.                                        *)
Returned(ops) == ops \intersect called \subseteq returned
MayCall(op) ==
    /\ client = "up" /\ op \notin called
    /\ op # "connect" => "connect" \in returned /\ Returned(Connects)
    /\ op = "reconnect" => pc = Idle

Calls(op) == IF op = "reconnect" THEN Connects ELSE called \union {op}
Returns(op) == IF op = "reconnect" THEN Connects ELSE returned \union {op}

(* Nothing of an earlier attempt is left: no timer, channel or functor, no *)
(* connection and none about to be made anew.                              *)
Waiting == {batch[i][1] : i \in 1..Len(batch)} \union {queue[i][1] : i \in 1..Len(queue)}
AtRest == /\ timers = 0 /\ ready = {} /\ phase # "restart"
          /\ channel = "none" /\ connection = NoSocket
          /\ Waiting \subseteq {"connectDestroyed"}

(* What the second connect() does not wait for.  A connection that ends    *)
(* leaves the connector's state at kConnected.                             *)
RushedBy(op) == IF op # "reconnect" THEN rushed
                ELSE IF ~AtRest THEN "pending"
                ELSE IF state # "kDisconnected" THEN "state" ELSE "nothing"

(* On the loop thread, from a handler or a functor: start() runs           *)
(* startInLoop at once, stop() queues it.                                  *)
CallOnLoop(op) ==
    /\ MayCall(op)
    /\ phase \in {"handlers", "functors"}
    /\ called' = Calls(op) /\ returned' = Returns(op)
    /\ connect' = (op \in Connects)
    /\ goOn' = CASE op \in Connects -> TRUE [] op = "stop" -> FALSE [] OTHER -> goOn
    /\ IF op \in Connects THEN StartInLoop(state, TRUE, delay)
       ELSE UNCHANGED <<state, channel, sock, delay, timers, open, gaveUp, broken, failed>>
    /\ Push(IF op = "stop" THEN <<Functor("stopInLoop")>> ELSE <<>>)
    /\ rushed' = RushedBy(op)
    /\ UNCHANGED <<retry, connection, phase, ready, batch, pc, client, server>>

(* From another thread: TcpClient::connect_ ...                            *)
CallBegins(op) ==
    /\ pc = Idle /\ MayCall(op)
    /\ called' = Calls(op)
    /\ connect' = (op \in Connects)
    /\ pc' = IF op = "disconnect" THEN Idle ELSE <<op, 1>>
    /\ returned' = (IF op = "disconnect" THEN Returns(op) ELSE returned) \intersect called'
    /\ rushed' = RushedBy(op)
    /\ UNCHANGED <<connVars, retry, connection, loopVars, client, server, gaveUp, broken,
                   failed>>

(* ... then Connector::connect_ ...                                        *)
CallSets ==
    /\ pc # Idle /\ pc[2] = 1
    /\ goOn' = (pc[1] \in Connects)
    /\ pc' = <<pc[1], 2>>
    /\ UNCHANGED <<state, channel, sock, delay, clientVars, loopVars, called, returned,
                   endVars, server, gaveUp, broken, failed>>

(* ... then the functor.                                                   *)
CallQueues ==
    /\ pc # Idle /\ pc[2] = 2
    /\ Push(<<Functor(IF pc[1] \in Connects THEN "startInLoop" ELSE "stopInLoop")>>)
    /\ pc' = Idle
    /\ returned' = returned \union {pc[1]}
    /\ UNCHANGED <<connVars, clientVars, phase, ready, batch, timers, open, called,
                   endVars, server, gaveUp, broken, failed>>

(* ~Connector asserts that there is no channel.                            *)
ConnectorGone ==
    /\ failed' = (failed \/ channel # "none")
    /\ broken' = (broken \/ channel = "added")

(* ~TcpClient on the loop thread, while no other thread is in a call.  A   *)
(* connection is force-closed when the client has the only reference, and  *)
(* the connector ends with the client; otherwise the connector is stopped  *)
(* and kept for a second.                                                  *)
Dtor(unique) ==
    /\ client = "up" /\ pc = Idle /\ "connect" \in returned
    /\ phase \in {"handlers", "functors"}
    /\ IF connection # NoSocket
       THEN /\ client' = "gone"
            /\ Push(IF unique THEN <<Functor("forceCloseInLoop")>> ELSE <<>>)
            /\ ConnectorGone
            /\ rushed' = IF channel # "none" \/ rushed = "pending" THEN "pending"
                         ELSE IF "stopInLoop" \in Waiting THEN "stop" ELSE rushed
            /\ UNCHANGED goOn
       ELSE /\ client' = "dtor"
            /\ goOn' = FALSE
            /\ Push(<<Functor("stopInLoop")>>)
            /\ UNCHANGED <<rushed, broken, failed>>
    /\ UNCHANGED <<state, channel, sock, delay, clientVars, phase, ready, batch, timers,
                   open, callVars, server, gaveUp>>

(* The timer that kept the connector has expired, and no retry timer holds *)
(* another reference: ~Connector.                                          *)
ConnectorDtor ==
    /\ client = "dtor" /\ phase = "poll" /\ queue = <<>> /\ timers = 0
    /\ client' = "gone"
    /\ ConnectorGone
    /\ UNCHANGED <<connVars, clientVars, loopVars, callVars, rushed, server, gaveUp>>

ServerComesUp ==
    /\ server = "down"
    /\ server' = "up"
    /\ UNCHANGED <<connVars, clientVars, loopVars, callVars, endVars, gaveUp, broken, failed>>

Handle == HandleWrite \/ HandleError \/ HandleClose \/ Restart \/ HandleTimer
LoopStep == ~broken /\ (Handle \/ TakeFunctors \/ RunStart \/ RunStop \/ RunReset
                        \/ RunForceClose \/ RunDestroyed \/ EndRound)
CallStep == ~broken /\ (CallSets \/ CallQueues)
Events == {"write", "error", "close", "timer"}
Polls(r) == ~broken /\ Poll(r)
CallNext == ~broken /\ (\E op \in Ops : CallOnLoop(op) \/ CallBegins(op))
EndNext == ~broken /\ (ConnectorDtor \/ \E unique \in BOOLEAN : Dtor(unique))

(* What follows the use of a destroyed channel is undefined.               *)
Undefined == broken /\ UNCHANGED vars

Next ==
    \/ \E r \in SUBSET Events : Polls(r)
    \/ LoopStep
    \/ CallStep
    \/ CallNext
    \/ EndNext
    \/ ServerComesUp
    \/ Undefined

Spec == Init /\ [][Next]_vars

(* The loop goes round; calls go on once begun; poll reports a connection  *)
(* attempt that has ended and a timer that has expired.                    *)
Fairness ==
    /\ WF_vars(LoopStep) /\ WF_vars(CallStep)
    /\ WF_vars(\E r \in SUBSET Events : Polls(r))
    /\ SF_vars(\E r \in SUBSET Events : "write" \in r /\ Polls(r))
    /\ SF_vars(\E r \in SUBSET Events : "timer" \in r /\ Polls(r))

FairSpec == Spec /\ Fairness

-----------------------------------------------------------------------------
(* The asserts of Connector, of TcpClient and of the channel's destructor: *)
(* startInLoop finds kDisconnected, connecting() finds no channel, a       *)
(* handler finds the state it expects, resetChannel never destroys a       *)
(* channel that is registered again, and no functor runs on a connector    *)
(* that is gone.  Four uses do fail: a second connect() while the first is *)
(* under way ("pending") or after a connection was lost ("state"), and a   *)
(* connected client destroyed in the round it connected in ("pending") or  *)
(* before the functor of its stop() has run ("stop").                      *)
NoAssertFails == rushed = "nothing" => ~failed /\ ~broken

(* Every open descriptor has exactly one owner: the channel that connects, *)
(* the client's connection, or a connection about to be destroyed; and     *)
(* nothing connects for a client that is gone.                             *)
InDestruction ==
    {f[2] : f \in {batch[i] : i \in 1..Len(batch)} \union {queue[i] : i \in 1..Len(queue)}}
        \ {NoSocket}

SocketsOwned ==
    /\ TypeOK
    /\ rushed # "pending" =>
          /\ open = ({sock, connection} \ {NoSocket}) \union InDestruction
          /\ sock # NoSocket => sock # connection /\ sock \notin InDestruction
          /\ connection \notin InDestruction
          /\ sock # NoSocket <=> channel = "added"
          /\ client = "gone" => channel = "none"

(* There is one attempt at a time: a connection, a connecting channel, a   *)
(* retry timer or a start about to run, never two of them.                 *)
StartsQueued == Cardinality({i \in 1..Len(queue) : queue[i] = Functor("startInLoop")})
                + Cardinality({i \in 1..Len(batch) : batch[i] = Functor("startInLoop")})

OneAttempt ==
    rushed # "pending" =>
       timers + StartsQueued
         + Cardinality({x \in {"timer"} : x \in ready})
         + Cardinality({x \in {sock, connection} : x # NoSocket})
         + Cardinality({x \in {"restart"} : x = phase}) <= 1

(* A client told to connect does so once the server is there, however many *)
(* attempts fail before, and one with enableRetry does so again when it    *)
(* loses its connection, unless it is told otherwise, is destroyed or      *)
(* connect(2) fails for good.                                              *)
ConnectSucceeds ==
    <>(server = "up") =>
       ("connect" \in returned /\ connection = NoSocket /\ (retry \/ state # "kConnected")
          ~> \/ connection # NoSocket \/ called \cap {"stop", "disconnect"} # {} \/ gaveUp
             \/ client # "up" \/ rushed = "pending")

(* stop() ends the attempts of a client without enableRetry, whatever the  *)
(* connector was doing, until the next connect(); ~TcpClient ends those of *)
(* every client: no channel, no timer, nothing left to try.                *)
Quiet == channel # "added" /\ timers = 0 /\ "timer" \notin ready
StopStops ==
    /\ ~retry => ("stop" \in returned ~> ([]Quiet \/ "stop" \notin called \/ rushed = "pending"))
    /\ client # "up" ~> ([]Quiet \/ rushed = "pending")
=============================================================================
