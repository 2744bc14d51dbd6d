------------------------ MODULE TcpConnectionProofs -------------------------
(***************************************************************************)
(* Proofs about TcpConnection for every number of user threads, any        *)
(* message length and any bounds.  Two arguments: the bytes on the wire    *)
(* and in outputBuffer_ make up what was sent, and a connection goes       *)
(* through its phases in one direction, each with its own references and   *)
(* functors, unless a call came late.                                      *)
(***************************************************************************)
EXTENDS TcpConnection, TLAPS, SequenceTheorems

(* The numbers of the bytes from w to a.                                   *)
Stream(w, a) == [i \in 1..(a - w) |-> w + i]

StreamInv ==
    /\ wired <= accepted
    /\ ~Broken => outBuf = Stream(wired, accepted)

(* Waiting output is watched, and there is none behind the FIN.            *)
OutputInv == ~late =>
    /\ state # "kDisconnected" => (writing <=> outBuf # <<>>)
    /\ fin /\ Open => outBuf = <<>>

(* Functors that belong to neither end of the connection's life.           *)
Between(q) == \A i \in 1..Len(q) : q[i] \notin {"connectEstablished", "connectDestroyed"}
Quiet == ~reading /\ ~writing

(* The phases.  closing: the removal is on its way to the main loop;       *)
(* leaving: connectDestroyed is the last functor of the I/O loop.          *)
Unborn == /\ state = "none" /\ Quiet /\ outBuf = <<>> /\ ~added /\ ~inMap
          /\ ioQueue = <<>> /\ mainQueue = <<>>
Starting == /\ state = "kConnecting" /\ Quiet /\ outBuf = <<>> /\ ~added /\ inMap
            /\ ioQueue = <<"connectEstablished">> /\ mainQueue = <<>>
InUse == Open /\ added /\ inMap /\ Between(ioQueue) /\ mainQueue = <<>>
Closing == /\ state = "kDisconnected" /\ Quiet /\ added /\ inMap
           /\ Between(ioQueue) /\ mainQueue = <<"removeConnectionInLoop">>
Leaving == /\ state = "kDisconnected" /\ Quiet /\ added /\ ~inMap /\ mainQueue = <<>>
           /\ Len(ioQueue) > 0 /\ ioQueue[Len(ioQueue)] = "connectDestroyed"
           /\ \A i \in 1..(Len(ioQueue) - 1) :
                 ioQueue[i] \notin {"connectEstablished", "connectDestroyed"}
Gone == /\ state = "kDisconnected" /\ Quiet /\ ~added /\ ~inMap
        /\ ioQueue = <<>> /\ mainQueue = <<>>

PhaseInv == ~late =>
    /\ failed = {}
    /\ Unborn \/ Starting \/ InUse \/ Closing \/ Leaving \/ Gone

IInv == TypeOK /\ StreamInv /\ OutputInv /\ PhaseInv

-----------------------------------------------------------------------------
(* The constructor establishes the invariant.                              *)
LEMMA InvInit == Init => IInv
<1> SUFFICES ASSUME Init PROVE IInv
  OBVIOUS
<1>1. TypeOK
  <2>1. /\ mainQueue \in Seq({"removeConnectionInLoop"})
        /\ ioQueue \in Seq(StrongFunctors \union RawFunctors)
        /\ outBuf \in Seq(Nat) /\ accepted \in Nat /\ wired \in Nat
    BY DEF Init
  <2>2. op \in [Users -> UserOps \union {"none"}]
    BY DEF Init
  <2>3. QED
    BY <2>1, <2>2 DEF Init, TypeOK, States
<1>2. StreamInv
  BY DEF Init, StreamInv, Stream
<1>3. OutputInv /\ PhaseInv
  BY DEF Init, OutputInv, PhaseInv, Unborn, Quiet
<1>4. QED
  BY <1>1, <1>2, <1>3 DEF IInv

(* A stretch of the stream continued is a stretch, and so is what is left  *)
(* of it when its head is taken.                                           *)
LEMMA StreamFacts ==
    ASSUME NEW w \in Nat, NEW a \in Nat, w <= a
    PROVE  /\ Stream(w, a) \in Seq(Nat) /\ Len(Stream(w, a)) = a - w
           /\ \A b \in Nat : a <= b => Stream(w, a) \o Stream(a, b) = Stream(w, b)
           /\ \A n \in 0..(a - w) :
                 SubSeq(Stream(w, a), n + 1, Len(Stream(w, a))) = Stream(w + n, a)
<1>1. \A x, y \in Nat : x <= y => Stream(x, y) \in Seq(Nat) /\ Len(Stream(x, y)) = y - x
  BY DEF Stream
<1>2. ASSUME NEW b \in Nat, a <= b PROVE Stream(w, a) \o Stream(a, b) = Stream(w, b)
  <2> DEFINE l == Stream(w, a) \o Stream(a, b)
             r == Stream(w, b)
  <2>0. /\ Stream(w, a) \in Seq(Nat) /\ Len(Stream(w, a)) = a - w
        /\ Stream(a, b) \in Seq(Nat) /\ Len(Stream(a, b)) = b - a
        /\ Stream(w, b) \in Seq(Nat) /\ Len(Stream(w, b)) = b - w
    <3>1. w <= b
      BY <1>2
    <3>2. QED
      BY <1>1, <1>2, <3>1
  <2>1. /\ l \in Seq(Nat) /\ r \in Seq(Nat)
        /\ Len(l) = b - w /\ Len(r) = b - w
    <3>1. l \in Seq(Nat) /\ Len(l) = Len(Stream(w, a)) + Len(Stream(a, b))
      BY <2>0, ConcatProperties
    <3>2. (a - w) + (b - a) = b - w
      OBVIOUS
    <3>3. QED
      BY <2>0, <3>1, <3>2
  <2>2. ASSUME NEW i \in 1..(b - w) PROVE l[i] = r[i]
    BY <1>1, <1>2, ConcatProperties DEF Stream
  <2> HIDE DEF l, r
  <2>3. l = r
    BY <2>1, <2>2, SeqEqual
  <2>4. QED
    BY <2>3 DEF l, r
<1>3. ASSUME NEW n \in 0..(a - w)
      PROVE  SubSeq(Stream(w, a), n + 1, Len(Stream(w, a))) = Stream(w + n, a)
  <2> DEFINE l == SubSeq(Stream(w, a), n + 1, a - w)
             r == Stream(w + n, a)
  <2>0. /\ Stream(w, a) \in Seq(Nat) /\ Len(Stream(w, a)) = a - w
        /\ Stream(w + n, a) \in Seq(Nat) /\ Len(Stream(w + n, a)) = a - (w + n)
    <3>1. w + n \in Nat /\ w + n <= a
      BY <1>3
    <3>2. QED
      BY <1>1, <3>1
  <2>1. /\ l \in Seq(Nat) /\ r \in Seq(Nat)
        /\ Len(l) = a - w - n /\ Len(r) = a - w - n
    <3>1. \A i \in (n + 1)..(a - w) : Stream(w, a)[i] \in Nat
      BY <2>0
    <3>2. QED
      BY <1>3, <2>0, <3>1, SubSeqProperties
  <2>2. ASSUME NEW i \in 1..(a - w - n) PROVE l[i] = r[i]
    <3>1. l[i] = Stream(w, a)[n + i]
      <4> DEFINE t == Stream(w, a)
      <4>1. t \in Seq(Nat) /\ Len(t) = a - w
        BY <2>0
      <4> HIDE DEF t
      <4>2. SubSeq(t, n + 1, a - w)[i] = t[n + i]
        BY <1>3, <2>2, <4>1
      <4> QED  BY <4>2 DEF t
    <3>2. QED
      BY <3>1 DEF Stream
  <2> HIDE DEF l, r
  <2>3. l = r
    BY <2>1, <2>2, SeqEqual
  <2>4. QED
    BY <1>1, <2>3 DEF l, r
<1>4. QED
  BY <1>1, <1>2, <1>3

Functors == StrongFunctors \union RawFunctors

(* Every call queues functors of the middle of a connection's life.        *)
LEMMA FunctorFacts ==
    ASSUME NEW o
    PROVE  /\ FunctorOf(o) \in Seq(Functors) /\ Len(FunctorOf(o)) \in {0, 1}
           /\ Between(FunctorOf(o))
<1>1. FunctorOf(o) = <<>> \/ \E f \in RawFunctors \union {"forceCloseInLoop"} : FunctorOf(o) = <<f>>
  BY DEF FunctorOf, RawFunctors
<1>2. \A f \in RawFunctors \union {"forceCloseInLoop"} :
         f \in Functors /\ f \notin {"connectEstablished", "connectDestroyed"}
  BY DEF Functors, StrongFunctors, RawFunctors
<1>3. CASE FunctorOf(o) = <<>>
  BY <1>3 DEF Between
<1>4. ASSUME NEW f \in RawFunctors \union {"forceCloseInLoop"}, FunctorOf(o) = <<f>>
      PROVE  /\ FunctorOf(o) \in Seq(Functors) /\ Len(FunctorOf(o)) \in {0, 1}
             /\ Between(FunctorOf(o))
  <2>1. f \in Functors /\ f \notin {"connectEstablished", "connectDestroyed"}
    BY <1>2
  <2>2. <<f>> \in Seq(Functors) /\ Len(<<f>>) = 1 /\ <<f>>[1] = f
    BY <2>1
  <2>3. QED
    BY <1>4, <2>1, <2>2 DEF Between
<1>5. QED
  BY <1>1, <1>3, <1>4

(* What sendInLoop may do to the queue it is given.                        *)
LEMMA SendFacts ==
    ASSUME TypeOK, NEW q \in Seq(Functors), SendInLoop(q)
    PROVE  /\ ioQueue' \in {q, Append(q, "callback")} /\ ioQueue' \in Seq(Functors)
           /\ UNCHANGED <<state, reading, added, fin>>
           /\ state = "kDisconnected" => UNCHANGED connVars /\ ioQueue' = q
<1>1. "callback" \in Functors
  BY DEF Functors, StrongFunctors
<1>2. ioQueue' \in {q, Append(q, "callback")}
  BY DEF SendInLoop
<1>3. QED
  BY <1>1, <1>2 DEF SendInLoop, connVars

(* Every step sends, writes or leaves the stream alone; a broken socket    *)
(* stays so.                                                               *)
LEMMA StreamEffect ==
    ASSUME [Next]_vars
    PROVE  \/ (\E q : SendInLoop(q)) /\ UNCHANGED reset
           \/ HandleWrite
           \/ UNCHANGED <<outBuf, accepted, wired>> /\ (Broken => Broken')
<1> USE DEF connVars, peerVars, userVars, Broken
<1>1. CASE RunFunctor
  <2>1. UNCHANGED reset
    BY <1>1 DEF RunFunctor
  <2>2. CASE SendInLoop(Tail(ioQueue))
    BY <2>1, <2>2
  <2>3. CASE ~SendInLoop(Tail(ioQueue))
    <3>1. UNCHANGED <<outBuf, accepted, wired>> /\ (fin => fin')
      <4>1. CASE ConnectEstablished \/ ConnectDestroyed \/ ForceCloseInLoop \/ StartReadInLoop
        <5>1. UNCHANGED <<outBuf, accepted, wired, fin>>
          BY <4>1 DEF ConnectEstablished, ConnectDestroyed, ForceCloseInLoop, HandleClose,
             StartReadInLoop
        <5>2. QED
          BY <5>1
      <4>2. CASE ShutdownInLoop(writing) /\ UNCHANGED <<outBuf, accepted, wired>>
        BY <4>2 DEF ShutdownInLoop
      <4>3. QED
        BY <1>1, <2>3, <4>1, <4>2 DEF RunFunctor
    <3>2. QED
      BY <2>1, <3>1
  <2>4. QED
    BY <2>2, <2>3
<1>2. CASE CallOnLoop
  BY <1>2 DEF CallOnLoop, SendOnLoop, ShutdownOnLoop, ShutdownInLoop, ForceCloseOnLoop,
     ForceClose, ForceCloseWithDelayOnLoop, StartReadOnLoop, StartReadInLoop
<1>3. CASE CallOffLoop
  BY <1>3 DEF CallOffLoop, UserTakes, UserReleases, UserActs, UserTests
<1>4. CASE HandleRead \/ DelayExpires \/ NewConnection \/ RemoveConnectionInLoop
           \/ PeerCloses \/ PeerResets \/ Done \/ UNCHANGED vars
  BY <1>4 DEF HandleRead, HandleClose, DelayExpires, ForceClose, NewConnection,
     RemoveConnectionInLoop, PeerCloses, PeerResets, Done, vars
<1>5. QED
  BY <1>1, <1>2, <1>3, <1>4 DEF Next

(* The bytes.  SendRest is what a send leaves for outputBuffer_.           *)
LEMMA StreamStep == IInv /\ [Next]_vars => StreamInv' /\ outBuf' \in Seq(Nat)
                                            /\ accepted' \in Nat /\ wired' \in Nat
<1> SUFFICES ASSUME IInv, [Next]_vars
             PROVE  StreamInv' /\ outBuf' \in Seq(Nat) /\ accepted' \in Nat /\ wired' \in Nat
  OBVIOUS
<1>0. /\ StreamInv
      /\ outBuf \in Seq(Nat) /\ accepted \in Nat /\ wired \in Nat
      /\ MsgLen \in Nat
  BY ConfigAssumption DEF IInv, TypeOK
<1>1. ASSUME NEW q, SendInLoop(q), UNCHANGED reset
      PROVE  StreamInv' /\ outBuf' \in Seq(Nat) /\ accepted' \in Nat /\ wired' \in Nat
  <2>1. CASE state = "kDisconnected"
    BY <1>0, <1>1, <2>1 DEF SendInLoop, connVars, StreamInv, Broken
  <2>2. CASE state # "kDisconnected"
    <3> DEFINE direct == ~writing /\ outBuf = <<>>
               fault == direct /\ Broken
    <3>1. /\ accepted' = accepted + MsgLen /\ Broken' = Broken
          /\ \E n \in IF direct THEN Writable(MsgLen) ELSE {0} :
                /\ wired' = wired + n
                /\ outBuf' = IF fault THEN outBuf
                             ELSE outBuf \o [i \in 1..(MsgLen - n) |-> accepted + n + i]
      BY <1>1, <2>2 DEF SendInLoop, Broken
    <3>2. PICK n \in IF direct THEN Writable(MsgLen) ELSE {0} :
                /\ wired' = wired + n
                /\ outBuf' = IF fault THEN outBuf
                             ELSE outBuf \o [i \in 1..(MsgLen - n) |-> accepted + n + i]
      BY <3>1
    <3>3. /\ n \in 0..MsgLen /\ (Broken => n = 0)
          /\ n # 0 => outBuf = <<>>
      BY <1>0, <3>2 DEF Writable
    <3>4. [i \in 1..(MsgLen - n) |-> accepted + n + i] = Stream(accepted + n, accepted')
      <4>1. accepted' - (accepted + n) = MsgLen - n
        BY <1>0, <3>1, <3>3
      <4>2. QED
        BY <4>1 DEF Stream
    <3>5. /\ accepted + n \in Nat /\ accepted' \in Nat /\ accepted + n <= accepted'
          /\ wired' \in Nat /\ wired' <= accepted'
      BY <1>0, <3>1, <3>2, <3>3 DEF StreamInv
    <3>6. outBuf' \in Seq(Nat)
      <4>1. Stream(accepted + n, accepted') \in Seq(Nat)
        BY <3>5, StreamFacts
      <4>2. QED
        BY <1>0, <3>2, <3>4, <4>1
    <3>7. ASSUME ~Broken' PROVE outBuf' = Stream(wired', accepted')
      <4>1. ~Broken /\ outBuf = Stream(wired, accepted) /\ wired <= accepted
        BY <1>0, <3>1, <3>7 DEF StreamInv
      <4>2. outBuf' = Stream(wired, accepted) \o Stream(accepted + n, accepted')
        BY <3>2, <3>4, <4>1
      <4>3. CASE n = 0
        <5>1. wired' = wired /\ accepted + n = accepted /\ accepted <= accepted'
          BY <1>0, <3>2, <3>5, <4>3
        <5>2. Stream(wired, accepted) \o Stream(accepted, accepted') = Stream(wired, accepted')
          BY <1>0, <3>5, <4>1, <5>1, StreamFacts
        <5>3. QED
          BY <4>2, <5>1, <5>2
      <4>4. CASE n # 0
        <5>1. wired = accepted
          <6>1. Len(Stream(wired, accepted)) = accepted - wired
            BY <1>0, <4>1, StreamFacts
          <6>2. QED
            BY <1>0, <3>3, <4>1, <4>4, <6>1
        <5>2. outBuf' = Stream(accepted + n, accepted')
          <6>1. Stream(accepted + n, accepted') \in Seq(Nat)
            BY <3>5, StreamFacts
          <6>2. outBuf' = <<>> \o Stream(accepted + n, accepted')
            BY <3>3, <4>1, <4>2, <4>4
          <6>3. QED
            BY <6>1, <6>2, ConcatEmptySeq
        <5>3. QED
          BY <3>2, <5>1, <5>2
      <4>5. QED
        BY <4>3, <4>4
    <3>8. QED
      BY <3>5, <3>6, <3>7 DEF StreamInv
  <2>3. QED
    BY <2>1, <2>2
<1>2. CASE HandleWrite
  <2>1. PICK n \in Writable(Len(outBuf)) \ {0} :
           wired' = wired + n /\ outBuf' = SubSeq(outBuf, n + 1, Len(outBuf))
    BY <1>2 DEF HandleWrite
  <2>2. ~Broken /\ n \in 0..Len(outBuf) /\ accepted' = accepted
    BY <1>2, <2>1 DEF HandleWrite, Writable
  <2>3. /\ outBuf = Stream(wired, accepted) /\ wired <= accepted
        /\ Len(outBuf) = accepted - wired
    BY <1>0, <2>2, StreamFacts DEF StreamInv
  <2>4. outBuf' = Stream(wired', accepted')
    <3>1. n \in 0..(accepted - wired)
      BY <2>2, <2>3
    <3>2. SubSeq(Stream(wired, accepted), n + 1, Len(Stream(wired, accepted)))
             = Stream(wired + n, accepted)
      BY <1>0, <2>3, <3>1, StreamFacts
    <3> QED  BY <2>1, <2>2, <2>3, <3>2
  <2>5. wired' \in Nat /\ wired' <= accepted'
    BY <1>0, <2>1, <2>2, <2>3
  <2>6. outBuf' \in Seq(Nat)
    BY <1>0, <2>2, <2>4, <2>5, StreamFacts
  <2>7. QED
    BY <1>0, <2>2, <2>4, <2>5, <2>6 DEF StreamInv
<1>3. CASE UNCHANGED <<outBuf, accepted, wired>> /\ (Broken => Broken')
  BY <1>0, <1>3 DEF StreamInv
<1>4. QED
  BY <1>1, <1>2, <1>3, StreamEffect

-----------------------------------------------------------------------------
(* Output.  Every step that a late call does not spoil keeps the writable  *)
(* event and outputBuffer_ in step, and sends the FIN behind the output.   *)
LEMMA SendOutput ==
    ASSUME IInv, NEW q, SendInLoop(q), ~late
    PROVE  /\ state # "kDisconnected" => (writing' <=> outBuf' # <<>>)
           /\ fin' /\ Open' => outBuf' = <<>>
<1>0. /\ OutputInv /\ outBuf \in Seq(Nat) /\ writing \in BOOLEAN
      /\ accepted \in Nat /\ MsgLen \in Nat
  BY ConfigAssumption DEF IInv, TypeOK
<1>1. CASE state = "kDisconnected"
  BY <1>1 DEF SendInLoop, connVars, Open
<1>2. CASE state # "kDisconnected"
  <2> DEFINE direct == ~writing /\ outBuf = <<>>
             fault == direct /\ Broken
  <2>1. writing <=> outBuf # <<>>
    BY <1>0, <1>2 DEF OutputInv
  <2>2. PICK n \in IF direct THEN Writable(MsgLen) ELSE {0} :
           LET rest == [i \in 1..(MsgLen - n) |-> accepted + n + i]
           IN  /\ outBuf' = IF fault THEN outBuf ELSE outBuf \o rest
               /\ writing' = (writing \/ (rest # <<>> /\ ~fault))
    BY <1>2 DEF SendInLoop
  <2> DEFINE rest == [i \in 1..(MsgLen - n) |-> accepted + n + i]
  <2>3. n \in 0..MsgLen
    BY <1>0, <2>2 DEF Writable
  <2>4. rest \in Seq(Nat)
    BY <1>0, <2>3
  <2>5. /\ outBuf' = IF fault THEN outBuf ELSE outBuf \o rest
        /\ writing' = (writing \/ (rest # <<>> /\ ~fault))
        /\ UNCHANGED <<state, fin>>
    BY <1>2, <2>2 DEF SendInLoop
  <2> HIDE DEF rest
  <2>6. outBuf \o rest = <<>> <=> outBuf = <<>> /\ rest = <<>>
    <3>1. /\ Len(outBuf) \in Nat /\ Len(rest) \in Nat
          /\ outBuf \o rest \in Seq(Nat)
          /\ Len(outBuf \o rest) = Len(outBuf) + Len(rest)
      BY <1>0, <2>4, ConcatProperties
    <3>2. QED
      BY <1>0, <2>4, <3>1, EmptySeq
  <2>7. writing' <=> outBuf' # <<>>
    BY <2>1, <2>5, <2>6
  <2>8. ASSUME fin, Open PROVE outBuf' = <<>>
    <3>1. outBuf = <<>> /\ Broken
      BY <1>0, <2>8 DEF OutputInv, Broken
    <3>2. fault
      BY <2>1, <3>1
    <3>3. QED
      BY <2>5, <3>1, <3>2
  <2>9. QED
    BY <2>5, <2>7, <2>8 DEF Open
<1>3. QED
  BY <1>1, <1>2

(* shutdownInLoop of a connection that has not been closed.                *)
LEMMA ShutdownOutput ==
    ASSUME IInv, ShutdownInLoop(writing), ~late, UNCHANGED <<writing, outBuf>>,
           state' = "kDisconnected" => state = "kDisconnected",
           state = "kDisconnected" => state' = "kDisconnected",
           Open' => Open
    PROVE  OutputInv'
<1>1. OutputInv
  BY DEF IInv
<1>2. fin' = (fin \/ ~writing)
  BY DEF ShutdownInLoop
<1>3. Open => state # "kDisconnected"
  BY DEF Open
<1>4. QED
  BY <1>1, <1>2, <1>3 DEF OutputInv

(* Every step watches for writing while output waits.                      *)
LEMMA OutputStep == IInv /\ [Next]_vars => OutputInv'
<1> SUFFICES ASSUME IInv, [Next]_vars, ~late' PROVE OutputInv'
  BY DEF OutputInv
<1>0. OutputInv /\ PhaseInv
  BY DEF IInv
<1> USE DEF connVars, peerVars, userVars
<1>1. ASSUME late' = late, UNCHANGED <<state, writing, outBuf, fin>> PROVE OutputInv'
  BY <1>0, <1>1 DEF OutputInv, Open
<1>2. ASSUME state' = "kDisconnected" PROVE OutputInv'
  BY <1>2 DEF OutputInv, Open
<1>3. ASSUME ~late, state # "kDisconnected", state' # "kDisconnected", Open' => Open,
             UNCHANGED <<writing, outBuf, fin>>
      PROVE  OutputInv'
  BY <1>0, <1>3 DEF OutputInv
<1>4. ASSUME NEW q, SendInLoop(q), late' = late PROVE OutputInv'
  <2>1. state' = state /\ ~late
    BY <1>4 DEF SendInLoop
  <2>2. QED
    BY <1>4, <2>1, SendOutput DEF OutputInv
<1>5. CASE RunFunctor
  <2>1. CASE PopFunctor("connectEstablished") /\ ConnectEstablished /\ UNCHANGED late
    <3>1. ~late
      BY <2>1
    <3>2. Starting \/ ~PopFunctor("connectEstablished")
      BY <1>0, <3>1 DEF PhaseInv, Unborn, Starting, InUse, Closing, Leaving, Gone, Between,
         PopFunctor, IInv, TypeOK
    <3>3. QED
      BY <2>1, <3>2 DEF Starting, Quiet, ConnectEstablished, OutputInv
  <2>2. CASE PopFunctor("connectDestroyed") /\ ConnectDestroyed /\ UNCHANGED late
    <3>1. CASE state = "kConnected"
      BY <1>2, <2>2, <3>1 DEF ConnectDestroyed
    <3>2. CASE state # "kConnected"
      <4>1. UNCHANGED <<state, outBuf, fin>> /\ writing' = (writing /\ TRUE)
        BY <2>2, <3>2 DEF ConnectDestroyed
      <4>2. writing' = writing
        BY <4>1 DEF IInv, TypeOK
      <4>3. QED
        BY <1>1, <2>2, <4>1, <4>2
    <3>3. QED
      BY <3>1, <3>2
  <2>3. CASE ForceCloseInLoop /\ UNCHANGED late
    BY <1>1, <1>2, <2>3 DEF ForceCloseInLoop, HandleClose
  <2>4. CASE SendInLoop(Tail(ioQueue)) /\ UNCHANGED late
    BY <1>4, <2>4
  <2>5. CASE ShutdownInLoop(writing) /\ UNCHANGED <<late, state, writing, outBuf>>
    BY <2>5, ShutdownOutput DEF Open
  <2>6. CASE StartReadInLoop
    <3>1. Open /\ ~late
      BY <2>6 DEF StartReadInLoop
    <3>2. QED
      BY <1>3, <2>6, <3>1 DEF StartReadInLoop, Open
  <2>7. CASE UNCHANGED <<state, writing, outBuf, fin, late>>
    BY <1>1, <2>7
  <2>8. QED
    BY <1>5, <2>1, <2>2, <2>3, <2>4, <2>5, <2>6, <2>7 DEF RunFunctor
<1>6. CASE HandleRead
  BY <1>2, <1>6 DEF HandleRead, HandleClose
<1>7. CASE HandleWrite
  <2>1. /\ writing' = (outBuf' # <<>>) /\ UNCHANGED <<state, late>>
        /\ fin' = fin \/ (outBuf' = <<>> /\ fin' = (fin \/ TRUE))
        /\ \E n \in Writable(Len(outBuf)) \ {0} : TRUE
    BY <1>7 DEF HandleWrite, ShutdownInLoop
  <2>2. ~fin
    BY <2>1 DEF Writable, Broken
  <2>3. QED
    BY <2>1, <2>2 DEF OutputInv
<1>8. CASE DelayExpires
  <2>1. CASE ForceClose
    BY <1>3, <1>8, <2>1 DEF DelayExpires, ForceClose, Open
  <2>2. CASE ~ForceClose
    BY <1>1, <1>8, <2>2 DEF DelayExpires
  <2>3. QED
    BY <2>1, <2>2
<1>9. CASE CallOnLoop
  <2>1. CASE SendOnLoop
    BY <1>4, <2>1 DEF SendOnLoop
  <2>2. CASE ShutdownOnLoop
    <3>1. ShutdownInLoop(writing) /\ state = "kConnected" /\ state' = "kDisconnecting"
          /\ UNCHANGED <<writing, outBuf, late>>
      BY <2>2 DEF ShutdownOnLoop
    <3>2. QED
      BY <3>1, ShutdownOutput DEF Open
  <2>3. CASE ForceCloseOnLoop
    BY <1>3, <2>3 DEF ForceCloseOnLoop, ForceClose, Open
  <2>4. CASE ForceCloseWithDelayOnLoop
    BY <1>3, <2>4 DEF ForceCloseWithDelayOnLoop, Open
  <2>5. CASE StartReadOnLoop
    <3>1. StartReadInLoop /\ Open /\ ~late
      BY <2>5 DEF StartReadOnLoop, StartReadInLoop
    <3>2. QED
      BY <1>3, <3>1 DEF StartReadInLoop, Open
  <2>6. QED
    BY <1>9, <2>1, <2>2, <2>3, <2>4, <2>5 DEF CallOnLoop
<1>10. CASE CallOffLoop
  <2>1. ASSUME NEW u \in Users, UserActs(u) PROVE OutputInv'
    <3>1. Open /\ ~late
      BY <2>1 DEF UserActs
    <3>2. QED
      BY <1>3, <2>1, <3>1 DEF UserActs, Open
  <2>2. ASSUME NEW u \in Users,
               UserTakes(u) \/ UserReleases(u) \/ \E o \in UserOps : UserTests(u, o)
        PROVE  OutputInv'
    BY <1>1, <2>2 DEF UserTakes, UserReleases, UserTests
  <2>3. QED
    BY <1>10, <2>1, <2>2 DEF CallOffLoop
<1>11. CASE NewConnection
  <2>1. state # "kDisconnected" /\ state' # "kDisconnected" /\ ~Open' /\ ~late
        /\ UNCHANGED <<writing, outBuf, fin>>
    BY <1>11 DEF NewConnection, Open
  <2>2. QED
    BY <1>3, <2>1
<1>12. CASE RemoveConnectionInLoop \/ PeerCloses \/ PeerResets \/ Done \/ UNCHANGED vars
  BY <1>1, <1>12 DEF RemoveConnectionInLoop, PeerCloses, PeerResets, Done, vars
<1>13. QED
  BY <1>5, <1>6, <1>7, <1>8, <1>9, <1>10, <1>11, <1>12 DEF Next

-----------------------------------------------------------------------------
(* Phases.  The functors in a queue stay in the middle of the life when a  *)
(* call adds its own or the loop takes the oldest.                         *)
LEMMA BetweenFacts ==
    ASSUME NEW q \in Seq(Functors), Between(q)
    PROVE  /\ \A f \in Functors : f \notin {"connectEstablished", "connectDestroyed"}
                 => Between(Append(q, f)) /\ Append(q, f) \in Seq(Functors)
           /\ \A o : Between(q \o FunctorOf(o)) /\ q \o FunctorOf(o) \in Seq(Functors)
           /\ q # <<>> => /\ Between(Tail(q)) /\ Tail(q) \in Seq(Functors)
                          /\ Head(q) \notin {"connectEstablished", "connectDestroyed"}
<1>1. ASSUME NEW f \in Functors, f \notin {"connectEstablished", "connectDestroyed"}
      PROVE  Between(Append(q, f)) /\ Append(q, f) \in Seq(Functors)
  BY <1>1 DEF Between
<1>2. ASSUME NEW o PROVE Between(q \o FunctorOf(o)) /\ q \o FunctorOf(o) \in Seq(Functors)
  <2> DEFINE t == FunctorOf(o)
  <2>1. t \in Seq(Functors) /\ Between(t)
    BY FunctorFacts
  <2> HIDE DEF t
  <2>2. /\ q \o t \in Seq(Functors) /\ Len(q \o t) = Len(q) + Len(t)
        /\ \A i \in 1..Len(q \o t) :
              (q \o t)[i] = IF i <= Len(q) THEN q[i] ELSE t[i - Len(q)]
    BY <2>1, ConcatProperties
  <2>3. Between(q \o t)
    <3> SUFFICES ASSUME NEW i \in 1..Len(q \o t)
                 PROVE  (q \o t)[i] \notin {"connectEstablished", "connectDestroyed"}
      BY DEF Between
    <3>1. CASE i <= Len(q)
      BY <2>1, <2>2, <3>1 DEF Between
    <3>2. CASE ~(i <= Len(q))
      <4>1. i - Len(q) \in 1..Len(t)
        BY <2>1, <2>2, <3>2
      <4>2. QED
        BY <2>1, <2>2, <3>2, <4>1 DEF Between
    <3>3. QED
      BY <3>1, <3>2
  <2>4. QED
    BY <2>2, <2>3 DEF t
<1>3. ASSUME q # <<>>
      PROVE  /\ Between(Tail(q)) /\ Tail(q) \in Seq(Functors)
             /\ Head(q) \notin {"connectEstablished", "connectDestroyed"}
  BY <1>3 DEF Between
<1>4. QED
  BY <1>1, <1>2, <1>3

(* A step that neither opens nor closes leaves the phase as it is.         *)
LEMMA PhaseKept ==
    ASSUME PhaseInv, ~late, UNCHANGED <<inMap, mainQueue, added, failed>>,
           Open <=> Open',
           ~Open => UNCHANGED <<state, reading, writing, outBuf>>,
           UNCHANGED ioQueue \/ (Open /\ Between(ioQueue'))
    PROVE  PhaseInv'
<1>1. failed' = {} /\ (Unborn \/ Starting \/ InUse \/ Closing \/ Leaving \/ Gone)
  BY DEF PhaseInv
<1>2. CASE InUse
  BY <1>1, <1>2 DEF InUse, PhaseInv
<1>3. CASE ~Open
  BY <1>1, <1>3 DEF PhaseInv, Unborn, Starting, InUse, Closing, Leaving, Gone, Quiet
<1>4. Open \/ ~Open
  OBVIOUS
<1>5. Open => InUse
  BY <1>1 DEF Unborn, Starting, InUse, Closing, Leaving, Gone, Open
<1>6. QED
  BY <1>2, <1>3, <1>5

(* Taking a functor of the middle from the queue leaves it too.            *)
LEMMA PhasePopped ==
    ASSUME PhaseInv, ~late, UNCHANGED <<inMap, mainQueue, added, failed>>,
           Open <=> Open',
           ~Open => UNCHANGED <<state, reading, writing, outBuf>>,
           ioQueue \in Seq(Functors), ioQueue # <<>>, ioQueue' = Tail(ioQueue),
           Head(ioQueue) \notin {"connectEstablished", "connectDestroyed"}
    PROVE  PhaseInv'
<1>1. failed' = {} /\ (InUse \/ Closing \/ Leaving)
  <2>1. ~Unborn /\ ~Gone
    BY DEF Unborn, Gone
  <2>2. ~Starting
    BY DEF Starting
  <2>3. QED
    BY <2>1, <2>2 DEF PhaseInv
<1>2. CASE InUse
  BY <1>1, <1>2, BetweenFacts DEF InUse, PhaseInv
<1>3. CASE Closing
  <2>1. ~Open /\ Between(ioQueue')
    BY <1>3, BetweenFacts DEF Closing, Open
  <2>2. Closing'
    BY <1>3, <2>1 DEF Closing, Quiet
  <2>3. QED
    BY <1>1, <2>2 DEF PhaseInv
<1>4. CASE Leaving
  <2> DEFINE n == Len(ioQueue)
  <2>1. /\ ~Open /\ n > 0 /\ ioQueue[n] = "connectDestroyed" /\ n \in Nat
        /\ \A i \in 1..(n - 1) : ioQueue[i] \notin {"connectEstablished", "connectDestroyed"}
    BY <1>4 DEF Leaving, Open
  <2>2. n # 1
    BY <2>1
  <2>3. /\ Len(ioQueue') = n - 1
        /\ \A i \in 1..(n - 1) : ioQueue'[i] = ioQueue[i + 1]
    BY <2>1
  <2>4. /\ Len(ioQueue') > 0 /\ ioQueue'[Len(ioQueue')] = "connectDestroyed"
        /\ \A i \in 1..(Len(ioQueue') - 1) :
              ioQueue'[i] \notin {"connectEstablished", "connectDestroyed"}
    BY <2>1, <2>2, <2>3
  <2>5. Leaving'
    BY <1>4, <2>1, <2>4 DEF Leaving, Quiet
  <2>6. QED
    BY <1>1, <2>5 DEF PhaseInv
<1>5. QED
  BY <1>1, <1>2, <1>3, <1>4

(* handleClose of an open connection.                                      *)
LEMMA PhaseCloses ==
    ASSUME PhaseInv, ~late, Open, HandleClose, UNCHANGED inMap,
           ioQueue \in Seq(Functors),
           UNCHANGED ioQueue \/ (ioQueue # <<>> /\ ioQueue' = Tail(ioQueue))
    PROVE  PhaseInv'
<1>1. failed = {} /\ InUse
  BY DEF PhaseInv, Unborn, Starting, InUse, Closing, Leaving, Gone, Open
<1>2. failed' = {}
  BY <1>1 DEF HandleClose, Fails
<1>3. mainQueue' = <<"removeConnectionInLoop">>
  <2>1. mainQueue' = Append(<<>>, "removeConnectionInLoop")
    BY <1>1 DEF InUse, HandleClose
  <2>2. QED
    BY <2>1
<1>4. Between(ioQueue')
  BY <1>1, BetweenFacts DEF InUse
<1>5. Closing'
  BY <1>1, <1>3, <1>4 DEF Closing, Quiet, InUse, HandleClose
<1>6. QED
  BY <1>2, <1>5 DEF PhaseInv

(* Every step stays in its phase or goes to the next.                      *)
LEMMA PhaseStep == IInv /\ [Next]_vars => PhaseInv'
<1> SUFFICES ASSUME IInv, [Next]_vars, ~late' PROVE PhaseInv'
  BY DEF PhaseInv
<1>0. /\ PhaseInv /\ ioQueue \in Seq(Functors)
      /\ reading \in BOOLEAN /\ writing \in BOOLEAN /\ added \in BOOLEAN
      /\ state \in States /\ TypeOK
  BY DEF IInv, TypeOK, Functors
<1> USE DEF connVars, peerVars, userVars
<1>1. ~late
  <2>1. late => late'
    <3>1. CASE RunFunctor \/ CallOnLoop \/ CallOffLoop
      BY <3>1 DEF RunFunctor, CallOnLoop, CallOffLoop, StartReadInLoop, SendOnLoop,
         ShutdownOnLoop, ForceCloseOnLoop, ForceCloseWithDelayOnLoop, StartReadOnLoop,
         UserTakes, UserReleases, UserActs, UserTests
    <3>2. CASE ~(RunFunctor \/ CallOnLoop \/ CallOffLoop)
      BY <3>2 DEF Next, HandleRead, HandleWrite, DelayExpires, NewConnection,
         RemoveConnectionInLoop, PeerCloses, PeerResets, Done, vars
    <3>3. QED
      BY <3>1, <3>2
  <2>2. QED
    BY <2>1
<1>2. /\ failed = {} /\ (Unborn \/ Starting \/ InUse \/ Closing \/ Leaving \/ Gone)
      /\ Open => InUse
      /\ reading \/ writing => InUse
  BY <1>0, <1>1 DEF PhaseInv, Unborn, Starting, InUse, Closing, Leaving, Gone, Open, Quiet
<1>3. CASE RunFunctor
  <2>0. UNCHANGED inMap
    BY <1>3 DEF RunFunctor
  <2>1. CASE PopFunctor("connectEstablished") /\ ConnectEstablished
             /\ ioQueue' = Tail(ioQueue) /\ UNCHANGED mainQueue
    <3>1. Starting
      BY <1>0, <1>2, <2>1 DEF Unborn, InUse, Closing, Leaving, Gone, Between, PopFunctor
    <3>2. failed' = {} /\ ioQueue' = <<>>
      BY <1>2, <2>1, <3>1 DEF Starting, ConnectEstablished, Fails
    <3>3. InUse'
      <4>1. Between(ioQueue)'
        BY <3>2 DEF Between
      <4>2. Open' /\ added' /\ inMap' /\ mainQueue' = <<>>
        BY <2>0, <2>1, <3>1 DEF Starting, ConnectEstablished, Open
      <4>3. QED
        BY <4>1, <4>2 DEF InUse
    <3>4. QED
      BY <3>2, <3>3 DEF PhaseInv
  <2>2. CASE PopFunctor("connectDestroyed") /\ ConnectDestroyed
             /\ ioQueue' = Tail(ioQueue) /\ UNCHANGED mainQueue
    <3>1. Leaving
      BY <1>0, <1>2, <2>2, BetweenFacts DEF Unborn, Starting, InUse, Closing, Gone, PopFunctor
    <3>2. Len(ioQueue) = 1
      <4>1. Len(ioQueue) \in Nat /\ Len(ioQueue) > 0 /\ ioQueue[1] = "connectDestroyed"
        BY <1>0, <2>2, <3>1 DEF Leaving, PopFunctor
      <4>2. 1 \notin 1..(Len(ioQueue) - 1)
        BY <3>1, <4>1 DEF Leaving
      <4> DEFINE k == Len(ioQueue)
      <4>3. k \in Nat /\ k > 0 /\ 1 \notin 1..(k - 1)
        BY <4>1, <4>2
      <4> HIDE DEF k
      <4>4. k = 1
        BY <4>3
      <4>5. QED
        BY <4>4 DEF k
    <3>3. ioQueue' = <<>>
      BY <1>0, <2>2, <3>2
    <3>4. /\ state' = "kDisconnected" /\ Quiet' /\ ~added'
      BY <2>2, <3>1 DEF Leaving, Quiet, ConnectDestroyed
    <3>5. failed' = {}
      BY <1>2, <2>2, <3>1, <3>4 DEF Leaving, Quiet, ConnectDestroyed, Fails
    <3>6. Gone'
      BY <2>0, <2>2, <3>1, <3>3, <3>4 DEF Gone, Leaving
    <3>7. QED
      BY <3>5, <3>6 DEF PhaseInv
  <2>3. CASE PopFunctor("forceCloseInLoop") /\ ForceCloseInLoop /\ ioQueue' = Tail(ioQueue)
    <3>1. CASE Open
      BY <1>0, <1>1, <2>0, <2>3, <3>1, PhaseCloses DEF ForceCloseInLoop, PopFunctor
    <3>2. CASE ~Open
      <4>1. UNCHANGED <<state, reading, writing, outBuf, mainQueue, added, failed>>
        BY <2>3, <3>2 DEF ForceCloseInLoop
      <4>2. QED
        BY <1>0, <1>1, <2>0, <2>3, <3>2, <4>1, PhasePopped DEF PopFunctor, Open
    <3>3. QED
      BY <3>1, <3>2
  <2>4. CASE PopFunctor("sendInLoop") /\ SendInLoop(Tail(ioQueue))
             /\ UNCHANGED <<mainQueue, failed>>
    <3>1. /\ ioQueue # <<>> /\ Tail(ioQueue) \in Seq(Functors)
          /\ Head(ioQueue) = "sendInLoop"
      BY <1>0, <2>4 DEF PopFunctor
    <3>2. /\ ioQueue' \in {Tail(ioQueue), Append(Tail(ioQueue), "callback")}
          /\ UNCHANGED <<state, reading, added, fin>>
          /\ state = "kDisconnected" => UNCHANGED connVars /\ ioQueue' = Tail(ioQueue)
      BY <1>0, <2>4, <3>1, SendFacts
    <3>3. CASE Open
      <4>1. Between(ioQueue')
        <5>1. Between(Tail(ioQueue))
          BY <1>0, <1>2, <3>1, <3>3, BetweenFacts DEF InUse
        <5>2. "callback" \in Functors
          BY DEF Functors, StrongFunctors
        <5>3. QED
          BY <3>1, <3>2, <5>1, <5>2, BetweenFacts
      <4>2. QED
        BY <1>0, <1>1, <2>0, <2>4, <3>2, <3>3, <4>1, PhaseKept DEF Open
    <3>4. CASE ~Open
      <4>1. state = "kDisconnected"
        BY <1>2, <3>1, <3>4 DEF Unborn, Starting, InUse, Closing, Leaving, Gone
      <4>2. QED
        BY <1>0, <1>1, <2>0, <2>4, <3>1, <3>2, <3>4, <4>1, PhasePopped DEF Open
    <3>5. QED
      BY <3>3, <3>4
  <2>5. CASE PopFunctor("shutdownInLoop") /\ ioQueue' = Tail(ioQueue)
             /\ UNCHANGED <<state, reading, writing, added, outBuf, mainQueue, failed>>
    BY <1>0, <1>1, <2>0, <2>5, PhasePopped DEF PopFunctor, Open
  <2>6. CASE PopFunctor("startReadInLoop") /\ StartReadInLoop /\ ioQueue' = Tail(ioQueue)
             /\ UNCHANGED <<mainQueue, failed>>
    <3>1. Open /\ added
      BY <1>2, <2>6 DEF StartReadInLoop, InUse
    <3>2. added' = added /\ state' = state
      BY <1>0, <2>6, <3>1 DEF StartReadInLoop
    <3>3. QED
      BY <1>0, <1>1, <2>0, <2>6, <3>1, <3>2, PhasePopped DEF PopFunctor, Open
  <2>7. CASE PopFunctor("callback") /\ ioQueue' = Tail(ioQueue)
             /\ UNCHANGED <<connVars, mainQueue, failed>>
    BY <1>0, <1>1, <2>0, <2>7, PhasePopped DEF PopFunctor, Open
  <2>8. QED
    BY <1>3, <2>1, <2>2, <2>3, <2>4, <2>5, <2>6, <2>7 DEF RunFunctor
<1>4. CASE HandleRead
  BY <1>0, <1>1, <1>2, <1>4, PhaseCloses DEF HandleRead, InUse
<1>5. CASE HandleWrite
  <2>1. InUse /\ UNCHANGED <<inMap, mainQueue, added, failed, state>>
    BY <1>2, <1>5 DEF HandleWrite
  <2>2. Between(ioQueue')
    <3>1. ioQueue' \in {ioQueue, Append(ioQueue, "callback")}
      BY <1>5 DEF HandleWrite
    <3>2. "callback" \in Functors
      BY DEF Functors, StrongFunctors
    <3>3. QED
      BY <1>0, <2>1, <3>1, <3>2, BetweenFacts DEF InUse
  <2>3. QED
    BY <1>0, <1>1, <2>1, <2>2, PhaseKept DEF InUse, Open
<1>6. ASSUME ForceClose, UNCHANGED <<inMap, mainQueue, failed>> PROVE PhaseInv'
  <2>1. InUse /\ Open /\ Open'
    BY <1>2, <1>6 DEF ForceClose, Open
  <2>2. Between(ioQueue')
    <3>1. "forceCloseInLoop" \in Functors
      BY DEF Functors, StrongFunctors
    <3>2. QED
      BY <1>0, <1>6, <2>1, <3>1, BetweenFacts DEF InUse, ForceClose
  <2>3. QED
    BY <1>0, <1>1, <1>6, <2>1, <2>2, PhaseKept DEF ForceClose
<1>7. CASE DelayExpires
  <2>1. CASE ForceClose
    BY <1>6, <1>7, <2>1 DEF DelayExpires
  <2>2. CASE ~ForceClose
    BY <1>0, <1>1, <1>7, <2>2, PhaseKept DEF DelayExpires, Open
  <2>3. QED
    BY <2>1, <2>2
<1>8. CASE CallOnLoop
  <2>1. CASE SendOnLoop
    <3>1. /\ state = "kConnected" /\ SendInLoop(ioQueue)
          /\ UNCHANGED <<inMap, mainQueue, failed>>
      BY <2>1 DEF SendOnLoop
    <3>2. /\ ioQueue' \in {ioQueue, Append(ioQueue, "callback")}
          /\ UNCHANGED <<state, reading, added, fin>>
      BY <1>0, <3>1, SendFacts
    <3>3. Open /\ InUse /\ "callback" \in Functors
      BY <1>2, <3>1 DEF Open, Functors, StrongFunctors
    <3>4. Between(ioQueue')
      BY <1>0, <3>2, <3>3, BetweenFacts DEF InUse
    <3>5. QED
      BY <1>0, <1>1, <3>1, <3>2, <3>3, <3>4, PhaseKept DEF Open
  <2>2. CASE ShutdownOnLoop \/ ForceCloseWithDelayOnLoop
    <3>1. /\ Open /\ Open' /\ UNCHANGED <<inMap, mainQueue, added, failed, ioQueue>>
      BY <2>2 DEF ShutdownOnLoop, ForceCloseWithDelayOnLoop, Open
    <3>2. QED
      BY <1>0, <1>1, <3>1, PhaseKept
  <2>3. CASE ForceCloseOnLoop
    BY <1>6, <2>3 DEF ForceCloseOnLoop
  <2>4. CASE StartReadOnLoop
    <3>1. /\ Open /\ added
          /\ StartReadInLoop /\ UNCHANGED <<inMap, mainQueue, ioQueue, failed>>
      BY <1>2, <2>4 DEF StartReadOnLoop, StartReadInLoop, InUse
    <3>2. added' = added /\ state' = state
      BY <1>0, <3>1 DEF StartReadInLoop
    <3>3. QED
      BY <1>0, <1>1, <3>1, <3>2, PhaseKept DEF Open
  <2>5. QED
    BY <1>8, <2>1, <2>2, <2>3, <2>4 DEF CallOnLoop
<1>9. CASE CallOffLoop
  <2>1. ASSUME NEW u \in Users, UserActs(u) PROVE PhaseInv'
    <3>1. /\ Open /\ Open' /\ InUse
          /\ ioQueue' = ioQueue \o FunctorOf(op[u])
          /\ UNCHANGED <<inMap, mainQueue, added, failed>>
      BY <1>2, <2>1 DEF UserActs, Open
    <3>2. Between(ioQueue')
      BY <1>0, <3>1, BetweenFacts DEF InUse
    <3>3. QED
      BY <1>0, <1>1, <3>1, <3>2, PhaseKept
  <2>2. ASSUME NEW u \in Users,
               UserTakes(u) \/ UserReleases(u) \/ \E o \in UserOps : UserTests(u, o)
        PROVE  PhaseInv'
    <3>1. UNCHANGED <<inMap, mainQueue, ioQueue, connVars, failed>>
      BY <2>2 DEF UserTakes, UserReleases, UserTests
    <3>2. QED
      BY <1>0, <1>1, <3>1, PhaseKept DEF Open
  <2>3. QED
    BY <1>9, <2>1, <2>2 DEF CallOffLoop
<1>10. CASE NewConnection
  <2>1. Unborn
    BY <1>2, <1>10 DEF NewConnection, Starting, InUse, Closing, Leaving, Gone, Open
  <2>2. Starting'
    BY <1>10, <2>1 DEF NewConnection, Unborn, Starting, Quiet
  <2>3. QED
    BY <1>2, <1>10, <2>2 DEF NewConnection, PhaseInv
<1>11. CASE RemoveConnectionInLoop
  <2>1. Closing
    BY <1>2, <1>11 DEF RemoveConnectionInLoop, Unborn, Starting, InUse, Leaving, Gone
  <2>2. /\ mainQueue' = <<>> /\ ~inMap' /\ failed' = {}
        /\ ioQueue' = Append(ioQueue, "connectDestroyed")
        /\ UNCHANGED <<state, reading, writing, added>>
    BY <1>2, <1>11, <2>1 DEF RemoveConnectionInLoop, Closing, Fails
  <2>3. /\ Len(ioQueue') = Len(ioQueue) + 1 /\ Len(ioQueue) \in Nat
        /\ ioQueue'[Len(ioQueue) + 1] = "connectDestroyed"
        /\ \A i \in 1..Len(ioQueue) : ioQueue'[i] = ioQueue[i]
    BY <1>0, <2>2
  <2>4. Leaving'
    BY <2>1, <2>2, <2>3 DEF Closing, Leaving, Quiet, Between
  <2>5. QED
    BY <2>2, <2>4 DEF PhaseInv
<1>12. CASE PeerCloses \/ PeerResets \/ Done \/ UNCHANGED vars
  <2>1. UNCHANGED <<inMap, mainQueue, ioQueue, connVars, failed>>
    BY <1>12 DEF PeerCloses, PeerResets, Done, vars
  <2>2. QED
    BY <1>0, <1>1, <2>1, PhaseKept DEF Open
<1>13. QED
  BY <1>3, <1>4, <1>5, <1>7, <1>8, <1>9, <1>10, <1>11, <1>12 DEF Next

-----------------------------------------------------------------------------
(* Types.                                                                  *)
LEMMA TypeStep == IInv /\ [Next]_vars => TypeOK'
<1> SUFFICES ASSUME IInv, [Next]_vars PROVE TypeOK'
  OBVIOUS
<1>0. TypeOK
  BY DEF IInv
<1>a. outBuf' \in Seq(Nat) /\ accepted' \in Nat /\ wired' \in Nat
  BY StreamStep
<1>b. /\ ioQueue \in Seq(Functors) /\ mainQueue \in Seq({"removeConnectionInLoop"})
      /\ failed \in SUBSET Asserts /\ state \in States
      /\ inMap \in BOOLEAN /\ late \in BOOLEAN
      /\ reading \in BOOLEAN /\ writing \in BOOLEAN /\ added \in BOOLEAN /\ fin \in BOOLEAN
      /\ eof \in BOOLEAN /\ reset \in BOOLEAN /\ delayed \in BOOLEAN
      /\ holds \in SUBSET Users
      /\ op \in [Users -> UserOps \union {"none"}]
  BY <1>0 DEF TypeOK, Functors
<1>c. \A f \in Functors : Append(ioQueue, f) \in Seq(Functors)
  BY <1>b
<1>d. /\ "connectEstablished" \in Functors /\ "connectDestroyed" \in Functors
      /\ "forceCloseInLoop" \in Functors /\ "callback" \in Functors
      /\ ioQueue # <<>> => Tail(ioQueue) \in Seq(Functors)
  BY <1>b DEF Functors, StrongFunctors
<1> USE DEF connVars, peerVars, userVars
<1> DEFINE Rest == /\ inMap' \in BOOLEAN /\ late' \in BOOLEAN
                   /\ eof' \in BOOLEAN /\ reset' \in BOOLEAN /\ delayed' \in BOOLEAN
                   /\ holds' \in SUBSET Users
                   /\ op' \in [Users -> UserOps \union {"none"}]
           Conn == /\ state' \in States /\ reading' \in BOOLEAN /\ writing' \in BOOLEAN
                   /\ added' \in BOOLEAN /\ fin' \in BOOLEAN
                   /\ failed' \in SUBSET Asserts
           Queues == /\ ioQueue' \in Seq(Functors)
                     /\ mainQueue' \in Seq({"removeConnectionInLoop"})
<1>e. ASSUME Rest, Conn, Queues PROVE TypeOK'
  BY <1>a, <1>e DEF TypeOK, Functors
<1>f. ASSUME HandleClose PROVE Conn /\ mainQueue' \in Seq({"removeConnectionInLoop"})
  <2>1. mainQueue' \in Seq({"removeConnectionInLoop"})
    <3> DEFINE M == {"removeConnectionInLoop"}
    <3>1. mainQueue \in Seq(M) /\ "removeConnectionInLoop" \in M
      BY <1>b
    <3>2. mainQueue' = Append(mainQueue, "removeConnectionInLoop")
      BY <1>f DEF HandleClose
    <3> HIDE DEF M
    <3>3. mainQueue' \in Seq(M)
      BY <3>1, <3>2
    <3>4. QED
      BY <3>3 DEF M
  <2>2. QED
    BY <1>b, <1>f, <2>1 DEF HandleClose, Fails, Asserts, States
<1>g. ASSUME NEW q \in Seq(Functors), SendInLoop(q), UNCHANGED failed
      PROVE  Conn /\ ioQueue' \in Seq(Functors)
  <2>1. ioQueue' \in Seq(Functors) /\ UNCHANGED <<state, reading, added, fin>>
    BY <1>0, <1>g, SendFacts
  <2>2. writing' \in BOOLEAN
    BY <1>b, <1>g DEF SendInLoop
  <2>3. QED
    BY <1>b, <1>g, <2>1, <2>2
<1>1. CASE RunFunctor
  <2>1. Rest
    BY <1>1, <1>b DEF RunFunctor, StartReadInLoop
  <2>2. ioQueue # <<>> /\ Tail(ioQueue) \in Seq(Functors)
    BY <1>1, <1>d DEF RunFunctor, PopFunctor
  <2>3. Conn /\ Queues
    <3>1. CASE ConnectEstablished /\ ioQueue' = Tail(ioQueue) /\ UNCHANGED mainQueue
      BY <1>b, <2>2, <3>1 DEF ConnectEstablished, Fails, Asserts, States
    <3>2. CASE ConnectDestroyed /\ ioQueue' = Tail(ioQueue) /\ UNCHANGED mainQueue
      <4>1. state' \in States /\ reading' \in BOOLEAN /\ writing' \in BOOLEAN
            /\ added' \in BOOLEAN /\ fin' \in BOOLEAN
        BY <1>b, <3>2 DEF ConnectDestroyed, States
      <4>2. failed' \in SUBSET Asserts
        BY <1>b, <3>2 DEF ConnectDestroyed, Fails, Asserts
      <4>3. QED
        BY <1>b, <2>2, <3>2, <4>1, <4>2
    <3>3. CASE ForceCloseInLoop /\ ioQueue' = Tail(ioQueue)
      BY <1>b, <1>f, <2>2, <3>3 DEF ForceCloseInLoop
    <3>4. CASE SendInLoop(Tail(ioQueue)) /\ UNCHANGED <<mainQueue, failed>>
      BY <1>b, <1>g, <2>2, <3>4
    <3>5. CASE ShutdownInLoop(writing) /\ ioQueue' = Tail(ioQueue)
               /\ UNCHANGED <<state, reading, writing, added, mainQueue, failed>>
      BY <1>b, <2>2, <3>5 DEF ShutdownInLoop
    <3>6. CASE StartReadInLoop /\ ioQueue' = Tail(ioQueue) /\ UNCHANGED <<mainQueue, failed>>
      BY <1>b, <2>2, <3>6 DEF StartReadInLoop
    <3>7. CASE ioQueue' = Tail(ioQueue) /\ UNCHANGED <<connVars, mainQueue, failed>>
      BY <1>b, <2>2, <3>7
    <3>8. QED
      BY <1>1, <3>1, <3>2, <3>3, <3>4, <3>5, <3>6, <3>7 DEF RunFunctor
  <2>4. QED
    BY <1>e, <2>1, <2>3
<1>2. CASE HandleRead
  <2>1. Rest /\ ioQueue' \in Seq(Functors) /\ HandleClose
    BY <1>2, <1>b DEF HandleRead
  <2>2. QED
    BY <1>e, <1>f, <2>1
<1>3. CASE HandleWrite
  <2>1. Rest /\ UNCHANGED mainQueue
    BY <1>3, <1>b DEF HandleWrite
  <2>2. ioQueue' \in Seq(Functors)
    BY <1>3, <1>b, <1>c, <1>d DEF HandleWrite
  <2>3. Conn
    BY <1>3, <1>b DEF HandleWrite, ShutdownInLoop
  <2>4. QED
    BY <1>b, <1>e, <2>1, <2>2, <2>3
<1>4. CASE DelayExpires
  <2>1. Rest /\ UNCHANGED <<mainQueue, failed>>
    BY <1>4, <1>b DEF DelayExpires
  <2>2. Conn /\ ioQueue' \in Seq(Functors)
    BY <1>4, <1>b, <1>c, <1>d DEF DelayExpires, ForceClose, States
  <2>3. QED
    BY <1>b, <1>e, <2>1, <2>2
<1>5. CASE CallOnLoop
  <2>1. Rest /\ UNCHANGED <<mainQueue, failed>>
    BY <1>5, <1>b DEF CallOnLoop, SendOnLoop, ShutdownOnLoop, ForceCloseOnLoop,
       ForceCloseWithDelayOnLoop, StartReadOnLoop, StartReadInLoop
  <2>2. Conn /\ ioQueue' \in Seq(Functors)
    <3>1. CASE SendOnLoop
      BY <1>b, <1>g, <2>1, <3>1 DEF SendOnLoop
    <3>2. CASE ShutdownOnLoop
      BY <1>b, <2>1, <3>2 DEF ShutdownOnLoop, ShutdownInLoop, States
    <3>3. CASE ForceCloseOnLoop \/ ForceCloseWithDelayOnLoop
      BY <1>b, <1>c, <1>d, <2>1, <3>3 DEF ForceCloseOnLoop, ForceCloseWithDelayOnLoop,
         ForceClose, States
    <3>4. CASE StartReadOnLoop
      BY <1>b, <2>1, <3>4 DEF StartReadOnLoop, StartReadInLoop
    <3>5. QED
      BY <1>5, <3>1, <3>2, <3>3, <3>4 DEF CallOnLoop
  <2>3. QED
    BY <1>b, <1>e, <2>1, <2>2
<1>6. CASE CallOffLoop
  <2>1. ASSUME NEW u \in Users, UserActs(u) PROVE TypeOK'
    <3>1. Rest /\ UNCHANGED mainQueue
      BY <1>b, <2>1 DEF UserActs
    <3>2. Conn
      BY <1>b, <2>1 DEF UserActs, States
    <3>3. ioQueue' \in Seq(Functors)
      <4>1. FunctorOf(op[u]) \in Seq(Functors)
        BY FunctorFacts
      <4>2. QED
        BY <1>b, <2>1, <4>1 DEF UserActs
    <3>4. QED
      BY <1>b, <1>e, <3>1, <3>2, <3>3
  <2>2. ASSUME NEW u \in Users,
               UserTakes(u) \/ UserReleases(u) \/ \E o \in UserOps : UserTests(u, o)
        PROVE  TypeOK'
    <3>1. /\ UNCHANGED <<inMap, mainQueue, ioQueue, connVars, peerVars, delayed, late, failed>>
          /\ holds' \in SUBSET Users
          /\ op' \in [Users -> UserOps \union {"none"}]
      BY <1>b, <2>2 DEF UserTakes, UserReleases, UserTests
    <3>2. QED
      BY <1>b, <1>e, <3>1
  <2>3. QED
    BY <1>6, <2>1, <2>2 DEF CallOffLoop
<1>7. CASE NewConnection
  BY <1>7, <1>b, <1>c, <1>d, <1>e DEF NewConnection, States
<1>8. CASE RemoveConnectionInLoop
  <2>1. /\ mainQueue' \in Seq({"removeConnectionInLoop"})
        /\ ioQueue' \in Seq(Functors)
    <3> DEFINE M == {"removeConnectionInLoop"}
    <3>1. mainQueue \in Seq(M)
      BY <1>b
    <3>2. mainQueue # <<>> /\ mainQueue' = Tail(mainQueue)
      BY <1>8 DEF RemoveConnectionInLoop
    <3>3. ioQueue' \in Seq(Functors)
      BY <1>8, <1>c, <1>d DEF RemoveConnectionInLoop
    <3> HIDE DEF M
    <3>4. mainQueue' \in Seq(M)
      BY <3>1, <3>2
    <3>5. QED
      BY <3>3, <3>4 DEF M
  <2>2. Rest
    BY <1>8, <1>b DEF RemoveConnectionInLoop
  <2>3. Conn
    BY <1>8, <1>b DEF RemoveConnectionInLoop, Fails, Asserts
  <2>4. QED
    BY <1>e, <2>1, <2>2, <2>3
<1>9. CASE PeerCloses \/ PeerResets \/ Done \/ UNCHANGED vars
  <2>1. /\ UNCHANGED <<inMap, mainQueue, ioQueue, connVars, delayed, userVars, failed>>
        /\ eof' \in BOOLEAN /\ reset' \in BOOLEAN
    BY <1>9, <1>b DEF PeerCloses, PeerResets, Done, vars
  <2>2. QED
    BY <1>b, <1>e, <2>1
<1>10. QED
  BY <1>1, <1>2, <1>3, <1>4, <1>5, <1>6, <1>7, <1>8, <1>9 DEF Next

-----------------------------------------------------------------------------
(* The invariant holds in every behaviour of the two loops, the users and  *)
(* the peer.                                                               *)
THEOREM Invariance == Spec => []IInv
<1>1. IInv /\ [Next]_vars => IInv'
  BY TypeStep, StreamStep, OutputStep, PhaseStep DEF IInv
<1>2. QED
  BY InvInit, <1>1, PTL DEF Spec

(* Unless a call came late, no assertion on the way from connectEstablished*)
(* to connectDestroyed fails, and the object dies closed, out of its poller*)
(* and with no functor bound to a raw this behind it.                      *)
THEOREM NoAssertFailsHolds == Spec => []NoAssertFails
<1>1. IInv => NoAssertFails
  <2> SUFFICES ASSUME IInv, ~late
               PROVE  /\ failed = {}
                      /\ Destroyed => /\ state = "kDisconnected" /\ ~added
                                      /\ Elements(ioQueue) \intersect RawFunctors = {}
    BY DEF NoAssertFails
  <2>1. failed = {} /\ (Unborn \/ Starting \/ InUse \/ Closing \/ Leaving \/ Gone)
    BY DEF IInv, PhaseInv
  <2>2. ASSUME Destroyed PROVE Gone
    <3>1. state # "none" /\ ~inMap /\ mainQueue = <<>>
      BY <2>2 DEF Destroyed, Alive
    <3>2. ~Leaving
      <4> SUFFICES ASSUME Leaving PROVE FALSE
        OBVIOUS
      <4>1. Len(ioQueue) \in 1..Len(ioQueue) /\ ioQueue[Len(ioQueue)] = "connectDestroyed"
        BY DEF IInv, TypeOK, Leaving
      <4>2. "connectDestroyed" \in Elements(ioQueue) \intersect StrongFunctors
        BY <4>1 DEF Elements, StrongFunctors
      <4>3. QED
        BY <2>2, <4>2 DEF Destroyed, Alive
    <3>3. QED
      BY <2>1, <3>1, <3>2 DEF Unborn, Starting, InUse, Closing
  <2>3. Gone => /\ state = "kDisconnected" /\ ~added
                /\ Elements(ioQueue) \intersect RawFunctors = {}
    BY DEF Gone, Elements
  <2>4. QED
    BY <2>1, <2>2, <2>3
<1>2. QED
  BY <1>1, Invariance, PTL

(* outputBuffer_ is exactly what follows the bytes already written, and an *)
(* open connection sends its FIN only behind all of it.                    *)
THEOREM StreamInOrderHolds == Spec => []StreamInOrder
<1>1. IInv => StreamInOrder
  BY DEF IInv, StreamInv, OutputInv, Stream, StreamInOrder
<1>2. QED
  BY <1>1, Invariance, PTL

(* Output that is waiting on an open connection is watched for, and every  *)
(* variable keeps its type.                                                *)
THEOREM OutputWatchedHolds == Spec => []OutputWatched
<1>1. IInv => OutputWatched
  BY DEF IInv, OutputInv, OutputWatched
<1>2. QED
  BY <1>1, Invariance, PTL
=============================================================================
