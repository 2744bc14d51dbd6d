------------------------------- MODULE Buffer -------------------------------
(***************************************************************************)
(* networker::net::Buffer: a vector of bytes with a reader and a writer    *)
(* index.  Operators on buffers are records to records; a step of the      *)
(* specification is one call of a public operation within its documented   *)
(* precondition.  Byte k of buffer_ (from 0) is mem[k + 1].                *)
(***************************************************************************)
EXTENDS Integers, Sequences, FiniteSetsExt, SequencesExt

CONSTANTS Base,         \* bytes are 0..(Base - 1): 256, as char's bit patterns
          CheapPrepend, \* kCheapPrepend
          InitialSize,  \* kInitialSize
          ExtraSize,    \* sizeof(extrabuf) in readFd
          Widths,       \* sizes of the integers: 1, 2, 4, 8
          Data,         \* byte strings passed to append, prepend or read
          Patterns,     \* byte strings looked for: LF and CR LF
          MaxReadable   \* bound: readable bytes

Byte == 0..(Base - 1)

ASSUME BaseAssumption == Base \in Nat /\ Base >= 2 /\ Base % 2 = 0
ASSUME SizeAssumption ==
    CheapPrepend \in Nat /\ InitialSize \in Nat /\ ExtraSize \in Nat /\ MaxReadable \in Nat
ASSUME DataAssumption == Data \subseteq Seq(Byte) /\ Patterns \subseteq Seq(Byte)
ASSUME WidthAssumption == Widths \subseteq Nat \ {0}

VARIABLES buf,    \* [mem |-> buffer_, reader |-> readerIndex_, writer |-> writerIndex_]
          number  \* the integer last passed to or returned by a call

vars == <<buf, number>>

-----------------------------------------------------------------------------
Readable(b) == b.writer - b.reader
Writable(b) == Len(b.mem) - b.writer
Prependable(b) == b.reader

(* The readable bytes.                                                     *)
Content(b) == [i \in 1..Readable(b) |-> b.mem[b.reader + i]]

Fresh == [mem |-> [i \in 1..(CheapPrepend + InitialSize) |-> 0],
          reader |-> CheapPrepend, writer |-> CheapPrepend]

(* std::copy of data to the elements after the first "at".                 *)
Store(mem, at, data) ==
    [i \in 1..Len(mem) |->
        IF at < i /\ i <= at + Len(data) THEN data[i - at] ELSE mem[i]]

Resize(mem, n) == [i \in 1..n |-> IF i <= Len(mem) THEN mem[i] ELSE 0]

(* Variant: room for the prepend area is not counted.                      *)
MustGrowNoReserve(b, len) == Writable(b) + Prependable(b) < len

MustGrow(b, len) == Writable(b) + Prependable(b) < len + CheapPrepend

(* Variant: the indices are moved, the bytes are not.                      *)
MoveToFrontNoCopy(b) == [b EXCEPT !.reader = CheapPrepend,
                                  !.writer = CheapPrepend + Readable(b)]

MoveToFront(b) == [mem |-> Store(b.mem, CheapPrepend, Content(b)),
                   reader |-> CheapPrepend,
                   writer |-> CheapPrepend + Readable(b)]

(* makeSpace: grow the vector, or move the readable bytes to its front.    *)
MakeSpace(b, len) ==
    IF MustGrow(b, len) THEN [b EXCEPT !.mem = Resize(b.mem, b.writer + len)]
                        ELSE MoveToFront(b)

EnsureWritable(b, len) == IF Writable(b) < len THEN MakeSpace(b, len) ELSE b

(* hasWritten after a copy to beginWrite().                                *)
Written(b, data) == [b EXCEPT !.mem = Store(b.mem, b.writer, data),
                              !.writer = b.writer + Len(data)]

AppendTo(b, data) == Written(EnsureWritable(b, Len(data)), data)

RetrieveAllOf(b) == [b EXCEPT !.reader = CheapPrepend, !.writer = CheapPrepend]

RetrieveFrom(b, len) ==
    IF len < Readable(b) THEN [b EXCEPT !.reader = b.reader + len]
                         ELSE RetrieveAllOf(b)

(* readFd: what does not fit goes through the stack buffer and append.     *)
ReadInto(b, data) ==
    LET w == Writable(b) IN
    IF Len(data) <= w THEN Written(b, data)
    ELSE AppendTo(Written(b, SubSeq(data, 1, w)), SubSeq(data, w + 1, Len(data)))

ReadLimit(b) == IF Writable(b) < ExtraSize THEN Writable(b) + ExtraSize ELSE Writable(b)

(* Base ^ n, as a function.                                                *)
Power[n \in Nat] == IF n = 0 THEN 1 ELSE Base * Power[n - 1]

(* An integer of w bytes in the memory of a little-endian host.            *)
HostBytes(w, x) == [i \in 1..w |-> ((x % Power[w]) \div Power[i - 1]) % Base]

HostUnsigned(bytes) ==
    LET low[k \in 0..Len(bytes)] ==
            IF k = 0 THEN 0 ELSE low[k - 1] + bytes[k] * Power[k - 1]
    IN  low[Len(bytes)]

HostInt(bytes) ==
    LET u == HostUnsigned(bytes)
        p == Power[Len(bytes)]
    IN  IF u < p \div 2 THEN u ELSE u - p

Ints(w) == -(Power[w] \div 2)..(Power[w] \div 2 - 1)

(* htobe, be64toh ... on a little-endian host.                             *)
HostToNetwork(bytes) == Reverse(bytes)
NetworkToHost(bytes) == Reverse(bytes)

PeekOf(b, w) == HostInt(NetworkToHost(SubSeq(b.mem, b.reader + 1, b.reader + w)))

(* std::search, memchr: offset from peek() of the first occurrence, or -1  *)
(* for NULL.                                                               *)
Search(b, pattern, start) ==
    LET at == {i \in (b.reader + start)..(b.writer - Len(pattern)) :
                  SubSeq(b.mem, i + 1, i + Len(pattern)) = pattern}
    IN  IF at = {} THEN -1 ELSE Min(at) - b.reader

-----------------------------------------------------------------------------
Init == buf = Fresh /\ number = 0

Room(len) == Readable(buf) + len <= MaxReadable

AppendData(data) ==
    /\ Room(Len(data))
    /\ buf' = AppendTo(buf, data)
    /\ UNCHANGED number

ReadFd(data) ==
    /\ Room(Len(data))
    /\ Len(data) <= ReadLimit(buf)
    /\ buf' = ReadInto(buf, data)
    /\ UNCHANGED number

Retrieve(len) ==
    /\ len <= Readable(buf)
    /\ buf' = RetrieveFrom(buf, len)
    /\ UNCHANGED number

Unwrite(len) ==
    /\ len <= Readable(buf)
    /\ buf' = [buf EXCEPT !.writer = buf.writer - len]
    /\ UNCHANGED number

PrependTo(b, data) == [b EXCEPT !.mem = Store(b.mem, b.reader - Len(data), data),
                                !.reader = b.reader - Len(data)]

Prepend(data) ==
    /\ Room(Len(data))
    /\ Len(data) <= Prependable(buf)
    /\ buf' = PrependTo(buf, data)
    /\ UNCHANGED number

Shrink(reserve) ==
    /\ buf' = AppendTo(EnsureWritable(Fresh, Readable(buf) + reserve), Content(buf))
    /\ UNCHANGED number

(* appendInt8 ... appendInt64.                                             *)
AppendInt(w, x) ==
    /\ Room(w)
    /\ buf' = AppendTo(buf, HostToNetwork(HostBytes(w, x)))
    /\ number' = x

PrependInt(w, x) ==
    /\ Room(w)
    /\ w <= Prependable(buf)
    /\ buf' = PrependTo(buf, HostToNetwork(HostBytes(w, x)))
    /\ number' = x

PeekInt(w) ==
    /\ w <= Readable(buf)
    /\ number' = PeekOf(buf, w)
    /\ UNCHANGED buf

ReadInt(w) ==
    /\ w <= Readable(buf)
    /\ number' = PeekOf(buf, w)
    /\ buf' = RetrieveFrom(buf, w)

(* findCRLF and findEOL, from peek() or from a place after it.             *)
Find(pattern, start) ==
    /\ start <= Readable(buf)
    /\ number' = Search(buf, pattern, start)
    /\ UNCHANGED buf

Next ==
    \/ \E data \in Data : AppendData(data) \/ ReadFd(data) \/ Prepend(data)
    \/ \E len \in 0..MaxReadable : Retrieve(len) \/ Unwrite(len) \/ Shrink(len)
    \/ \E w \in Widths : PeekInt(w) \/ ReadInt(w)
                         \/ \E x \in Ints(w) : AppendInt(w, x) \/ PrependInt(w, x)
    \/ \E pattern \in Patterns, start \in 0..MaxReadable : Find(pattern, start)

Spec == Init /\ [][Next]_vars

-----------------------------------------------------------------------------
(* The picture in Buffer.h: 0 <= readerIndex <= writerIndex <= size, over  *)
(* a vector of bytes; and the assert of makeSpace: whatever is to be       *)
(* written next, bytes are only ever moved towards the front, and          *)
(* afterwards there is room for it.                                        *)
IndexOrder ==
    /\ buf.mem \in Seq(Byte)
    /\ buf.reader \in Nat /\ buf.writer \in Nat
    /\ buf.reader <= buf.writer /\ buf.writer <= Len(buf.mem)
    /\ \A len \in 0..MaxReadable :
          Writable(buf) < len =>
              /\ MustGrow(buf, len) \/ CheapPrepend < buf.reader
              /\ Writable(MakeSpace(buf, len)) >= len

(* Buffer implements ByteQueue: growing, moving, shrinking and reading     *)
(* through the stack buffer never lose, repeat or reorder a byte, integers *)
(* travel in network byte order and come back with their sign, and a       *)
(* search sees the readable bytes and no others.                           *)
Q == INSTANCE ByteQueue WITH Strings <- Data, content <- Content(buf)
ImplementsByteQueue == Q!Spec
=============================================================================
