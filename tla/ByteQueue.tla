----------------------------- MODULE ByteQueue ------------------------------
(***************************************************************************)
(* What networker::net::Buffer promises: a queue of bytes that grows at    *)
(* its end, shrinks at either end, takes a few bytes at its front, carries *)
(* signed integers most significant byte first, and can be searched.       *)
(***************************************************************************)
EXTENDS Integers, Sequences

CONSTANTS Base,      \* bytes are 0..(Base - 1)
          Strings,   \* the byte strings a caller may put
          Widths,    \* sizes of integers, in bytes
          Patterns   \* the byte strings a caller may look for

VARIABLES content,   \* the bytes
          number     \* the integer last passed or returned

vars == <<content, number>>

Init == content = <<>> /\ number = 0

Put(data) == content' = content \o data
PutFront(data) == content' = data \o content
Take(n) == content' = SubSeq(content, n + 1, Len(content))
DropLast(n) == content' = SubSeq(content, 1, Len(content) - n)

(* The value of a string of digits, the first one the most significant, in *)
(* two's complement.                                                       *)
Unsigned(data) ==
    LET prefix[k \in 0..Len(data)] ==
            IF k = 0 THEN 0 ELSE Base * prefix[k - 1] + data[k]
    IN  prefix[Len(data)]

Power[n \in Nat] == IF n = 0 THEN 1 ELSE Base * Power[n - 1]

IntOf(data) ==
    LET u == Unsigned(data)
        p == Power[Len(data)]
    IN  IF 2 * u >= p THEN u - p ELSE u

PutInt(w) ==
    \E data \in [1..w -> 0..(Base - 1)] :
        number' = IntOf(data) /\ (Put(data) \/ PutFront(data))

TakeInt(w) == Take(w) /\ number' = IntOf(SubSeq(content, 1, w))
PeekInt(w) == UNCHANGED content /\ number' = IntOf(SubSeq(content, 1, w))

(* The place, from 0, of the first occurrence at or after start, or -1.    *)
Found(pattern, start) ==
    LET at == {i \in start..(Len(content) - Len(pattern)) :
                  SubSeq(content, i + 1, i + Len(pattern)) = pattern}
    IN  IF at = {} THEN -1 ELSE CHOOSE i \in at : \A j \in at : i <= j

Locate(pattern, start) == UNCHANGED content /\ number' = Found(pattern, start)

Next ==
    \/ UNCHANGED number /\ \E data \in Strings : Put(data) \/ PutFront(data)
    \/ UNCHANGED number /\ \E n \in 0..Len(content) : Take(n) \/ DropLast(n)
    \/ \E w \in Widths : PutInt(w) \/ (w <= Len(content) /\ (TakeInt(w) \/ PeekInt(w)))
    \/ \E pattern \in Patterns, start \in 0..Len(content) : Locate(pattern, start)

Spec == Init /\ [][Next]_vars
=============================================================================
