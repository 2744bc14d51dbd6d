----------------------------- MODULE DataProofs -----------------------------
(***************************************************************************)
(* What the code computes from data, for all data.  Buffer keeps its       *)
(* indices in order and implements a queue of bytes, for all sizes of its  *)
(* vector, its prepend area, the data and the integers.  Logging writes    *)
(* lines within their buffer, with the right numbers and the right times,  *)
(* for all clocks, zone files, pieces and years.                           *)
(***************************************************************************)
EXTENDS Buffer, Logging, TLAPS, WellFoundedInduction

-----------------------------------------------------------------------------
(* Induction and recursion, by the least counterexample.                   *)

(* A set of natural numbers that is not empty has a least element.         *)
LEMMA LeastNat ==
    ASSUME NEW T, T \subseteq Nat, T # {}
    PROVE  \E x \in T : \A y \in T : x <= y
<1> DEFINE L == {p \in Nat \X Nat : p[1] < p[2]}
<1>1. IsWellFoundedOn(L, Nat)
  BY NatLessThanWellFounded DEF OpToRel
<1>2. PICK x \in T : \A y \in T : ~ (<<y, x>> \in L)
  BY <1>1, WFMin, Zenon
<1>3. \A y \in T : x <= y
  <2> SUFFICES ASSUME NEW y \in T PROVE x <= y
    OBVIOUS
  <2>1. x \in Nat /\ y \in Nat
    OBVIOUS
  <2>2. ~ (y < x)
    BY <1>2, <2>1
  <2> QED  BY <2>1, <2>2
<1> QED  BY <1>3

(* Induction, for a set: one that has 0 and with each number the next has  *)
(* them all, for else there were a least one it has not.                   *)
LEMMA Induction ==
    ASSUME NEW T, 0 \in T, \A n \in Nat : n \in T => n + 1 \in T
    PROVE  \A n \in Nat : n \in T
<1> DEFINE U == {n \in Nat : n \notin T}
<1>1. ASSUME U # {} PROVE FALSE
  <2>1. PICK x \in U : \A y \in U : x <= y
    BY <1>1, LeastNat
  <2>2. x \in Nat /\ x # 0 /\ x \notin T
    OBVIOUS
  <2>3. x - 1 \in Nat /\ (x - 1) + 1 = x /\ ~ (x <= x - 1)
    BY <2>2
  <2>4. x - 1 \in T
    BY <2>1, <2>3
  <2> QED  BY <2>2, <2>3, <2>4
<1> QED  BY <1>1

(* A function is defined by its first value and a rule for the next: there *)
(* are such functions up to each n, by induction.                          *)
Begins(f, z, G, n) == f[0] = z /\ \A k \in 1..n : f[k] = G[<<k, f[k - 1]>>]

LEMMA Recursion ==
    ASSUME NEW S, NEW z \in S, NEW G, NEW N \in Nat,
           \A k \in 1..N : \A s \in S : G[<<k, s>>] \in S
    PROVE  \E f \in [0..N -> S] : Begins(f, z, G, N)
<1> DEFINE T == {n \in Nat : n <= N => \E f \in [0..n -> S] : Begins(f, z, G, n)}
<1>1. 0 \in T
  <2>1. [i \in 0..0 |-> z] \in [0..0 -> S] /\ Begins([i \in 0..0 |-> z], z, G, 0)
    BY DEF Begins
  <2> QED  BY <2>1
<1>2. ASSUME NEW n \in Nat, n \in T PROVE n + 1 \in T
  <2> SUFFICES ASSUME n + 1 <= N
               PROVE  \E f \in [0..(n + 1) -> S] : Begins(f, z, G, n + 1)
    OBVIOUS
  <2>1. PICK f \in [0..n -> S] : Begins(f, z, G, n)
    BY <1>2
  <2>2. n + 1 \in 1..N /\ f[n] \in S
    OBVIOUS
  <2> DEFINE c == G[<<n + 1, f[n]>>]
  <2>3. c \in S
    BY <2>2
  <2> HIDE DEF c
  <2> DEFINE g == [i \in 0..(n + 1) |-> IF i <= n THEN f[i] ELSE c]
  <2>4. g \in [0..(n + 1) -> S]
    BY <2>3
  <2>5. \A i \in 0..n : g[i] = f[i]
    OBVIOUS
  <2>6. g[n + 1] = c
    OBVIOUS
  <2> HIDE DEF g
  <2>7. \A k \in 1..(n + 1) : g[k] = G[<<k, g[k - 1]>>]
    <3> SUFFICES ASSUME NEW k \in 1..(n + 1) PROVE g[k] = G[<<k, g[k - 1]>>]
      OBVIOUS
    <3>1. CASE k = n + 1
      <4>1. k - 1 = n /\ g[n] = f[n]
        BY <2>5, <3>1
      <4> QED  BY <2>6, <3>1, <4>1 DEF c
    <3>2. CASE k # n + 1
      <4>1. k \in 1..n /\ k - 1 \in 0..n /\ k \in 0..n
        BY <3>2
      <4> QED  BY <2>1, <2>5, <4>1 DEF Begins
    <3> QED  BY <3>1, <3>2
  <2>8. g[0] = z
    BY <2>1, <2>5 DEF Begins
  <2> QED  BY <2>4, <2>7, <2>8 DEF Begins
<1> HIDE DEF T
<1>3. N \in T
  BY <1>1, <1>2, Induction
<1> QED  BY <1>3 DEF T

(* The same for all natural numbers at once: the functions up to n and up  *)
(* to n + 1 agree.                                                         *)
Closed(G, S) == \A k \in Nat : \A s \in S : G[<<k, s>>] \in S
Follows(f, z, G) == f[0] = z /\ \A n \in Nat : f[n + 1] = G[<<n + 1, f[n]>>]

LEMMA RecursionNat ==
    ASSUME NEW S, NEW z \in S, NEW G, Closed(G, S)
    PROVE  \E f \in [Nat -> S] : Follows(f, z, G)
<1> DEFINE h(n) == CHOOSE f \in [0..n -> S] : Begins(f, z, G, n)
<1>1. \A n \in Nat : h(n) \in [0..n -> S] /\ Begins(h(n), z, G, n)
  <2> SUFFICES ASSUME NEW n \in Nat PROVE h(n) \in [0..n -> S] /\ Begins(h(n), z, G, n)
    OBVIOUS
  <2>1. \E f \in [0..n -> S] : Begins(f, z, G, n)
    <3>1. ASSUME NEW k \in 1..n, NEW s \in S PROVE G[<<k, s>>] \in S
      <4>1. k \in Nat
        OBVIOUS
      <4> QED  BY <4>1 DEF Closed
    <3> QED  BY <3>1, Recursion
  <2> QED  BY <2>1
<1> HIDE DEF h
<1>2. \A n \in Nat : h(n + 1)[n] = h(n)[n]
  <2> SUFFICES ASSUME NEW n \in Nat PROVE h(n + 1)[n] = h(n)[n]
    OBVIOUS
  <2> DEFINE T == {k \in Nat : k <= n => h(n + 1)[k] = h(n)[k]}
  <2>1. 0 \in T
    BY <1>1 DEF Begins
  <2>2. ASSUME NEW k \in Nat, k \in T PROVE k + 1 \in T
    <3> SUFFICES ASSUME k + 1 <= n PROVE h(n + 1)[k + 1] = h(n)[k + 1]
      OBVIOUS
    <3>1. k + 1 \in 1..n /\ k + 1 \in 1..(n + 1) /\ (k + 1) - 1 = k /\ n + 1 \in Nat
      OBVIOUS
    <3>2. h(n + 1)[k] = h(n)[k]
      BY <2>2
    <3>3. h(n)[k + 1] = G[<<k + 1, h(n)[k]>>]
      BY <1>1, <3>1 DEF Begins
    <3>4. h(n + 1)[k + 1] = G[<<k + 1, h(n + 1)[k]>>]
      BY <1>1, <3>1 DEF Begins
    <3> QED  BY <3>2, <3>3, <3>4
  <2> HIDE DEF T
  <2>3. n \in T
    BY <2>1, <2>2, Induction
  <2> QED  BY <2>3 DEF T
<1> DEFINE f == [n \in Nat |-> h(n)[n]]
<1>3. f \in [Nat -> S]
  BY <1>1
<1>4. f[0] = z
  BY <1>1 DEF Begins
<1>5. ASSUME NEW n \in Nat PROVE f[n + 1] = G[<<n + 1, f[n]>>]
  <2>1. n + 1 \in 1..(n + 1) /\ (n + 1) - 1 = n /\ n + 1 \in Nat
    OBVIOUS
  <2>2. h(n + 1)[n + 1] = G[<<n + 1, h(n + 1)[n]>>]
    BY <1>1, <2>1 DEF Begins
  <2> QED  BY <1>2, <2>1, <2>2
<1> QED  BY <1>3, <1>4, <1>5 DEF Follows

(* Induction from all smaller numbers.                                     *)
LEMMA StrongInduction ==
    ASSUME NEW T, \A n \in Nat : (\A m \in 0..(n - 1) : m \in T) => n \in T
    PROVE  \A n \in Nat : n \in T
<1> DEFINE U == {n \in Nat : n \notin T}
<1>1. ASSUME U # {} PROVE FALSE
  <2>1. PICK x \in U : \A y \in U : x <= y
    BY <1>1, LeastNat
  <2>2. x \in Nat /\ x \notin T
    OBVIOUS
  <2>3. ASSUME NEW m \in 0..(x - 1) PROVE m \in T
    <3>1. m \in Nat /\ ~ (x <= m)
      BY <2>2
    <3> QED  BY <2>1, <3>1
  <2> QED  BY <2>2, <2>3
<1> QED  BY <1>1

(* A function is defined by its values at last ones and a rule for the     *)
(* others from a smaller one: the n-th approximation is right where the    *)
(* size is below n.                                                        *)
Descends(D, last, next, size) ==
    \A d \in D : d \notin last => next[d] \in D /\ size[next[d]] < size[d]

Descent(f, D, last, next, z, G) ==
    \A d \in D : f[d] = IF d \in last THEN z[d] ELSE G[<<d, f[next[d]]>>]

LEMMA RecursionDown ==
    ASSUME NEW D, NEW S, NEW s0 \in S, NEW size \in [D -> Nat], NEW last, NEW next,
           Descends(D, last, next, size),
           NEW z, \A d \in D : z[d] \in S,
           NEW G, \A d \in D : \A s \in S : G[<<d, s>>] \in S
    PROVE  \E f \in [D -> S] : Descent(f, D, last, next, z, G)
<1> DEFINE A == [D -> S]
           a0 == [d \in D |-> s0]
           More(a) == [d \in D |-> IF d \in last THEN z[d] ELSE G[<<d, a[next[d]]>>]]
           H == [p \in Nat \X A |-> More(p[2])]
<1>1. a0 \in A
  OBVIOUS
<1>2. \A a \in A : More(a) \in A
  BY DEF Descends
<1> HIDE DEF A, a0
<1>3. \A k \in Nat : \A a \in A : H[<<k, a>>] = More(a)
  OBVIOUS
<1>4. Closed(H, A)
  BY <1>2, <1>3 DEF Closed
<1> HIDE DEF H
<1>5. PICK F \in [Nat -> A] : Follows(F, a0, H)
  BY <1>1, <1>4, RecursionNat
<1>6. \A n \in Nat : F[n] \in A /\ F[n + 1] = More(F[n])
  <2> SUFFICES ASSUME NEW n \in Nat PROVE F[n] \in A /\ F[n + 1] = More(F[n])
    OBVIOUS
  <2>1. F[n] \in A /\ n + 1 \in Nat
    OBVIOUS
  <2>2. F[n + 1] = H[<<n + 1, F[n]>>]
    BY <1>5 DEF Follows
  <2> QED  BY <1>3, <2>1, <2>2
<1> DEFINE f == [d \in D |-> F[size[d] + 1][d]]
           Right(n) == \A d \in D : size[d] < n => F[n][d] = f[d]
           T == {n \in Nat : Right(n)}
<1>7. f \in [D -> S]
  <2>1. \A d \in D : size[d] + 1 \in Nat
    OBVIOUS
  <2>2. \A d \in D : F[size[d] + 1] \in [D -> S]
    BY <1>6, <2>1 DEF A
  <2> QED  BY <2>2
<1>8. ASSUME NEW n \in Nat, Right(n), NEW d \in D, size[d] <= n
      PROVE  F[n + 1][d] = IF d \in last THEN z[d] ELSE G[<<d, f[next[d]]>>]
  <2>1. F[n + 1][d] = IF d \in last THEN z[d] ELSE G[<<d, F[n][next[d]]>>]
    BY <1>6
  <2>2. ASSUME d \notin last PROVE F[n][next[d]] = f[next[d]]
    <3>1. next[d] \in D /\ size[next[d]] < size[d]
      BY <2>2 DEF Descends
    <3>2. size[next[d]] \in Nat /\ size[d] \in Nat
      BY <3>1
    <3>3. size[next[d]] < n
      BY <1>8, <3>1, <3>2
    <3> QED  BY <1>8, <3>1, <3>3
  <2> QED  BY <2>1, <2>2
<1> HIDE DEF f
<1>9. ASSUME NEW n \in Nat, \A m \in 0..(n - 1) : m \in T PROVE n \in T
  <2> SUFFICES ASSUME NEW d \in D, size[d] < n PROVE F[n][d] = f[d]
    OBVIOUS
  <2> DEFINE k == size[d]
  <2>1. /\ k \in Nat /\ k \in 0..(n - 1) /\ n - 1 \in 0..(n - 1) /\ (n - 1) + 1 = n
        /\ k <= n - 1 /\ k <= k /\ n - 1 \in Nat
    OBVIOUS
  <2>2. Right(k) /\ Right(n - 1)
    BY <1>9, <2>1
  <2>3. F[k + 1][d] = IF d \in last THEN z[d] ELSE G[<<d, f[next[d]]>>]
    BY <1>8, <2>1, <2>2
  <2>4. F[(n - 1) + 1][d] = IF d \in last THEN z[d] ELSE G[<<d, f[next[d]]>>]
    BY <1>8, <2>1, <2>2
  <2>5. f[d] = F[k + 1][d]
    BY DEF f
  <2> QED  BY <2>1, <2>3, <2>4, <2>5
<1>10. \A n \in Nat : n \in T
  <2> HIDE DEF T
  <2> QED  BY <1>9, StrongInduction
<1>11. ASSUME NEW d \in D PROVE f[d] = IF d \in last THEN z[d] ELSE G[<<d, f[next[d]]>>]
  <2>1. size[d] \in Nat /\ size[d] <= size[d]
    OBVIOUS
  <2>2. Right(size[d])
    BY <1>10, <2>1
  <2>3. F[size[d] + 1][d] = IF d \in last THEN z[d] ELSE G[<<d, f[next[d]]>>]
    BY <1>8, <2>1, <2>2
  <2> QED  BY <2>3 DEF f
<1> QED  BY <1>7, <1>11 DEF Descent

(* The value of digits, the first the most significant.                    *)
Positional(d, B) ==
    LET prefix[k \in 0..Len(d)] == IF k = 0 THEN 0 ELSE B * prefix[k - 1] + d[k]
    IN  prefix[Len(d)]

HighSums(h, d, B) ==
    /\ h \in [0..Len(d) -> Nat] /\ h[0] = 0
    /\ \A k \in 1..Len(d) : h[k] = B * h[k - 1] + d[k]

LEMMA PositionalSums ==
    ASSUME NEW d \in Seq(Nat), NEW B \in Nat
    PROVE  \E h : HighSums(h, d, B) /\ Positional(d, B) = h[Len(d)]
<1> DEFINE N == Len(d)
           G == [p \in (1..N) \X Nat |-> B * p[2] + d[p[1]]]
           top == CHOOSE f : f = [k \in 0..N |-> IF k = 0 THEN 0
                                                 ELSE B * f[k - 1] + d[k]]
<1>1. N \in Nat /\ \A k \in 1..N : d[k] \in Nat
  OBVIOUS
<1>2. Positional(d, B) = top[N]
  BY DEF Positional
<1> HIDE DEF N
<1>3. \A k \in 1..N : \A s \in Nat :
         G[<<k, s>>] = B * s + d[k] /\ G[<<k, s>>] \in Nat
  <2> SUFFICES ASSUME NEW k \in 1..N, NEW s \in Nat
               PROVE  G[<<k, s>>] = B * s + d[k] /\ G[<<k, s>>] \in Nat
    OBVIOUS
  <2>1. G[<<k, s>>] = B * s + d[k]
    OBVIOUS
  <2>2. \A a, b \in Nat : b * s + a \in Nat
    OBVIOUS
  <2> QED  BY <1>1, <2>1, <2>2
<1> HIDE DEF G
<1>4. PICK f \in [0..N -> Nat] : Begins(f, 0, G, N)
  <2> DEFINE S == Nat
             z == 0
  <2>1. z \in S /\ \A k \in 1..N : \A s \in S : G[<<k, s>>] \in S
    BY <1>3
  <2> HIDE DEF S, z
  <2>2. \E f \in [0..N -> S] : Begins(f, z, G, N)
    BY <1>1, <2>1, Recursion
  <2> QED  BY <2>2 DEF S, z
<1>5. f = [k \in 0..N |-> IF k = 0 THEN 0 ELSE B * f[k - 1] + d[k]]
  <2>1. ASSUME NEW k \in 0..N
        PROVE  f[k] = IF k = 0 THEN 0 ELSE B * f[k - 1] + d[k]
    <3>1. CASE k = 0
      BY <1>4, <3>1 DEF Begins
    <3>2. CASE k # 0
      <4>1. k \in 1..N /\ k - 1 \in 0..N
        BY <1>1, <3>2
      <4> QED  BY <1>3, <1>4, <3>2, <4>1 DEF Begins
    <3> QED  BY <3>1, <3>2
  <2> QED  BY <2>1
<1>6. top = [k \in 0..N |-> IF k = 0 THEN 0 ELSE B * top[k - 1] + d[k]]
  BY <1>5
<1> HIDE DEF top
<1>7. top[0] = 0 /\ \A k \in 1..N : top[k] = B * top[k - 1] + d[k]
  <2>1. 0 \in 0..N /\ \A k \in 1..N : k \in 0..N /\ k # 0
    BY <1>1
  <2> QED  BY <1>6, <2>1
<1> DEFINE T == {k \in Nat : k <= N => top[k] \in Nat}
<1>8. 0 \in T
  BY <1>7
<1>9. ASSUME NEW k \in Nat, k \in T PROVE k + 1 \in T
  <2> SUFFICES ASSUME k + 1 <= N PROVE top[k + 1] \in Nat
    OBVIOUS
  <2>1. k + 1 \in 1..N /\ (k + 1) - 1 = k
    BY <1>1
  <2>2. top[k + 1] = B * top[k] + d[k + 1]
    BY <1>7, <2>1
  <2>3. top[k] \in Nat
    BY <1>1, <1>9
  <2>4. d[k + 1] \in Nat
    BY <1>1, <2>1
  <2>5. \A s, a, b \in Nat : b * s + a \in Nat
    OBVIOUS
  <2> QED  BY <2>2, <2>3, <2>4, <2>5
<1> HIDE DEF T
<1>10. \A k \in Nat : k \in T
  BY <1>8, <1>9, Induction
<1>11. \A k \in 0..N : top[k] \in Nat
  BY <1>1, <1>10 DEF T
<1>12. top \in [0..N -> Nat]
  BY <1>6, <1>11
<1>13. HighSums(top, d, B)
  BY <1>7, <1>12 DEF HighSums, N
<1> QED  BY <1>2, <1>13 DEF N

-----------------------------------------------------------------------------
(* The powers of Base.                                                     *)
LEMMA Powers ==
    /\ Power \in [Nat -> Nat] /\ Power[0] = 1
    /\ \A n \in Nat : Power[n + 1] = Base * Power[n] /\ Power[n] >= 1
<1> DEFINE G == [p \in Nat \X Nat |-> Base * p[2]]
<1>1. Base \in Nat /\ Base >= 1
  BY BaseAssumption
<1>2. \A k \in Nat : \A s \in Nat : G[<<k, s>>] = Base * s /\ G[<<k, s>>] \in Nat
  BY <1>1
<1> HIDE DEF G
<1>3. PICK f \in [Nat -> Nat] : Follows(f, 1, G)
  <2> DEFINE S == Nat
             z == 1
  <2>1. z \in S /\ Closed(G, S)
    BY <1>2 DEF Closed
  <2> HIDE DEF S, z
  <2>2. \E f \in [Nat -> S] : Follows(f, z, G)
    BY <2>1, RecursionNat
  <2> QED  BY <2>2 DEF S, z
<1>4. f = [n \in Nat |-> IF n = 0 THEN 1 ELSE Base * f[n - 1]]
  <2>1. ASSUME NEW n \in Nat PROVE f[n] = IF n = 0 THEN 1 ELSE Base * f[n - 1]
    <3>1. CASE n = 0
      BY <1>3, <3>1 DEF Follows
    <3>2. CASE n # 0
      <4>1. n - 1 \in Nat /\ (n - 1) + 1 = n
        BY <3>2
      <4>2. f[(n - 1) + 1] = G[<<(n - 1) + 1, f[n - 1]>>] /\ f[n - 1] \in Nat
        BY <1>3, <4>1 DEF Follows
      <4>3. G[<<n, f[n - 1]>>] = Base * f[n - 1]
        BY <1>2, <4>2
      <4> QED  BY <3>2, <4>1, <4>2, <4>3
    <3> QED  BY <3>1, <3>2
  <2> QED  BY <2>1
<1>5. Power = [n \in Nat |-> IF n = 0 THEN 1 ELSE Base * Power[n - 1]]
  BY <1>4 DEF Power
<1>6. Power[0] = 1 /\ \A n \in Nat : Power[n + 1] = Base * Power[n]
  <2>1. \A n \in Nat : n + 1 \in Nat /\ n + 1 # 0 /\ (n + 1) - 1 = n
    OBVIOUS
  <2> QED  BY <1>5, <2>1
<1> DEFINE T == {n \in Nat : Power[n] \in Nat /\ Power[n] >= 1}
<1>7. 0 \in T
  BY <1>6
<1>8. ASSUME NEW n \in Nat, n \in T PROVE n + 1 \in T
  <2>1. Power[n + 1] = Base * Power[n] /\ Power[n] \in Nat /\ Power[n] >= 1
    BY <1>6, <1>8
  <2>2. \A p \in Nat : p >= 1 => Base * p \in Nat /\ Base * p >= 1
    BY <1>1
  <2> QED  BY <2>1, <2>2
<1> HIDE DEF T
<1>9. \A n \in Nat : n \in T
  BY <1>7, <1>8, Induction
<1>10. \A n \in Nat : Power[n] \in Nat /\ Power[n] >= 1
  BY <1>9 DEF T
<1> QED  BY <1>5, <1>6, <1>10

(* The sums that HostUnsigned and Unsigned make, place by place.           *)
LowSums(v, d) ==
    /\ v \in [0..Len(d) -> Nat] /\ v[0] = 0
    /\ \A k \in 1..Len(d) : v[k] = v[k - 1] + d[k] * Power[k - 1]

LEMMA HostUnsignedSums ==
    ASSUME NEW d \in Seq(Byte)
    PROVE  \E v : LowSums(v, d) /\ HostUnsigned(d) = v[Len(d)]
<1> DEFINE N == Len(d)
           G == [p \in (1..N) \X Nat |-> p[2] + d[p[1]] * Power[p[1] - 1]]
           low == CHOOSE f : f = [k \in 0..N |-> IF k = 0 THEN 0
                                                 ELSE f[k - 1] + d[k] * Power[k - 1]]
<1>1. N \in Nat /\ \A k \in 1..N : d[k] \in Nat /\ Power[k - 1] \in Nat
  <2>1. Byte \subseteq Nat
    BY BaseAssumption DEF Byte
  <2>2. \A k \in 1..N : d[k] \in Byte
    <3> HIDE DEF Byte
    <3> QED  OBVIOUS
  <2>3. \A k \in 1..N : k - 1 \in Nat
    OBVIOUS
  <2>4. N \in Nat
    OBVIOUS
  <2> HIDE DEF N
  <2>5. ASSUME NEW k \in 1..N PROVE d[k] \in Nat /\ Power[k - 1] \in Nat
    <3>1. d[k] \in Nat
      BY <2>1, <2>2, Zenon
    <3>2. Power[k - 1] \in Nat
      BY <2>3, Powers
    <3> QED  BY <3>1, <3>2
  <2> QED  BY <2>4, <2>5
<1>2. HostUnsigned(d) = low[N]
  BY DEF HostUnsigned
<1> HIDE DEF N
<1>3. \A k \in 1..N : \A s \in Nat :
         G[<<k, s>>] = s + d[k] * Power[k - 1] /\ G[<<k, s>>] \in Nat
  <2> SUFFICES ASSUME NEW k \in 1..N, NEW s \in Nat
               PROVE  G[<<k, s>>] = s + d[k] * Power[k - 1] /\ G[<<k, s>>] \in Nat
    OBVIOUS
  <2>1. G[<<k, s>>] = s + d[k] * Power[k - 1]
    OBVIOUS
  <2>2. \A a, b \in Nat : s + a * b \in Nat
    OBVIOUS
  <2> QED  BY <1>1, <2>1, <2>2
<1> HIDE DEF G
<1>4. PICK f \in [0..N -> Nat] : Begins(f, 0, G, N)
  <2> DEFINE S == Nat
             z == 0
  <2>1. z \in S /\ \A k \in 1..N : \A s \in S : G[<<k, s>>] \in S
    BY <1>3
  <2> HIDE DEF S, z
  <2>2. \E f \in [0..N -> S] : Begins(f, z, G, N)
    BY <1>1, <2>1, Recursion
  <2> QED  BY <2>2 DEF S, z
<1>5. f = [k \in 0..N |-> IF k = 0 THEN 0 ELSE f[k - 1] + d[k] * Power[k - 1]]
  <2>1. ASSUME NEW k \in 0..N
        PROVE  f[k] = IF k = 0 THEN 0 ELSE f[k - 1] + d[k] * Power[k - 1]
    <3>1. CASE k = 0
      BY <1>4, <3>1 DEF Begins
    <3>2. CASE k # 0
      <4>1. k \in 1..N /\ k - 1 \in 0..N
        BY <1>1, <3>2
      <4> QED  BY <1>3, <1>4, <3>2, <4>1 DEF Begins
    <3> QED  BY <3>1, <3>2
  <2> QED  BY <2>1
<1>6. low = [k \in 0..N |-> IF k = 0 THEN 0 ELSE low[k - 1] + d[k] * Power[k - 1]]
  BY <1>5
<1> HIDE DEF low
<1>7. low[0] = 0 /\ \A k \in 1..N : low[k] = low[k - 1] + d[k] * Power[k - 1]
  <2>1. 0 \in 0..N /\ \A k \in 1..N : k \in 0..N /\ k # 0
    BY <1>1
  <2> QED  BY <1>6, <2>1
<1> DEFINE T == {k \in Nat : k <= N => low[k] \in Nat}
<1>8. 0 \in T
  BY <1>7
<1>9. ASSUME NEW k \in Nat, k \in T PROVE k + 1 \in T
  <2> SUFFICES ASSUME k + 1 <= N PROVE low[k + 1] \in Nat
    OBVIOUS
  <2>1. k + 1 \in 1..N /\ (k + 1) - 1 = k
    BY <1>1
  <2>2. low[k + 1] = low[k] + d[k + 1] * Power[k]
    BY <1>7, <2>1
  <2>3. low[k] \in Nat
    BY <1>1, <1>9
  <2>4. d[k + 1] \in Nat /\ Power[k] \in Nat
    BY <1>1, <2>1
  <2>5. \A s, a, b \in Nat : s + a * b \in Nat
    OBVIOUS
  <2> QED  BY <2>2, <2>3, <2>4, <2>5
<1> HIDE DEF T
<1>10. \A k \in Nat : k \in T
  BY <1>8, <1>9, Induction
<1>11. \A k \in 0..N : low[k] \in Nat
  BY <1>1, <1>10 DEF T
<1>12. low \in [0..N -> Nat]
  BY <1>6, <1>11
<1>13. LowSums(low, d)
  BY <1>7, <1>12 DEF LowSums, N
<1> QED  BY <1>2, <1>13 DEF N

LEMMA UnsignedSums ==
    ASSUME NEW d \in Seq(Byte)
    PROVE  \E h : HighSums(h, d, Base) /\ Q!Unsigned(d) = h[Len(d)]
<1>1. Q!Unsigned(d) = Positional(d, Base)
  BY DEF Q!Unsigned, Positional
<1>2. d \in Seq(Nat) /\ Base \in Nat
  BY BaseAssumption DEF Byte
<1> QED  BY <1>1, <1>2, PositionalSums

(* htobe and be64toh: a byte string turned round.                          *)
LEMMA Turned ==
    ASSUME NEW d \in Seq(Byte)
    PROVE  LET r == Reverse(d)
           IN  /\ r \in Seq(Byte) /\ Len(r) = Len(d) /\ Reverse(r) = d
               /\ \A i \in 1..Len(d) : r[i] = d[(Len(d) - i) + 1]
<1> DEFINE n == Len(d)
           r == Reverse(d)
<1> HIDE DEF Byte
<1>1. n \in Nat /\ \A i \in 1..n : d[i] \in Byte /\ (n - i) + 1 \in 1..n
  OBVIOUS
<1>2. r = [i \in 1..n |-> d[(n - i) + 1]]
  BY DEF Reverse
<1> HIDE DEF n, r
<1>3. r \in Seq(Byte) /\ Len(r) = n
  BY <1>1, <1>2
<1>4. \A i \in 1..n : r[i] = d[(n - i) + 1]
  BY <1>2
<1>5. Reverse(r) = [i \in 1..n |-> r[(n - i) + 1]]
  BY <1>3 DEF Reverse
<1>6. \A i \in 1..n : r[(n - i) + 1] = d[i]
  <2> SUFFICES ASSUME NEW i \in 1..n PROVE r[(n - i) + 1] = d[i]
    OBVIOUS
  <2> DEFINE j == (n - i) + 1
  <2>1. j \in 1..n /\ (n - j) + 1 = i
    BY <1>1
  <2> HIDE DEF j
  <2> QED  BY <1>4, <2>1 DEF j
<1>7. d = [i \in 1..n |-> d[i]]
  BY DEF n
<1>8. Reverse(r) = d
  BY <1>5, <1>6, <1>7
<1> QED  BY <1>3, <1>4, <1>8 DEF n, r

(* The sum from the most significant byte and the one from the least are   *)
(* the same: after k bytes from the least, what is left is the sum of the  *)
(* others, k places up.                                                    *)
LEMMA BothSums ==
    ASSUME NEW d \in Seq(Byte)
    PROVE  HostUnsigned(Reverse(d)) = Q!Unsigned(d) /\ Q!Unsigned(d) \in Nat
<1> DEFINE n == Len(d)
           r == Reverse(d)
<1>1. /\ r \in Seq(Byte) /\ Len(r) = n /\ n \in Nat
      /\ \A i \in 1..n : r[i] = d[(n - i) + 1]
  BY Turned
<1> HIDE DEF r
<1>2. PICK v : LowSums(v, r) /\ HostUnsigned(r) = v[Len(r)]
  BY <1>1, HostUnsignedSums
<1>3. PICK h : HighSums(h, d, Base) /\ Q!Unsigned(d) = h[Len(d)]
  BY UnsignedSums
<1>4. /\ v \in [0..n -> Nat] /\ v[0] = 0 /\ HostUnsigned(r) = v[n]
      /\ \A k \in 1..n : v[k] = v[k - 1] + r[k] * Power[k - 1]
  BY <1>1, <1>2 DEF LowSums
<1>5. /\ h \in [0..n -> Nat] /\ h[0] = 0 /\ Q!Unsigned(d) = h[n]
      /\ \A k \in 1..n : h[k] = Base * h[k - 1] + d[k]
  BY <1>3 DEF HighSums
<1>a. \A k \in 1..n : d[k] \in Nat
  <2>1. \A k \in 1..n : d[k] \in Byte
    <3> HIDE DEF Byte
    <3> QED  OBVIOUS
  <2>2. Byte \subseteq Nat
    BY BaseAssumption DEF Byte
  <2> HIDE DEF n
  <2> QED  BY <2>1, <2>2, Zenon
<1> HIDE DEF n
<1> DEFINE T == {k \in Nat : k <= n => h[n - k] * Power[k] + v[k] = h[n]}
<1>6. 0 \in T
  <2>1. n - 0 = n /\ n \in 0..n
    BY <1>1
  <2>2. h[n] \in Nat
    BY <1>5, <2>1
  <2>3. h[n - 0] * Power[0] + v[0] = h[n] * 1 + 0
    BY <1>4, <2>1, Powers
  <2> QED  BY <2>2, <2>3
<1>7. ASSUME NEW k \in Nat, k \in T PROVE k + 1 \in T
  <2> SUFFICES ASSUME k + 1 <= n PROVE h[n - (k + 1)] * Power[k + 1] + v[k + 1] = h[n]
    OBVIOUS
  <2> DEFINE m == n - k
             j == n - (k + 1)
  <2>1. /\ k + 1 \in 1..n /\ (k + 1) - 1 = k /\ (n - (k + 1)) + 1 = m /\ m \in 1..n
        /\ m - 1 = j /\ j \in 0..n /\ k \in 0..n
    BY <1>1
  <2>2. h[m] * Power[k] + v[k] = h[n]
    BY <1>1, <1>7
  <2> HIDE DEF m, j
  <2>3. h[m] = Base * h[j] + d[m]
    BY <1>5, <2>1
  <2>4. v[k + 1] = v[k] + d[m] * Power[k]
    BY <1>1, <1>4, <2>1
  <2>5. Power[k + 1] = Base * Power[k]
    BY Powers
  <2>6. h[j] \in Nat /\ d[m] \in Nat /\ v[k] \in Nat /\ Power[k] \in Nat /\ Base \in Nat
    BY <1>4, <1>5, <1>a, <2>1, Powers, BaseAssumption
  <2>7. h[j] * (Base * Power[k]) + (v[k] + d[m] * Power[k])
        = (Base * h[j] + d[m]) * Power[k] + v[k]
    <3> DEFINE hj == h[j]
               dm == d[m]
               vk == v[k]
               pk == Power[k]
    <3>1. hj \in Nat /\ dm \in Nat /\ vk \in Nat /\ pk \in Nat /\ Base \in Nat
      BY <2>6
    <3> HIDE DEF hj, dm, vk, pk
    <3>2. hj * (Base * pk) + (vk + dm * pk) = (Base * hj + dm) * pk + vk
      BY <3>1
    <3> QED  BY <3>2 DEF hj, dm, vk, pk
  <2>8. h[j] * Power[k + 1] + v[k + 1] = h[n]
    BY <2>2, <2>3, <2>4, <2>5, <2>7
  <2> QED  BY <2>8 DEF j
<1> HIDE DEF T
<1>8. n \in T
  BY <1>1, <1>6, <1>7, Induction
<1>9. h[n - n] * Power[n] + v[n] = h[n]
  BY <1>1, <1>8 DEF T
<1>10. v[n] = h[n] /\ h[n] \in Nat
  <2>1. n - n = 0 /\ n \in 0..n
    BY <1>1
  <2>2. v[n] \in Nat /\ h[n] \in Nat /\ Power[n] \in Nat /\ h[n - n] = 0
    BY <1>1, <1>4, <1>5, <2>1, Powers
  <2>3. 0 * Power[n] = 0
    BY <2>2
  <2> QED  BY <1>9, <2>2, <2>3
<1> QED  BY <1>4, <1>5, <1>10 DEF r

(* The integer a Buffer returns is the one the queue's bytes stand for.    *)
LEMMA SameInt ==
    ASSUME NEW d \in Seq(Byte), Len(d) > 0
    PROVE  HostInt(NetworkToHost(d)) = Q!IntOf(d)
<1> DEFINE r == Reverse(d)
           u == Q!Unsigned(d)
           p == Power[Len(d)]
<1>1. HostUnsigned(r) = u /\ u \in Nat /\ Len(r) = Len(d) /\ Len(d) \in Nat
  BY BothSums, Turned
<1>2. p \in Nat /\ \E q \in Nat : p = 2 * q
  <2>1. Len(d) - 1 \in Nat /\ (Len(d) - 1) + 1 = Len(d)
    OBVIOUS
  <2>2. p = Base * Power[Len(d) - 1] /\ Power[Len(d) - 1] \in Nat
    BY <2>1, Powers
  <2>3. PICK c \in Nat : Base = 2 * c
    BY BaseAssumption
  <2>4. \A a \in Nat : (2 * c) * a = 2 * (c * a) /\ c * a \in Nat
    OBVIOUS
  <2> HIDE DEF p
  <2>5. p = 2 * (c * Power[Len(d) - 1]) /\ c * Power[Len(d) - 1] \in Nat
    BY <2>2, <2>3, <2>4
  <2> QED  BY <2>5
<1>3. HostInt(r) = IF u < p \div 2 THEN u ELSE u - p
  BY <1>1 DEF HostInt
<1>4. Q!Power = Power
  BY DEF Q!Power, Power
<1>5. Q!IntOf(d) = IF 2 * u >= p THEN u - p ELSE u
  BY <1>4 DEF Q!IntOf
<1> HIDE DEF u, p
<1>6. u < p \div 2 <=> ~ (2 * u >= p)
  BY <1>1, <1>2
<1> QED  BY <1>3, <1>5, <1>6 DEF NetworkToHost

(* A number divided twice.                                                 *)
LEMMA DividedTwice ==
    ASSUME NEW u \in Nat, NEW a \in Nat, NEW b \in Nat, a > 0, b > 0
    PROVE  (u \div a) \div b = u \div (b * a)
<1> DEFINE q == u \div a
           s == q \div b
           t == u \div (b * a)
<1>1. q \in Nat /\ a * q <= u /\ u < a * (q + 1)
  OBVIOUS
<1> HIDE DEF q
<1>2. s \in Nat /\ b * s <= q /\ q < b * (s + 1)
  BY <1>1
<1> QED  OBVIOUS

(* One digit more of a number leaves what is below the next power.         *)
LEMMA NextDigit ==
    ASSUME NEW u \in Nat, NEW p \in Nat, NEW b \in Nat, p >= 1, b >= 1
    PROVE  (u - p * (u \div p)) + ((u \div p) % b) * p = u - (b * p) * (u \div (b * p))
<1> DEFINE q == u \div p
           s == q \div b
           c == q % b
<1>1. q \in Nat
  OBVIOUS
<1>2. s = u \div (b * p)
  BY DividedTwice
<1> HIDE DEF q
<1>3. s \in Nat /\ c \in Nat /\ q = b * s + c
  BY <1>1
<1> HIDE DEF s, c
<1>4. (u - p * (b * s + c)) + c * p = u - (b * p) * s
  BY <1>3
<1>5. (u - p * q) + c * p = u - (b * p) * s
  BY <1>3, <1>4
<1> QED  BY <1>2, <1>5 DEF q, c

(* The bytes of an integer in the host's memory.                           *)
LEMMA HostBytesAre ==
    ASSUME NEW w \in Nat, NEW x \in Int
    PROVE  LET u == x % Power[w]
               h == HostBytes(w, x)
           IN  /\ u \in Nat /\ u < Power[w]
               /\ h \in Seq(Byte) /\ Len(h) = w
               /\ \A i \in 1..w : h[i] = (u \div Power[i - 1]) % Base
<1> DEFINE p == Power[w]
           u == x % p
           h == HostBytes(w, x)
<1>1. p \in Nat /\ p >= 1 /\ Base \in Nat /\ Base > 0
  BY Powers, BaseAssumption
<1>2. u \in Nat /\ u < p
  <2> HIDE DEF p
  <2> QED  BY <1>1
<1> HIDE DEF u
<1>3. \A i \in 1..w : (u \div Power[i - 1]) % Base \in Byte
  <2> SUFFICES ASSUME NEW i \in 1..w PROVE (u \div Power[i - 1]) % Base \in Byte
    OBVIOUS
  <2> DEFINE q == Power[i - 1]
  <2>1. i - 1 \in Nat
    OBVIOUS
  <2>2. q \in Nat /\ q >= 1
    BY <2>1, Powers
  <2> HIDE DEF q
  <2> DEFINE a == u \div q
  <2>3. a \in Int
    BY <1>2, <2>2
  <2> HIDE DEF a
  <2>4. a % Base \in 0..(Base - 1)
    BY <1>1, <2>3
  <2> QED  BY <2>4 DEF a, q, Byte
<1>4. h = [i \in 1..w |-> (u \div Power[i - 1]) % Base]
  BY DEF HostBytes, u
<1> HIDE DEF h
<1>5. h \in Seq(Byte) /\ Len(h) = w
  <2> HIDE DEF Byte
  <2> QED  BY <1>3, <1>4
<1>6. \A i \in 1..w : h[i] = (u \div Power[i - 1]) % Base
  BY <1>4
<1> QED  BY <1>2, <1>5, <1>6 DEF u, h

(* They have its value: the first k of them are what is left of it below   *)
(* the k-th power.                                                         *)
LEMMA HostBytesValue ==
    ASSUME NEW w \in Nat, NEW x \in Int
    PROVE  HostUnsigned(HostBytes(w, x)) = x % Power[w]
<1> DEFINE u == x % Power[w]
           b == HostBytes(w, x)
<1>1. /\ u \in Nat /\ u < Power[w] /\ b \in Seq(Byte) /\ Len(b) = w
      /\ \A i \in 1..w : b[i] = (u \div Power[i - 1]) % Base
  BY HostBytesAre
<1> HIDE DEF u, b
<1>2. PICK v : LowSums(v, b) /\ HostUnsigned(b) = v[Len(b)]
  BY <1>1, HostUnsignedSums
<1>3. /\ v \in [0..w -> Nat] /\ v[0] = 0 /\ HostUnsigned(b) = v[w]
      /\ \A k \in 1..w : v[k] = v[k - 1] + b[k] * Power[k - 1]
  BY <1>1, <1>2 DEF LowSums
<1> DEFINE T == {k \in Nat : k <= w => v[k] = u - Power[k] * (u \div Power[k])}
<1>4. 0 \in T
  <2>1. \A a \in Nat : 0 = a - 1 * (a \div 1)
    OBVIOUS
  <2> QED  BY <1>1, <1>3, <2>1, Powers
<1>5. ASSUME NEW k \in Nat, k \in T PROVE k + 1 \in T
  <2> SUFFICES ASSUME k + 1 <= w
               PROVE  v[k + 1] = u - Power[k + 1] * (u \div Power[k + 1])
    OBVIOUS
  <2> DEFINE p == Power[k]
  <2>1. k + 1 \in 1..w /\ (k + 1) - 1 = k /\ k <= w
    OBVIOUS
  <2>2. /\ p \in Nat /\ p >= 1 /\ Power[k + 1] = Base * p /\ Base \in Nat /\ Base >= 1
    BY Powers, BaseAssumption
  <2>3. v[k] = u - p * (u \div p)
    BY <1>5, <2>1
  <2>4. b[k + 1] = (u \div p) % Base
    BY <1>1, <2>1
  <2>5. v[k + 1] = v[k] + b[k + 1] * p
    BY <1>3, <2>1
  <2> HIDE DEF p
  <2>6. (u - p * (u \div p)) + ((u \div p) % Base) * p
        = u - (Base * p) * (u \div (Base * p))
    BY <1>1, <2>2, NextDigit
  <2> QED  BY <2>2, <2>3, <2>4, <2>5, <2>6
<1> HIDE DEF T
<1>6. w \in T
  BY <1>4, <1>5, Induction
<1>7. v[w] = u - Power[w] * (u \div Power[w])
  BY <1>6 DEF T
<1>8. u \div Power[w] = 0 /\ Power[w] * 0 = 0
  <2>1. Power[w] \in Nat /\ Power[w] >= 1
    BY Powers
  <2>2. \A p \in Nat : p >= 1 /\ u < p => u \div p = 0 /\ p * 0 = 0
    BY <1>1
  <2> QED  BY <1>1, <2>1, <2>2
<1>9. v[w] = u
  BY <1>1, <1>7, <1>8
<1> QED  BY <1>3, <1>9 DEF u, b

(* The bytes put for an integer stand for it in the queue, its sign        *)
(* included.                                                               *)
LEMMA IntBytes ==
    ASSUME NEW w \in Widths, NEW x \in Ints(w)
    PROVE  LET d == HostToNetwork(HostBytes(w, x))
           IN  /\ d \in Seq(Byte) /\ d \in [1..w -> Byte] /\ Len(d) = w
               /\ Q!IntOf(d) = x
<1> DEFINE p == Power[w]
           u == x % p
           h == HostBytes(w, x)
           d == HostToNetwork(h)
<1>1. w \in Nat /\ w > 0
  BY WidthAssumption
<1>2. p \in Nat /\ p >= 1
  BY <1>1, Powers
<1>3. x \in Int /\ -(p \div 2) <= x /\ x <= p \div 2 - 1
  <2> HIDE DEF p
  <2>1. x \in -(p \div 2)..(p \div 2 - 1)
    BY DEF Ints, p
  <2>2. p \div 2 \in Int
    BY <1>2
  <2> QED  BY <2>1, <2>2
<1>4. h \in Seq(Byte) /\ Len(h) = w /\ HostUnsigned(h) = u
  BY <1>1, <1>3, HostBytesAre, HostBytesValue
<1> HIDE DEF h
<1>5. d \in Seq(Byte) /\ Len(d) = w /\ Reverse(d) = h
  BY <1>4, Turned DEF HostToNetwork
<1> HIDE DEF d
<1>6. d \in [1..w -> Byte]
  <2> HIDE DEF Byte
  <2> QED  BY <1>5
<1>7. Q!Unsigned(d) = u
  BY <1>4, <1>5, BothSums
<1>8. Q!Power = Power
  BY DEF Q!Power, Power
<1>9. Q!IntOf(d) = IF 2 * u >= p THEN u - p ELSE u
  BY <1>5, <1>7, <1>8 DEF Q!IntOf
<1> HIDE DEF p
<1>10. u = IF x >= 0 THEN x ELSE x + p
  BY <1>2, <1>3
<1> HIDE DEF u
<1>11. Q!IntOf(d) = x
  BY <1>2, <1>3, <1>9, <1>10
<1> QED  BY <1>5, <1>6, <1>11 DEF d, h

-----------------------------------------------------------------------------
Buffers == [mem : Seq(Byte), reader : Nat, writer : Nat]

(* A buffer whose indices are in order; retrieveAll needs the vector never *)
(* to be shorter than the prepend area.                                    *)
InOrder(b) ==
    /\ b \in Buffers /\ b.reader <= b.writer /\ b.writer <= Len(b.mem)
    /\ CheapPrepend <= Len(b.mem)

IInv == InOrder(buf)

(* The sizes and the readable bytes of such a buffer.                      *)
LEMMA Sizes ==
    ASSUME NEW b, InOrder(b)
    PROVE  /\ b.mem \in Seq(Byte) /\ b.reader \in Nat /\ b.writer \in Nat
           /\ b.reader <= b.writer /\ b.writer <= Len(b.mem) /\ Len(b.mem) \in Nat
           /\ CheapPrepend \in Nat /\ CheapPrepend <= Len(b.mem)
           /\ Readable(b) \in Nat /\ Writable(b) \in Nat
           /\ b.writer = b.reader + Readable(b)
           /\ Len(b.mem) = b.writer + Writable(b)
           /\ Content(b) \in Seq(Byte) /\ Len(Content(b)) = Readable(b)
           /\ \A i \in 1..Readable(b) : Content(b)[i] = b.mem[b.reader + i]
<1>1. /\ b.mem \in Seq(Byte) /\ b.reader \in Nat /\ b.writer \in Nat
      /\ b.reader <= b.writer /\ b.writer <= Len(b.mem) /\ Len(b.mem) \in Nat
      /\ CheapPrepend \in Nat /\ CheapPrepend <= Len(b.mem)
  BY SizeAssumption DEF InOrder, Buffers
<1>2. /\ Readable(b) \in Nat /\ Writable(b) \in Nat
      /\ b.writer = b.reader + Readable(b) /\ Len(b.mem) = b.writer + Writable(b)
  BY <1>1 DEF Readable, Writable
<1> DEFINE E == Byte
<1> HIDE DEF E
<1>3. \A i \in 1..Readable(b) : b.mem[b.reader + i] \in E
  <2> SUFFICES ASSUME NEW i \in 1..Readable(b) PROVE b.mem[b.reader + i] \in E
    OBVIOUS
  <2>1. b.reader + i \in 1..Len(b.mem)
    BY <1>1, <1>2
  <2>2. b.mem \in Seq(E)
    BY <1>1 DEF E
  <2> QED  BY <2>1, <2>2
<1>4. Content(b) \in Seq(E) /\ Len(Content(b)) = Readable(b)
      /\ \A i \in 1..Readable(b) : Content(b)[i] = b.mem[b.reader + i]
  BY <1>2, <1>3 DEF Content
<1> QED  BY <1>1, <1>2, <1>4 DEF E

(* std::copy writes the data at its place and nothing else.                *)
LEMMA StoreType ==
    ASSUME NEW mem \in Seq(Byte), NEW data \in Seq(Byte), NEW at \in Nat,
           at + Len(data) <= Len(mem)
    PROVE  /\ Store(mem, at, data) \in Seq(Byte)
           /\ Len(Store(mem, at, data)) = Len(mem)
           /\ \A i \in 1..Len(mem) : i <= at \/ i > at + Len(data) => Store(mem, at, data)[i] = mem[i]
           /\ \A i \in 1..Len(data) : Store(mem, at, data)[at + i] = data[i]
<1> DEFINE E == Byte
           n == Len(mem)
           k == Len(data)
           s == Store(mem, at, data)
<1>1. mem \in Seq(E) /\ data \in Seq(E) /\ n \in Nat /\ k \in Nat /\ at + k <= n
  OBVIOUS
<1> HIDE DEF E
<1>2. s = [i \in 1..n |-> IF at < i /\ i <= at + k THEN data[i - at] ELSE mem[i]]
  BY DEF Store
<1>3. \A i \in 1..n : (IF at < i /\ i <= at + k THEN data[i - at] ELSE mem[i]) \in E
  <2> SUFFICES ASSUME NEW i \in 1..n
               PROVE  (IF at < i /\ i <= at + k THEN data[i - at] ELSE mem[i]) \in E
    OBVIOUS
  <2>1. CASE at < i /\ i <= at + k
    <3>1. i - at \in 1..k
      BY <1>1, <2>1
    <3> QED  BY <1>1, <2>1, <3>1
  <2>2. CASE ~ (at < i /\ i <= at + k)
    BY <1>1, <2>2
  <2> QED  BY <2>1, <2>2
<1> HIDE DEF n, k, s
<1>4. s \in Seq(E) /\ Len(s) = n
  BY <1>1, <1>2, <1>3
<1>5. \A i \in 1..n : i <= at \/ i > at + k => s[i] = mem[i]
  BY <1>1, <1>2
<1>6. \A i \in 1..k : s[at + i] = data[i]
  <2> SUFFICES ASSUME NEW i \in 1..k PROVE s[at + i] = data[i]
    OBVIOUS
  <2>1. at + i \in 1..n /\ at < at + i /\ at + i <= at + k /\ (at + i) - at = i
    BY <1>1
  <2> QED  BY <1>2, <2>1
<1> QED  BY <1>4, <1>5, <1>6 DEF E, n, k, s

(* Byte strings that agree at every place are the same.                    *)
LEMMA SameString ==
    ASSUME NEW s \in Seq(Byte), NEW t \in Seq(Byte), Len(s) = Len(t),
           \A i \in 1..Len(s) : s[i] = t[i]
    PROVE  s = t
<1> HIDE DEF Byte
<1> QED  OBVIOUS

(* A part of a byte string.                                                *)
LEMMA SubString ==
    ASSUME NEW s \in Seq(Byte), NEW a \in Nat, NEW n \in Nat, a <= n, n <= Len(s)
    PROVE  LET d == SubSeq(s, a + 1, n)
           IN  /\ d \in Seq(Byte) /\ Len(d) = n - a
               /\ \A i \in 1..(n - a) : d[i] = s[a + i]
<1> HIDE DEF Byte
<1> QED  OBVIOUS

(* One byte string after another.                                          *)
LEMMA ConcatString ==
    ASSUME NEW s \in Seq(Byte), NEW t \in Seq(Byte)
    PROVE  LET d == s \o t
           IN  /\ d \in Seq(Byte) /\ Len(d) = Len(s) + Len(t)
               /\ \A i \in 1..Len(s) : d[i] = s[i]
               /\ \A i \in 1..Len(t) : d[Len(s) + i] = t[i]
<1> HIDE DEF Byte
<1> QED  OBVIOUS

(* makeSpace, when the vector grows: the bytes stay where they are.        *)
LEMMA GrowKeeps ==
    ASSUME NEW b, InOrder(b), NEW len \in Nat, Writable(b) < len
    PROVE  LET r == [b EXCEPT !.mem = Resize(b.mem, b.writer + len)]
           IN  InOrder(r) /\ Content(r) = Content(b) /\ Writable(r) = len
<1> DEFINE m == b.mem
           n == b.writer + len
           z == Resize(m, n)
           r == [b EXCEPT !.mem = z]
<1>1. /\ m \in Seq(Byte) /\ Len(m) \in Nat /\ n \in Nat /\ Len(m) < n /\ b.writer <= Len(m)
      /\ b.reader \in Nat /\ b.writer \in Nat /\ b.reader <= b.writer
      /\ b.writer = b.reader + Readable(b) /\ Readable(b) \in Nat
  BY Sizes
<1>2. /\ z \in Seq(Byte) /\ Len(z) = n /\ \A i \in 1..Len(m) : z[i] = m[i]
  <2> DEFINE E == Byte
  <2>1. 0 \in E /\ m \in Seq(E)
    BY <1>1, BaseAssumption DEF Byte
  <2> HIDE DEF E, n, m
  <2>2. z = [i \in 1..n |-> IF i <= Len(m) THEN m[i] ELSE 0]
    BY DEF Resize
  <2>3. \A i \in 1..n : (IF i <= Len(m) THEN m[i] ELSE 0) \in E
    BY <1>1, <2>1
  <2> HIDE DEF z
  <2>4. z \in Seq(E) /\ Len(z) = n /\ \A i \in 1..Len(m) : z[i] = m[i]
    BY <1>1, <2>2, <2>3
  <2> QED  BY <2>4 DEF E
<1> HIDE DEF z
<1>3. r.mem = z /\ r.reader = b.reader /\ r.writer = b.writer /\ r \in Buffers
  BY <1>2 DEF InOrder, Buffers
<1>4. InOrder(r)
  <2>1. CheapPrepend \in Nat /\ CheapPrepend <= Len(m) /\ CheapPrepend <= Len(z)
    BY <1>1, <1>2, Sizes
  <2>2. b.writer <= Len(z)
    BY <1>1, <1>2
  <2> QED  BY <1>1, <1>3, <2>1, <2>2 DEF InOrder
<1>5. Readable(r) = Readable(b) /\ Writable(r) = len
  BY <1>1, <1>2, <1>3 DEF Readable, Writable
<1>6. \A i \in 1..Readable(b) : Content(r)[i] = Content(b)[i]
  <2> SUFFICES ASSUME NEW i \in 1..Readable(b) PROVE Content(r)[i] = Content(b)[i]
    OBVIOUS
  <2>1. b.reader + i \in 1..Len(m)
    BY <1>1
  <2> QED  BY <1>2, <1>3, <1>5, <2>1 DEF Content
<1>7. Content(r) = Content(b)
  <2> HIDE DEF r
  <2>1. Content(b) \in Seq(Byte) /\ Len(Content(b)) = Readable(b)
    BY Sizes
  <2>2. Content(r) \in Seq(Byte) /\ Len(Content(r)) = Readable(b)
    BY <1>4, <1>5, Sizes
  <2> QED  BY <1>6, <2>1, <2>2, SameString
<1> QED  BY <1>4, <1>5, <1>7 DEF z

(* makeSpace, when the bytes are moved to the front instead: none is       *)
(* overwritten before it is copied.                                        *)
LEMMA MoveKeeps ==
    ASSUME NEW b, InOrder(b), NEW len \in Nat, Writable(b) < len, ~ MustGrow(b, len)
    PROVE  LET r == MoveToFront(b)
           IN  /\ CheapPrepend < b.reader
               /\ InOrder(r) /\ Content(r) = Content(b) /\ Writable(r) >= len
<1> DEFINE m == b.mem
           c == Content(b)
           z == Store(m, CheapPrepend, c)
           r == MoveToFront(b)
<1>1. /\ m \in Seq(Byte) /\ Len(m) \in Nat /\ b.reader \in Nat /\ b.writer \in Nat
      /\ b.writer = b.reader + Readable(b) /\ Readable(b) \in Nat
      /\ Len(m) = b.writer + Writable(b) /\ Writable(b) \in Nat
      /\ c \in Seq(Byte) /\ Len(c) = Readable(b)
  BY Sizes
<1>2. CheapPrepend \in Nat /\ Writable(b) + b.reader >= len + CheapPrepend
  BY <1>1, SizeAssumption DEF MustGrow, Prependable
<1>3. CheapPrepend < b.reader /\ CheapPrepend + Len(c) <= Len(m)
  BY <1>1, <1>2
<1>4. /\ z \in Seq(Byte) /\ Len(z) = Len(m)
      /\ \A i \in 1..Len(c) : z[CheapPrepend + i] = c[i]
  BY <1>1, <1>2, <1>3, StoreType
<1>5. r.mem = z /\ r.reader = CheapPrepend /\ r.writer = CheapPrepend + Readable(b) /\ r \in Buffers
  BY <1>1, <1>2, <1>4 DEF MoveToFront, Buffers
<1> HIDE DEF z, r, c
<1>6. InOrder(r) /\ Readable(r) = Readable(b) /\ Writable(r) >= len
  <2> DEFINE R == Readable(b)
             W == Writable(b)
             L == Len(m)
             P == CheapPrepend
  <2>1. /\ R \in Nat /\ W \in Nat /\ P \in Nat /\ b.reader \in Nat
        /\ L = b.reader + R + W /\ W + b.reader >= len + P
    BY <1>1, <1>2
  <2>2. Readable(r) = (P + R) - P /\ Writable(r) = L - (P + R)
    BY <1>4, <1>5 DEF Readable, Writable
  <2> HIDE DEF R, W, L, P
  <2>3. P <= P + R /\ P + R <= L /\ (P + R) - P = R /\ L - (P + R) >= len
    BY <2>1
  <2> QED  BY <1>4, <1>5, <2>2, <2>3 DEF InOrder, R, L, P
<1>7. \A i \in 1..Readable(b) : Content(r)[i] = c[i]
  BY <1>1, <1>4, <1>5, <1>6 DEF Content
<1>8. Content(r) = c
  BY <1>1, <1>6, <1>7, Sizes, SameString
<1> QED  BY <1>3, <1>6, <1>8 DEF c, r

(* ensureWritableBytes.                                                    *)
LEMMA EnsureKeeps ==
    ASSUME NEW b, InOrder(b), NEW len \in Nat
    PROVE  LET r == EnsureWritable(b, len)
           IN  InOrder(r) /\ Content(r) = Content(b) /\ Writable(r) >= len
<1>1. CASE Writable(b) < len /\ MustGrow(b, len)
  BY <1>1, GrowKeeps DEF EnsureWritable, MakeSpace
<1>2. CASE Writable(b) < len /\ ~ MustGrow(b, len)
  BY <1>2, MoveKeeps DEF EnsureWritable, MakeSpace
<1>3. CASE ~ (Writable(b) < len)
  <2>1. Writable(b) \in Nat
    BY Sizes
  <2> QED  BY <1>3, <2>1 DEF EnsureWritable
<1> QED  BY <1>1, <1>2, <1>3

(* A copy to beginWrite() and hasWritten.                                  *)
LEMMA WrittenKeeps ==
    ASSUME NEW b, InOrder(b), NEW data \in Seq(Byte), Len(data) <= Writable(b)
    PROVE  LET r == Written(b, data)
           IN  /\ InOrder(r) /\ Content(r) = Content(b) \o data
               /\ Writable(r) = Writable(b) - Len(data)
<1> DEFINE m == b.mem
           c == Content(b)
           z == Store(m, b.writer, data)
           r == Written(b, data)
<1>1. /\ m \in Seq(Byte) /\ Len(m) \in Nat /\ b.reader \in Nat /\ b.writer \in Nat
      /\ b.writer = b.reader + Readable(b) /\ Readable(b) \in Nat
      /\ Len(m) = b.writer + Writable(b) /\ Writable(b) \in Nat
      /\ c \in Seq(Byte) /\ Len(c) = Readable(b) /\ Len(data) \in Nat
      /\ \A i \in 1..Readable(b) : c[i] = m[b.reader + i]
  BY Sizes
<1>2. /\ z \in Seq(Byte) /\ Len(z) = Len(m)
      /\ \A i \in 1..Len(m) : i <= b.writer => z[i] = m[i]
      /\ \A i \in 1..Len(data) : z[b.writer + i] = data[i]
  <2>1. b.writer + Len(data) <= Len(m)
    BY <1>1
  <2>2. /\ z \in Seq(Byte) /\ Len(z) = Len(m)
        /\ \A i \in 1..Len(m) : i <= b.writer \/ i > b.writer + Len(data) => z[i] = m[i]
        /\ \A i \in 1..Len(data) : z[b.writer + i] = data[i]
    <3> DEFINE at == b.writer
    <3>1. m \in Seq(Byte) /\ at \in Nat /\ at + Len(data) <= Len(m)
      BY <1>1, <2>1
    <3> HIDE DEF m, at
    <3>2. LET s == Store(m, at, data)
          IN  /\ s \in Seq(Byte) /\ Len(s) = Len(m)
              /\ \A i \in 1..Len(m) : i <= at \/ i > at + Len(data) => s[i] = m[i]
              /\ \A i \in 1..Len(data) : s[at + i] = data[i]
      BY <3>1, StoreType
    <3> QED  BY <3>2 DEF at
  <2> QED  BY <2>2
<1>3. /\ r.mem = z /\ r.reader = b.reader /\ r.writer = b.writer + Len(data) /\ r \in Buffers
  <2>1. b.writer + Len(data) \in Nat
    BY <1>1
  <2> HIDE DEF z
  <2>2. r = [b EXCEPT !.mem = z, !.writer = b.writer + Len(data)]
    BY DEF Written, z
  <2> QED  BY <1>2, <2>1, <2>2 DEF InOrder, Buffers
<1> HIDE DEF z, r, c
<1>4. InOrder(r) /\ Readable(r) = Readable(b) + Len(data)
      /\ Writable(r) = Writable(b) - Len(data)
  <2> DEFINE R == Readable(b)
             W == Writable(b)
             L == Len(m)
             K == Len(data)
             v == b.reader
             w == b.writer
  <2>1. /\ R \in Nat /\ W \in Nat /\ K \in Nat /\ v \in Nat /\ w \in Nat
        /\ w = v + R /\ L = w + W /\ K <= W
    BY <1>1
  <2>2. Readable(r) = (w + K) - v /\ Writable(r) = L - (w + K)
    BY <1>2, <1>3 DEF Readable, Writable
  <2>3. r.reader = v /\ r.writer = w + K /\ Len(r.mem) = L
    BY <1>2, <1>3
  <2> HIDE DEF R, W, L, K, v, w
  <2>4. v <= w + K /\ w + K <= L /\ (w + K) - v = R + K /\ L - (w + K) = W - K
    BY <2>1
  <2>5. CheapPrepend <= L
    BY DEF InOrder, L
  <2> QED  BY <1>3, <2>2, <2>3, <2>4, <2>5 DEF InOrder, R, W, K
<1> DEFINE R == Readable(b)
           K == Len(data)
           d == c \o data
<1>5. d \in Seq(Byte) /\ Len(d) = R + K
      /\ (\A i \in 1..R : d[i] = c[i]) /\ \A i \in 1..K : d[R + i] = data[i]
  <2>1. c \in Seq(Byte) /\ Len(c) = R /\ R \in Nat /\ K \in Nat /\ data \in Seq(Byte)
    BY <1>1
  <2> HIDE DEF Byte, R
  <2> QED  BY <2>1
<1> HIDE DEF R, K, d
<1>a. R \in Nat /\ K \in Nat /\ b.writer = b.reader + R /\ Readable(r) = R + K
      /\ b.writer <= Len(m)
  BY <1>1, <1>4 DEF R, K
<1>6. \A i \in 1..(R + K) : Content(r)[i] = d[i]
  <2> SUFFICES ASSUME NEW i \in 1..(R + K) PROVE Content(r)[i] = d[i]
    OBVIOUS
  <2>1. Content(r)[i] = z[b.reader + i]
    BY <1>3, <1>a DEF Content
  <2>2. CASE i <= R
    <3> DEFINE L == Len(m)
               v == b.reader
               w == b.writer
    <3>a. L \in Nat /\ v \in Nat /\ w = v + R /\ w <= L
      BY <1>1, <1>a
    <3> HIDE DEF L, v, w
    <3>b. v + i \in 1..L /\ v + i <= w /\ i \in 1..R
      BY <1>a, <2>2, <3>a
    <3>1. b.reader + i \in 1..Len(m) /\ b.reader + i <= b.writer /\ i \in 1..R
      BY <3>b DEF L, v, w
    <3>2. c[i] = m[b.reader + i]
      BY <1>1, <3>1 DEF R
    <3> QED  BY <1>2, <1>5, <2>1, <3>1, <3>2
  <2>3. CASE i > R
    <3> DEFINE k == i - R
    <3>1. k \in 1..K /\ b.reader + i = b.writer + k /\ i = R + k
      BY <1>1, <1>a, <2>3
    <3> HIDE DEF k
    <3>2. z[b.writer + k] = data[k]
      BY <1>2, <3>1 DEF K
    <3> QED  BY <1>5, <2>1, <3>1, <3>2
  <2> QED  BY <1>a, <2>2, <2>3
<1>7. Content(r) = d
  <2>1. Content(r) \in Seq(Byte) /\ Len(Content(r)) = R + K
    BY <1>4, <1>a, Sizes
  <2> QED  BY <1>5, <1>6, <2>1, SameString
<1> QED  BY <1>4, <1>7 DEF r, c, d

(* append.                                                                 *)
LEMMA AppendKeeps ==
    ASSUME NEW b, InOrder(b), NEW data \in Seq(Byte)
    PROVE  InOrder(AppendTo(b, data)) /\ Content(AppendTo(b, data)) = Content(b) \o data
<1> DEFINE e == EnsureWritable(b, Len(data))
<1>1. Len(data) \in Nat
  OBVIOUS
<1>2. InOrder(e) /\ Content(e) = Content(b) /\ Writable(e) >= Len(data)
  BY <1>1, EnsureKeeps
<1>3. Writable(e) \in Nat
  BY <1>2, Sizes
<1> HIDE DEF e
<1>4. Len(data) <= Writable(e)
  BY <1>1, <1>2, <1>3
<1>5. InOrder(Written(e, data)) /\ Content(Written(e, data)) = Content(e) \o data
  BY <1>2, <1>4, WrittenKeeps
<1> QED  BY <1>2, <1>5 DEF AppendTo, e

(* retrieve: bytes go from the front of the queue.                         *)
LEMMA RetrieveKeeps ==
    ASSUME NEW b, InOrder(b), NEW len \in Nat, len <= Readable(b)
    PROVE  LET r == RetrieveFrom(b, len)
           IN  InOrder(r) /\ Content(r) = SubSeq(Content(b), len + 1, Len(Content(b)))
<1> DEFINE m == b.mem
           c == Content(b)
           R == Readable(b)
           L == Len(m)
           v == b.reader
           r == RetrieveFrom(b, len)
           d == SubSeq(c, len + 1, R)
<1>1. /\ m \in Seq(Byte) /\ v \in Nat /\ b.writer = v + R /\ R \in Nat /\ L \in Nat
      /\ v + R <= L /\ CheapPrepend <= L /\ c \in Seq(Byte) /\ Len(c) = R /\ \A i \in 1..R : c[i] = m[v + i]
  BY Sizes
<1>2. d \in Seq(Byte) /\ Len(d) = R - len /\ \A i \in 1..(R - len) : d[i] = c[len + i]
  <2>1. c \in Seq(Byte) /\ R \in Nat /\ len <= R /\ R <= Len(c)
    BY <1>1
  <2> HIDE DEF c, R
  <2> QED  BY <2>1, SubString
<1>3. CASE len < R
  <2>1. r = [b EXCEPT !.reader = v + len] /\ v + len \in Nat
    BY <1>1, <1>3 DEF RetrieveFrom
  <2>2. r.mem = m /\ r.reader = v + len /\ r.writer = v + R /\ r \in Buffers
    BY <1>1, <2>1 DEF InOrder, Buffers
  <2>3. Readable(r) = (v + R) - (v + len)
    BY <2>2 DEF Readable
  <2> HIDE DEF m, c, R, L, v, r, d
  <2>4. v + len <= v + R /\ (v + R) - (v + len) = R - len
    BY <1>1, <1>3
  <2>5. InOrder(r)
    BY <1>1, <2>2, <2>4 DEF InOrder, L
  <2>6. \A i \in 1..(R - len) : Content(r)[i] = d[i]
    <3> SUFFICES ASSUME NEW i \in 1..(R - len) PROVE Content(r)[i] = d[i]
      OBVIOUS
    <3>1. len + i \in 1..R /\ (v + len) + i = v + (len + i)
      BY <1>1, <1>3
    <3>2. Content(r)[i] = m[(v + len) + i]
      BY <2>2, <2>3, <2>4 DEF Content
    <3> QED  BY <1>1, <1>2, <3>1, <3>2
  <2>7. Content(r) = d
    <3>1. Content(r) \in Seq(Byte) /\ Len(Content(r)) = R - len
      BY <2>3, <2>4, <2>5, Sizes
    <3> QED  BY <1>2, <2>6, <3>1, SameString
  <2> QED  BY <1>1, <2>5, <2>7 DEF d, c, r
<1>4. CASE ~ (len < R)
  <2>1. r = [b EXCEPT !.reader = CheapPrepend, !.writer = CheapPrepend] /\ CheapPrepend \in Nat
    BY <1>4, SizeAssumption DEF RetrieveFrom, RetrieveAllOf
  <2>2. r.mem = m /\ r.reader = CheapPrepend /\ r.writer = CheapPrepend /\ r \in Buffers
    BY <1>1, <2>1 DEF InOrder, Buffers
  <2>3. len = R
    BY <1>1, <1>4
  <2>4. Readable(r) = 0 /\ Len(d) = 0 /\ R \in Nat
    BY <1>1, <1>2, <2>1, <2>2, <2>3 DEF Readable
  <2> HIDE DEF m, c, R, v, r, d
  <2>5. InOrder(r)
    BY <1>1, <2>1, <2>2 DEF InOrder
  <2>6. Content(r) \in Seq(Byte) /\ Len(Content(r)) = 0
    BY <2>4, <2>5, Sizes
  <2>7. Content(r) = d
    BY <1>2, <2>4, <2>6, SameString
  <2> QED  BY <1>1, <2>5, <2>7 DEF d, c, r
<1> QED  BY <1>3, <1>4

(* unwrite: bytes go from the end of the queue.                            *)
LEMMA UnwriteKeeps ==
    ASSUME NEW b, InOrder(b), NEW len \in Nat, len <= Readable(b)
    PROVE  LET r == [b EXCEPT !.writer = b.writer - len]
           IN  InOrder(r) /\ Content(r) = SubSeq(Content(b), 1, Len(Content(b)) - len)
<1> DEFINE m == b.mem
           c == Content(b)
           R == Readable(b)
           L == Len(m)
           v == b.reader
           r == [b EXCEPT !.writer = b.writer - len]
           d == SubSeq(c, 1, R - len)
<1>1. /\ m \in Seq(Byte) /\ v \in Nat /\ b.writer = v + R /\ R \in Nat /\ L \in Nat
      /\ v + R <= L /\ CheapPrepend <= L /\ c \in Seq(Byte) /\ Len(c) = R
      /\ (\A i \in 1..R : c[i] = m[v + i]) /\ len <= R
  BY Sizes
<1>2. d \in Seq(Byte) /\ Len(d) = R - len /\ \A i \in 1..(R - len) : d[i] = c[i]
  <2>1. 0 <= R - len /\ R - len <= R /\ R - len \in Nat /\ (R - len) - 0 = R - len /\ 0 + 1 = 1
        /\ \A i \in 1..(R - len) : 0 + i = i
    <3> HIDE DEF R
    <3> QED  BY <1>1
  <2>2. LET e == SubSeq(c, 0 + 1, R - len)
        IN  /\ e \in Seq(Byte) /\ Len(e) = (R - len) - 0
            /\ \A i \in 1..((R - len) - 0) : e[i] = c[0 + i]
    <3> HIDE DEF c, R
    <3> QED  BY <1>1, <2>1, SubString
  <2> QED  BY <2>1, <2>2
<1>3. b.writer - len = v + (R - len) /\ b.writer - len \in Nat
  <2> HIDE DEF R, v
  <2> QED  BY <1>1
<1>4. r.mem = m /\ r.reader = v /\ r.writer = v + (R - len) /\ r \in Buffers
  BY <1>3 DEF InOrder, Buffers
<1>5. Readable(r) = (v + (R - len)) - v
  BY <1>4 DEF Readable
<1> HIDE DEF m, c, R, L, v, r, d
<1>6. v <= v + (R - len) /\ v + (R - len) <= L /\ (v + (R - len)) - v = R - len
  BY <1>1
<1>7. InOrder(r)
  BY <1>1, <1>4, <1>6 DEF InOrder, L
<1>8. \A i \in 1..(R - len) : Content(r)[i] = d[i]
  <2> SUFFICES ASSUME NEW i \in 1..(R - len) PROVE Content(r)[i] = d[i]
    OBVIOUS
  <2>1. i \in 1..R
    BY <1>1
  <2> QED  BY <1>1, <1>2, <1>4, <1>5, <1>6, <2>1 DEF Content
<1>9. Content(r) = d
  <2>1. Content(r) \in Seq(Byte) /\ Len(Content(r)) = R - len
    BY <1>5, <1>6, <1>7, Sizes
  <2> QED  BY <1>2, <1>8, <2>1, SameString
<1> QED  BY <1>1, <1>7, <1>9 DEF d, c, r

(* prepend: bytes come before those of the queue.                          *)
LEMMA PrependKeeps ==
    ASSUME NEW b, InOrder(b), NEW data \in Seq(Byte), Len(data) <= Prependable(b)
    PROVE  LET r == PrependTo(b, data)
           IN  InOrder(r) /\ Content(r) = data \o Content(b)
<1> DEFINE m == b.mem
           c == Content(b)
           R == Readable(b)
           K == Len(data)
           L == Len(m)
           v == b.reader
           r == PrependTo(b, data)
           z == Store(m, v - K, data)
           d == data \o c
<1>1. /\ m \in Seq(Byte) /\ v \in Nat /\ b.writer = v + R /\ R \in Nat /\ L \in Nat
      /\ v + R <= L /\ CheapPrepend <= L /\ c \in Seq(Byte) /\ Len(c) = R
      /\ (\A i \in 1..R : c[i] = m[v + i]) /\ K \in Nat /\ K <= v
  BY Sizes DEF Prependable
<1>2. d \in Seq(Byte) /\ Len(d) = K + R /\ (\A i \in 1..K : d[i] = data[i])
      /\ \A i \in 1..R : d[K + i] = c[i]
  <2> HIDE DEF c
  <2>1. /\ d \in Seq(Byte) /\ Len(d) = Len(data) + Len(c)
        /\ \A i \in 1..Len(data) : d[i] = data[i]
        /\ \A i \in 1..Len(c) : d[Len(data) + i] = c[i]
    BY <1>1, ConcatString
  <2> QED  BY <1>1, <2>1
<1>3. v - K \in Nat /\ (v - K) + K = v
  <2> HIDE DEF K, v
  <2> QED  BY <1>1
<1>4. /\ z \in Seq(Byte) /\ Len(z) = L
      /\ \A i \in 1..L : i <= v - K \/ i > v => z[i] = m[i]
      /\ \A i \in 1..K : z[(v - K) + i] = data[i]
  <2> DEFINE at == v - K
  <2>1. at \in Nat /\ at + Len(data) <= Len(m) /\ at + Len(data) = v
    BY <1>1, <1>3
  <2>2. z = Store(m, at, data)
    OBVIOUS
  <2> HIDE DEF at, z
  <2>3. /\ z \in Seq(Byte) /\ Len(z) = Len(m)
        /\ \A i \in 1..Len(m) : i <= at \/ i > at + Len(data) => z[i] = m[i]
        /\ \A i \in 1..Len(data) : z[at + i] = data[i]
    BY <1>1, <2>1, <2>2, StoreType
  <2> QED  BY <2>1, <2>3 DEF at
<1>5. r.mem = z /\ r.reader = v - K /\ r.writer = v + R /\ r \in Buffers
  <2> HIDE DEF z
  <2>1. r = [b EXCEPT !.mem = z, !.reader = v - K]
    BY DEF PrependTo, z
  <2> QED  BY <1>1, <1>3, <1>4, <2>1 DEF InOrder, Buffers
<1>6. Readable(r) = (v + R) - (v - K)
  BY <1>5 DEF Readable
<1> HIDE DEF m, c, R, L, K, v, r, d, z
<1>7. v - K <= v + R /\ (v + R) - (v - K) = K + R
  BY <1>1
<1>8. InOrder(r)
  BY <1>1, <1>4, <1>5, <1>7 DEF InOrder
<1>9. \A i \in 1..(K + R) : Content(r)[i] = d[i]
  <2> SUFFICES ASSUME NEW i \in 1..(K + R) PROVE Content(r)[i] = d[i]
    OBVIOUS
  <2>1. Content(r)[i] = z[(v - K) + i]
    BY <1>5, <1>6, <1>7 DEF Content
  <2>2. CASE i <= K
    <3>1. i \in 1..K
      BY <1>1, <2>2
    <3> QED  BY <1>2, <1>4, <2>1, <3>1
  <2>3. CASE i > K
    <3> DEFINE k == i - K
    <3>1. k \in 1..R /\ i = K + k /\ (v - K) + i = v + k /\ v + k \in 1..L /\ v + k > v
      BY <1>1, <2>3
    <3> HIDE DEF k
    <3>2. z[v + k] = m[v + k] /\ m[v + k] = c[k]
      BY <1>1, <1>4, <3>1
    <3> QED  BY <1>2, <2>1, <3>1, <3>2
  <2> QED  BY <1>1, <2>2, <2>3
<1>10. Content(r) = d
  <2>1. Content(r) \in Seq(Byte) /\ Len(Content(r)) = K + R
    BY <1>6, <1>7, <1>8, Sizes
  <2> QED  BY <1>2, <1>9, <2>1, SameString
<1> QED  BY <1>8, <1>10 DEF d, c, r

(* readFd: what did not fit follows what did.                              *)
LEMMA ReadKeeps ==
    ASSUME NEW b, InOrder(b), NEW data \in Seq(Byte)
    PROVE  InOrder(ReadInto(b, data)) /\ Content(ReadInto(b, data)) = Content(b) \o data
<1> DEFINE w == Writable(b)
           c == Content(b)
           d1 == SubSeq(data, 1, w)
           d2 == SubSeq(data, w + 1, Len(data))
<1>1. w \in Nat /\ Len(data) \in Nat /\ c \in Seq(Byte)
  BY Sizes
<1>2. CASE Len(data) <= w
  BY <1>2, WrittenKeeps DEF ReadInto
<1>3. CASE ~ (Len(data) <= w)
  <2>1. /\ d1 \in Seq(Byte) /\ d2 \in Seq(Byte) /\ Len(d1) = w
        /\ (c \o d1) \o d2 = c \o data
    <3> HIDE DEF Byte, c, w
    <3>1. d1 \in Seq(Byte) /\ d2 \in Seq(Byte) /\ Len(d1) = w /\ Len(d2) = Len(data) - w
          /\ (\A i \in 1..w : d1[i] = data[i])
          /\ \A i \in 1..(Len(data) - w) : d2[i] = data[w + i]
      BY <1>1, <1>3
    <3>2. d1 \o d2 = data
      <4> HIDE DEF d1, d2
      <4>0. w + (Len(data) - w) = Len(data)
        BY <1>1
      <4>1. d1 \o d2 \in Seq(Byte) /\ Len(d1 \o d2) = Len(data)
        BY <3>1, <4>0, ConcatString
      <4>2. \A i \in 1..Len(data) : (d1 \o d2)[i] = data[i]
        <5> SUFFICES ASSUME NEW i \in 1..Len(data) PROVE (d1 \o d2)[i] = data[i]
          OBVIOUS
        <5>1. CASE i <= w
          BY <1>1, <1>3, <3>1, <5>1
        <5>2. CASE i > w
          <6>1. i - w \in 1..(Len(data) - w) /\ w + (i - w) = i
            BY <1>1, <1>3, <5>2
          <6>2. (d1 \o d2)[i] = d2[i - w]
            BY <1>1, <1>3, <3>1, <5>2
          <6> QED  BY <3>1, <6>1, <6>2
        <5>3. i <= w \/ i > w
          BY <1>1
        <5> QED  BY <5>1, <5>2, <5>3
      <4> DEFINE e == d1 \o d2
      <4> HIDE DEF e
      <4>3. e \in Seq(Byte) /\ Len(e) = Len(data) /\ \A i \in 1..Len(data) : e[i] = data[i]
        BY <4>1, <4>2 DEF e
      <4>4. e = data
        BY <4>3, SameString
      <4> QED  BY <4>4 DEF e
    <3>3. (c \o d1) \o d2 = c \o (d1 \o d2)
      <4> HIDE DEF d1, d2
      <4> QED  BY <1>1, <3>1
    <3> QED  BY <3>1, <3>2, <3>3
  <2> HIDE DEF d1, d2
  <2>2. InOrder(Written(b, d1)) /\ Content(Written(b, d1)) = c \o d1
    BY <1>1, <2>1, WrittenKeeps
  <2> DEFINE e == Written(b, d1)
  <2>3. ReadInto(b, data) = AppendTo(e, d2)
    BY <1>3 DEF ReadInto, d1, d2
  <2> HIDE DEF e
  <2>4. InOrder(AppendTo(e, d2)) /\ Content(AppendTo(e, d2)) = Content(e) \o d2
    BY <2>1, <2>2, AppendKeeps DEF e
  <2> QED  BY <2>1, <2>2, <2>3, <2>4 DEF e
<1> QED  BY <1>2, <1>3

(* A new buffer is empty.                                                  *)
LEMMA FreshOK == InOrder(Fresh) /\ Content(Fresh) = <<>>
<1> DEFINE n == CheapPrepend + InitialSize
           m == [i \in 1..n |-> 0]
<1>1. n \in Nat /\ CheapPrepend \in Nat /\ CheapPrepend <= n /\ 0 \in Byte
  BY SizeAssumption, BaseAssumption DEF Byte
<1>2. m \in Seq(Byte) /\ Len(m) = n
  <2> HIDE DEF n, Byte
  <2> QED  BY <1>1
<1>3. Fresh.mem = m /\ Fresh.reader = CheapPrepend /\ Fresh.writer = CheapPrepend
      /\ Fresh \in Buffers
  BY <1>1, <1>2 DEF Fresh, Buffers
<1>4. InOrder(Fresh)
  BY <1>1, <1>2, <1>3 DEF InOrder
<1>5. Readable(Fresh) = 0
  BY <1>1, <1>3 DEF Readable
<1>6. Content(Fresh) \in Seq(Byte) /\ Len(Content(Fresh)) = 0
  BY <1>4, <1>5, Sizes
<1> QED  BY <1>4, <1>6

(* shrink: the bytes are appended to a new buffer.                         *)
LEMMA ShrinkKeeps ==
    ASSUME NEW b, InOrder(b), NEW reserve \in Nat
    PROVE  LET r == AppendTo(EnsureWritable(Fresh, Readable(b) + reserve), Content(b))
           IN  InOrder(r) /\ Content(r) = Content(b)
<1> DEFINE c == Content(b)
           e == EnsureWritable(Fresh, Readable(b) + reserve)
<1>1. Readable(b) + reserve \in Nat /\ c \in Seq(Byte)
  BY Sizes
<1>2. InOrder(e) /\ Content(e) = <<>>
  BY <1>1, FreshOK, EnsureKeeps
<1> HIDE DEF c, e
<1>3. InOrder(AppendTo(e, c)) /\ Content(AppendTo(e, c)) = Content(e) \o c
  BY <1>1, <1>2, AppendKeeps
<1>4. <<>> \o c = c
  BY <1>1
<1> QED  BY <1>2, <1>3, <1>4 DEF c, e

(* What the integers of the vector are read from is what those of the      *)
(* queue are read from.                                                    *)
LEMMA PeekIsIntOf ==
    ASSUME NEW b, InOrder(b), NEW w \in Widths, w <= Readable(b)
    PROVE  PeekOf(b, w) = Q!IntOf(SubSeq(Content(b), 1, w))
<1> DEFINE m == b.mem
           c == Content(b)
           R == Readable(b)
           v == b.reader
           L == Len(m)
           s == SubSeq(m, v + 1, v + w)
           t == SubSeq(c, 1, w)
<1>1. /\ m \in Seq(Byte) /\ v \in Nat /\ R \in Nat /\ L \in Nat /\ v + R <= L
      /\ c \in Seq(Byte) /\ Len(c) = R /\ \A i \in 1..R : c[i] = m[v + i]
  BY Sizes
<1>2. w \in Nat /\ w > 0
  BY WidthAssumption
<1>3. PeekOf(b, w) = HostInt(NetworkToHost(s))
  BY DEF PeekOf
<1>a. w <= R
  OBVIOUS
<1> HIDE DEF m, c, R, v, L
<1>4. s \in Seq(Byte) /\ Len(s) = w /\ \A i \in 1..w : s[i] = m[v + i]
  <2>1. v + w \in Nat /\ v <= v + w /\ v + w <= L /\ (v + w) - v = w
    BY <1>1, <1>2, <1>a
  <2> QED  BY <1>1, <2>1, SubString DEF L
<1>5. t \in Seq(Byte) /\ Len(t) = w /\ \A i \in 1..w : t[i] = c[i]
  <2>1. 0 + 1 = 1 /\ w - 0 = w /\ \A i \in 1..w : 0 + i = i
    BY <1>2
  <2>2. SubSeq(c, 0 + 1, w) \in Seq(Byte) /\ Len(SubSeq(c, 0 + 1, w)) = w - 0
        /\ \A i \in 1..(w - 0) : SubSeq(c, 0 + 1, w)[i] = c[0 + i]
    BY <1>1, <1>2, <1>a, SubString
  <2> QED  BY <2>1, <2>2
<1> HIDE DEF s, t
<1>6. \A i \in 1..w : i \in 1..R
  BY <1>1, <1>2, <1>a
<1>7. s = t
  BY <1>1, <1>4, <1>5, <1>6, SameString
<1>8. HostInt(NetworkToHost(t)) = Q!IntOf(t)
  BY <1>2, <1>5, SameInt
<1> QED  BY <1>3, <1>7, <1>8 DEF c, t

(* A search in the vector between the indices is a search in the queue.    *)
LEMMA SearchIsFound ==
    ASSUME IInv, NEW pattern \in Seq(Byte), NEW start \in Nat
    PROVE  Search(buf, pattern, start) = Q!Found(pattern, start)
<1> DEFINE m == buf.mem
           c == Content(buf)
           R == Readable(buf)
           v == buf.reader
           k == Len(pattern)
           A == {i \in (v + start)..(buf.writer - k) : SubSeq(m, i + 1, i + k) = pattern}
           B == {i \in start..(Len(c) - k) : SubSeq(c, i + 1, i + k) = pattern}
<1>1. /\ m \in Seq(Byte) /\ v \in Nat /\ buf.writer = v + R /\ R \in Nat /\ Len(m) \in Nat
      /\ v + R <= Len(m) /\ c \in Seq(Byte) /\ Len(c) = R /\ k \in Nat
      /\ \A i \in 1..R : c[i] = m[v + i]
  BY Sizes DEF IInv
<1> HIDE DEF m, c, R, v, k
<1>2. \A j \in start..(R - k) : SubSeq(m, v + j + 1, v + j + k) = SubSeq(c, j + 1, j + k)
  <2> SUFFICES ASSUME NEW j \in start..(R - k)
               PROVE  SubSeq(m, v + j + 1, v + j + k) = SubSeq(c, j + 1, j + k)
    OBVIOUS
  <2> DEFINE s == SubSeq(m, v + j + 1, v + j + k)
             t == SubSeq(c, j + 1, j + k)
  <2>1. /\ j \in Nat /\ v + j \in Nat /\ v + j + k \in Nat /\ v + j + k <= Len(m)
        /\ v + j <= v + j + k /\ (v + j + k) - (v + j) = k
        /\ j + k \in Nat /\ j <= j + k /\ j + k <= R /\ (j + k) - j = k
    <3> DEFINE L == Len(m)
    <3>1. v \in Nat /\ R \in Nat /\ L \in Nat /\ v + R <= L /\ k \in Nat
      BY <1>1
    <3> HIDE DEF L
    <3>2. j \in Nat /\ j + k <= R
      BY <3>1
    <3>3. v + j + k <= L
      BY <3>1, <3>2
    <3> QED  BY <3>1, <3>2, <3>3 DEF L
  <2>2. s \in Seq(Byte) /\ Len(s) = k /\ \A i \in 1..k : s[i] = m[(v + j) + i]
    BY <1>1, <2>1, SubString
  <2>3. t \in Seq(Byte) /\ Len(t) = k /\ \A i \in 1..k : t[i] = c[j + i]
    BY <1>1, <2>1, SubString
  <2> HIDE DEF s, t
  <2>4. \A i \in 1..k : s[i] = t[i]
    <3> SUFFICES ASSUME NEW i \in 1..k PROVE s[i] = t[i]
      OBVIOUS
    <3>1. j + i \in 1..R /\ (v + j) + i = v + (j + i)
      BY <1>1, <2>1
    <3> QED  BY <1>1, <2>2, <2>3, <3>1
  <2>5. s = t
    BY <2>2, <2>3, <2>4, SameString
  <2> QED  BY <2>5 DEF s, t
<1>3. \A j \in Int : j \in B <=> v + j \in A
  <2> SUFFICES ASSUME NEW j \in Int PROVE j \in B <=> v + j \in A
    OBVIOUS
  <2>1. j \in start..(R - k) <=> v + j \in (v + start)..((v + R) - k)
    BY <1>1
  <2> QED  BY <1>1, <1>2, <2>1
<1>4. (\A i \in A : i \in Int) /\ \A j \in B : j \in Int
  BY <1>1
<1>5. Search(buf, pattern, start) = IF A = {} THEN -1 ELSE Min(A) - v
  BY DEF Search, m, v, k
<1>6. Q!Found(pattern, start) = IF B = {} THEN -1 ELSE CHOOSE i \in B : \A j \in B : i <= j
  BY DEF Q!Found, c, k
<1> HIDE DEF A, B
<1>7. A = {} <=> B = {}
  <2>1. \A i \in A : i - v \in B
    <3> SUFFICES ASSUME NEW i \in A PROVE i - v \in B
      OBVIOUS
    <3>1. i - v \in Int /\ v + (i - v) = i
      BY <1>1, <1>4
    <3> QED  BY <1>3, <3>1
  <2> QED  BY <1>3, <1>4, <2>1
<1>8. ASSUME A # {}
      PROVE  Min(A) - v = CHOOSE i \in B : \A j \in B : i <= j
  <2>1. A \subseteq Nat
    BY <1>1, <1>4 DEF A
  <2>2. \E x \in A : \A y \in A : x <= y
    BY <1>8, <2>1, LeastNat
  <2> DEFINE a == Min(A)
             b == CHOOSE i \in B : \A j \in B : i <= j
  <2>3. a \in A /\ \A y \in A : a <= y
    BY <2>2 DEF Min
  <2> HIDE DEF a
  <2>4. a - v \in Int /\ v + (a - v) = a /\ a - v \in B
    <3>1. a - v \in Int /\ v + (a - v) = a
      BY <1>1, <1>4, <2>3
    <3> QED  BY <1>3, <2>3, <3>1
  <2>5. \A j \in B : a - v <= j
    <3> SUFFICES ASSUME NEW j \in B PROVE a - v <= j
      OBVIOUS
    <3>1. j \in Int /\ a <= v + j /\ a \in Int
      BY <1>3, <1>4, <2>3
    <3> QED  BY <1>1, <3>1
  <2>6. b \in B /\ \A j \in B : b <= j
    BY <2>4, <2>5
  <2> HIDE DEF b
  <2>7. b = a - v
    <3>1. b <= a - v /\ a - v <= b /\ b \in Int
      BY <1>4, <2>4, <2>5, <2>6
    <3> QED  BY <2>4, <3>1
  <2> QED  BY <2>7 DEF a, b
<1>9. CASE A = {}
  BY <1>5, <1>6, <1>7, <1>9
<1>10. CASE A # {}
  BY <1>5, <1>6, <1>7, <1>8, <1>10
<1> QED  BY <1>9, <1>10

-----------------------------------------------------------------------------
(* Bytes put at the end, read from a descriptor or put at the front.       *)
LEMMA DataSteps ==
    ASSUME IInv, NEW data \in Data, AppendData(data) \/ ReadFd(data) \/ Prepend(data)
    PROVE  IInv' /\ Q!Next
<1>1. InOrder(buf) /\ data \in Seq(Byte)
  BY DataAssumption DEF IInv
<1>2. CASE AppendData(data)
  <2>1. InOrder(buf') /\ Content(buf') = Content(buf) \o data /\ UNCHANGED number
    BY <1>1, <1>2, AppendKeeps DEF AppendData
  <2> QED  BY <2>1 DEF IInv, Q!Next, Q!Put
<1>3. CASE ReadFd(data)
  <2>1. InOrder(buf') /\ Content(buf') = Content(buf) \o data /\ UNCHANGED number
    BY <1>1, <1>3, ReadKeeps DEF ReadFd
  <2> QED  BY <2>1 DEF IInv, Q!Next, Q!Put
<1>4. CASE Prepend(data)
  <2>1. InOrder(buf') /\ Content(buf') = data \o Content(buf) /\ UNCHANGED number
    BY <1>1, <1>4, PrependKeeps DEF Prepend
  <2> QED  BY <2>1 DEF IInv, Q!Next, Q!PutFront
<1> QED  BY <1>2, <1>3, <1>4

(* Bytes taken from the front or the end, and shrink.                      *)
LEMMA SizeSteps ==
    ASSUME IInv, NEW len \in 0..MaxReadable, Retrieve(len) \/ Unwrite(len) \/ Shrink(len)
    PROVE  IInv' /\ [Q!Next]_(Q!vars)
<1>1. InOrder(buf) /\ len \in Nat
  BY SizeAssumption DEF IInv
<1>2. Readable(buf) = Len(Content(buf)) /\ Readable(buf) \in Nat
  BY <1>1, Sizes
<1>3. CASE Retrieve(len)
  <2>1. len \in 0..Len(Content(buf))
    BY <1>1, <1>2, <1>3 DEF Retrieve
  <2>2. InOrder(buf') /\ Content(buf') = SubSeq(Content(buf), len + 1, Len(Content(buf)))
        /\ UNCHANGED number
    BY <1>1, <1>3, RetrieveKeeps DEF Retrieve
  <2> QED  BY <2>1, <2>2 DEF IInv, Q!Next, Q!Take
<1>4. CASE Unwrite(len)
  <2>1. len \in 0..Len(Content(buf))
    BY <1>1, <1>2, <1>4 DEF Unwrite
  <2>2. InOrder(buf') /\ Content(buf') = SubSeq(Content(buf), 1, Len(Content(buf)) - len)
        /\ UNCHANGED number
    BY <1>1, <1>4, UnwriteKeeps DEF Unwrite
  <2> QED  BY <2>1, <2>2 DEF IInv, Q!Next, Q!DropLast
<1>5. CASE Shrink(len)
  <2>1. InOrder(buf') /\ Content(buf') = Content(buf) /\ UNCHANGED number
    BY <1>1, <1>5, ShrinkKeeps DEF Shrink
  <2> QED  BY <2>1 DEF IInv, Q!vars
<1> QED  BY <1>3, <1>4, <1>5

(* Integers put, taken and looked at.                                      *)
LEMMA IntSteps ==
    ASSUME IInv, NEW w \in Widths,
           PeekInt(w) \/ ReadInt(w) \/ \E x \in Ints(w) : AppendInt(w, x) \/ PrependInt(w, x)
    PROVE  IInv' /\ Q!Next
<1>1. InOrder(buf) /\ w \in Nat /\ Readable(buf) = Len(Content(buf)) /\ Readable(buf) \in Nat
  BY WidthAssumption, Sizes DEF IInv
<1>a. ASSUME w <= Readable(buf)
      PROVE  w <= Len(Content(buf)) /\ PeekOf(buf, w) = Q!IntOf(SubSeq(Content(buf), 1, w))
  BY <1>1, <1>a, PeekIsIntOf
<1>2. CASE PeekInt(w)
  <2>1. w <= Readable(buf) /\ number' = PeekOf(buf, w) /\ buf' = buf
    BY <1>2 DEF PeekInt
  <2>2. Content(buf)' = Content(buf) /\ IInv'
    BY <2>1 DEF IInv
  <2>3. Q!PeekInt(w)
    BY <1>a, <2>1, <2>2 DEF Q!PeekInt
  <2> QED  BY <1>a, <2>1, <2>2, <2>3 DEF Q!Next
<1>3. CASE ReadInt(w)
  <2>1. w <= Readable(buf) /\ number' = PeekOf(buf, w) /\ buf' = RetrieveFrom(buf, w)
    BY <1>3 DEF ReadInt
  <2>2. InOrder(buf') /\ Content(buf') = SubSeq(Content(buf), w + 1, Len(Content(buf)))
    BY <1>1, <2>1, RetrieveKeeps
  <2>3. Q!TakeInt(w)
    BY <1>a, <2>1, <2>2 DEF Q!TakeInt, Q!Take
  <2> QED  BY <1>a, <2>1, <2>2, <2>3 DEF IInv, Q!Next
<1>4. CASE \E x \in Ints(w) : AppendInt(w, x) \/ PrependInt(w, x)
  <2>1. PICK x \in Ints(w) : AppendInt(w, x) \/ PrependInt(w, x)
    BY <1>4
  <2> DEFINE d == HostToNetwork(HostBytes(w, x))
  <2>2. d \in Seq(Byte) /\ d \in [1..w -> 0..(Base - 1)] /\ Len(d) = w /\ Q!IntOf(d) = x
    BY IntBytes DEF Byte
  <2>3. CASE AppendInt(w, x)
    <3>1. buf' = AppendTo(buf, d) /\ number' = x
      BY <2>3 DEF AppendInt
    <3> HIDE DEF d
    <3>2. InOrder(buf') /\ Content(buf') = Content(buf) \o d
      BY <1>1, <2>2, <3>1, AppendKeeps
    <3>3. Q!PutInt(w)
      BY <2>2, <3>1, <3>2 DEF Q!PutInt, Q!Put
    <3> QED  BY <3>2, <3>3 DEF IInv, Q!Next
  <2>4. CASE PrependInt(w, x)
    <3>1. buf' = PrependTo(buf, d) /\ number' = x /\ Len(d) <= Prependable(buf)
      BY <2>2, <2>4 DEF PrependInt
    <3> HIDE DEF d
    <3>2. InOrder(buf') /\ Content(buf') = d \o Content(buf)
      BY <1>1, <2>2, <3>1, PrependKeeps
    <3>3. Q!PutInt(w)
      BY <2>2, <3>1, <3>2 DEF Q!PutInt, Q!PutFront
    <3> QED  BY <3>2, <3>3 DEF IInv, Q!Next
  <2> QED  BY <2>1, <2>3, <2>4
<1> QED  BY <1>2, <1>3, <1>4

(* findCRLF and findEOL.                                                   *)
LEMMA FindStep ==
    ASSUME IInv, NEW pattern \in Patterns, NEW start \in 0..MaxReadable, Find(pattern, start)
    PROVE  IInv' /\ Q!Next
<1>1. InOrder(buf) /\ start \in Nat /\ pattern \in Seq(Byte)
  BY SizeAssumption, DataAssumption DEF IInv
<1>2. Readable(buf) = Len(Content(buf)) /\ Readable(buf) \in Nat
  BY <1>1, Sizes
<1>3. start \in 0..Len(Content(buf)) /\ number' = Search(buf, pattern, start) /\ buf' = buf
  BY <1>1, <1>2 DEF Find
<1>4. Search(buf, pattern, start) = Q!Found(pattern, start)
  BY <1>1, SearchIsFound
<1>5. IInv' /\ Content(buf)' = Content(buf)
  BY <1>3 DEF IInv
<1> QED  BY <1>3, <1>4, <1>5 DEF Q!Next, Q!Locate

(* Every operation keeps the indices in order and is a step of the queue.  *)
LEMMA NextKeeps == IInv /\ [Next]_vars => IInv' /\ [Q!Next]_(Q!vars)
<1>1. ASSUME IInv, UNCHANGED vars PROVE IInv' /\ UNCHANGED Q!vars
  BY <1>1 DEF IInv, vars, Q!vars
<1>2. ASSUME IInv, Next PROVE IInv' /\ [Q!Next]_(Q!vars)
  BY <1>2, DataSteps, SizeSteps, IntSteps, FindStep DEF Next
<1> QED  BY <1>1, <1>2

(* InOrder is inductive: no sequence of calls within their documented      *)
(* preconditions, overflow reads included, takes the indices out of order. *)
THEOREM Invariance == Spec => []IInv
<1>1. Init => IInv
  BY FreshOK DEF Init, IInv
<1> QED  BY <1>1, NextKeeps, PTL DEF Spec

(* 0 <= readerIndex <= writerIndex <= size, and makeSpace finds room, by   *)
(* growing or by moving bytes towards the front, for any number of bytes.  *)
THEOREM IndexOrderHolds == Spec => []IndexOrder
<1>1. IInv => IndexOrder
  <2> SUFFICES ASSUME IInv PROVE IndexOrder
    OBVIOUS
  <2>1. InOrder(buf) /\ MaxReadable \in Nat
    BY SizeAssumption DEF IInv
  <2>2. /\ buf.mem \in Seq(Byte) /\ buf.reader \in Nat /\ buf.writer \in Nat
        /\ buf.reader <= buf.writer /\ buf.writer <= Len(buf.mem)
    BY <2>1, Sizes
  <2>3. ASSUME NEW len \in 0..MaxReadable, Writable(buf) < len
        PROVE  /\ MustGrow(buf, len) \/ CheapPrepend < buf.reader
               /\ Writable(MakeSpace(buf, len)) >= len
    <3>1. len \in Nat
      BY <2>1
    <3>2. CASE MustGrow(buf, len)
      <4>1. Writable(MakeSpace(buf, len)) = len
        BY <2>1, <2>3, <3>1, <3>2, GrowKeeps DEF MakeSpace
      <4> QED  BY <3>1, <3>2, <4>1
    <3>3. CASE ~ MustGrow(buf, len)
      BY <2>1, <2>3, <3>1, <3>3, MoveKeeps DEF MakeSpace
    <3> QED  BY <3>2, <3>3
  <2> QED  BY <2>2, <2>3 DEF IndexOrder
<1> QED  BY <1>1, Invariance, PTL

(* Buffer implements ByteQueue: seen through Content, growing, moving,     *)
(* shrinking and reading through the stack buffer never lose, repeat or    *)
(* reorder a byte, integers of every width travel most significant byte    *)
(* first and come back with their sign, and a search answers for the       *)
(* readable bytes alone.                                                   *)
THEOREM RefinesByteQueue == Spec => ImplementsByteQueue
<1>1. Init => Q!Init
  BY FreshOK DEF Init, Q!Init
<1> QED  BY <1>1, NextKeeps, Invariance, PTL DEF Spec, ImplementsByteQueue, Q!Spec

-----------------------------------------------------------------------------
(* The table of digits holds the digit of a remainder of either sign.      *)
LEMMA ZeroIs ==
    ASSUME NEW l \in -9..9
    PROVE  Zero(l) = (IF l < 0 THEN -l ELSE l) /\ Zero(l) \in 0..9
<1> DEFINE g == digits
<1>1. /\ g[1] = 9 /\ g[2] = 8 /\ g[3] = 7 /\ g[4] = 6 /\ g[5] = 5 /\ g[6] = 4 /\ g[7] = 3
      /\ g[8] = 2 /\ g[9] = 1 /\ g[10] = 0 /\ g[11] = 1 /\ g[12] = 2 /\ g[13] = 3
      /\ g[14] = 4 /\ g[15] = 5 /\ g[16] = 6 /\ g[17] = 7 /\ g[18] = 8 /\ g[19] = 9
  BY DEF digits
<1> HIDE DEF g
<1>2. \/ l = -9 \/ l = -8 \/ l = -7 \/ l = -6 \/ l = -5 \/ l = -4 \/ l = -3 \/ l = -2
      \/ l = -1 \/ l = 0 \/ l = 1 \/ l = 2 \/ l = 3 \/ l = 4 \/ l = 5 \/ l = 6 \/ l = 7
      \/ l = 8 \/ l = 9
  OBVIOUS
<1>3. Zero(l) = g[10 + l]
  BY DEF Zero, g
<1> QED  BY <1>1, <1>2, <1>3

(* C++ division by ten: the digit is that of the remainder, and what is    *)
(* left is smaller.                                                        *)
Abs(i) == IF i < 0 THEN -i ELSE i

LEMMA Division ==
    ASSUME NEW i \in Int
    PROVE  LET q == Quotient(i, 10)
               c == Zero(Remainder(i, 10))
           IN  /\ q \in Int /\ c \in 0..9 /\ Abs(i) = 10 * Abs(q) + c
               /\ Abs(i) \in Nat /\ Abs(q) \in Nat /\ (i # 0 => Abs(q) < Abs(i))
<1> DEFINE q == Quotient(i, 10)
           r == Remainder(i, 10)
<1>1. q = IF i >= 0 THEN i \div 10 ELSE -((-i) \div 10)
  BY DEF Quotient
<1>2. r = i - 10 * q
  BY DEF Remainder
<1> HIDE DEF q, r
<1>3. CASE i >= 0
  <2>1. q \in Int /\ q >= 0 /\ r \in 0..9 /\ i = 10 * q + r /\ (i # 0 => q < i)
    BY <1>1, <1>2, <1>3
  <2>2. r \in -9..9 /\ ~ (r < 0)
    BY <2>1
  <2>3. Zero(r) = r
    BY <2>2, ZeroIs
  <2> QED  BY <1>3, <2>1, <2>3 DEF Abs, q, r
<1>4. CASE i < 0
  <2> DEFINE m == (-i) \div 10
  <2>1. m \in Int /\ m >= 0 /\ -i - 10 * m \in 0..9 /\ m < -i
    BY <1>4
  <2> HIDE DEF m
  <2>2. q = -m
    BY <1>1, <1>4 DEF m
  <2>3. r \in -9..0 /\ -r = -i - 10 * m
    BY <1>2, <2>1, <2>2
  <2>4. Zero(r) = -r
    <3>1. r \in -9..9 /\ (r < 0 \/ r = 0)
      BY <2>3
    <3> QED  BY <3>1, ZeroIs
  <2>5. Abs(q) = m /\ Abs(i) = -i
    BY <1>4, <2>1, <2>2 DEF Abs
  <2>6. q \in Int /\ -r \in 0..9 /\ -i = 10 * m + -r
    BY <2>1, <2>2, <2>3
  <2> QED  BY <1>4, <2>1, <2>4, <2>5, <2>6 DEF q, r
<1> QED  BY <1>3, <1>4

(* The digits of a number from the last to the first: quo and dig are what *)
(* a division by the base B leaves and its last digit.                     *)
Divides(D, B, quo, dig, size) ==
    /\ B \in Nat /\ B >= 2 /\ 0 \in D /\ size \in [D -> Nat]
    /\ \A i \in D : /\ size[i] = 0 <=> i = 0
                    /\ quo[i] \in D /\ dig[i] \in 0..(B - 1)
                    /\ size[i] = B * size[quo[i]] + dig[i]

LastFirst(f, D, quo, dig) ==
    \A i \in D : f[i] = <<dig[i]>> \o IF quo[i] = 0 THEN <<>> ELSE f[quo[i]]

LEMMA Smaller ==
    ASSUME NEW D, NEW B, NEW quo, NEW dig, NEW size, Divides(D, B, quo, dig, size),
           NEW i \in D, quo[i] # 0
    PROVE  quo[i] \in D /\ size[quo[i]] \in Nat /\ size[i] \in Nat /\ size[quo[i]] < size[i]
<1> DEFINE a == size[i]
           b == size[quo[i]]
<1>1. /\ B \in Nat /\ B >= 2 /\ quo[i] \in D /\ a \in Nat /\ b \in Nat /\ b # 0
      /\ dig[i] \in 0..(B - 1) /\ a = B * b + dig[i]
  BY DEF Divides
<1> HIDE DEF a, b
<1>2. B * b >= 2 * b
  BY <1>1
<1>3. b < a
  BY <1>1, <1>2
<1> QED  BY <1>1, <1>3 DEF a, b

LEMMA LastFirstExists ==
    ASSUME NEW D, NEW B, NEW quo, NEW dig, NEW size, Divides(D, B, quo, dig, size)
    PROVE  \E f \in [D -> Seq(Nat)] : LastFirst(f, D, quo, dig)
<1> DEFINE S == Seq(Nat)
           last == {i \in D : quo[i] = 0}
           z == [i \in D |-> <<dig[i]>> \o <<>>]
           G == [p \in D \X S |-> <<dig[p[1]]>> \o p[2]]
           s0 == <<>>
<1>1. \A i \in D : quo[i] \in D /\ dig[i] \in Nat
  BY DEF Divides
<1>2. size \in [D -> Nat] /\ Descends(D, last, quo, size)
  <2>1. size \in [D -> Nat]
    BY DEF Divides
  <2>2. ASSUME NEW i \in D, i \notin last PROVE quo[i] \in D /\ size[quo[i]] < size[i]
    BY <2>2, Smaller
  <2> QED  BY <2>1, <2>2 DEF Descends
<1>3. s0 \in S
  OBVIOUS
<1>4. \A i \in D : z[i] = <<dig[i]>> \o <<>> /\ z[i] \in S
  BY <1>1
<1>5. \A i \in D : \A s \in S : G[<<i, s>>] = <<dig[i]>> \o s
  OBVIOUS
<1>6. \A i \in D : \A s \in S : G[<<i, s>>] \in S
  <2> SUFFICES ASSUME NEW i \in D, NEW s \in S PROVE G[<<i, s>>] \in S
    OBVIOUS
  <2>1. <<dig[i]>> \in Seq(Nat) /\ s \in Seq(Nat)
    BY <1>1
  <2>2. <<dig[i]>> \o s \in Seq(Nat)
    BY <2>1
  <2> QED  BY <1>5, <2>2
<1>a. \A i \in D : i \in last <=> quo[i] = 0
  OBVIOUS
<1> HIDE DEF G, z, S, s0, last
<1>7. PICK f \in [D -> S] : Descent(f, D, last, quo, z, G)
  <2>1. \A i \in D : z[i] \in S
    BY <1>4
  <2> QED  BY <1>2, <1>3, <1>6, <2>1, RecursionDown
<1>8. ASSUME NEW i \in D
      PROVE  f[i] = <<dig[i]>> \o IF quo[i] = 0 THEN <<>> ELSE f[quo[i]]
  <2>1. CASE quo[i] = 0
    <3>1. f[i] = z[i]
      BY <1>7, <1>a, <2>1 DEF Descent
    <3> QED  BY <1>4, <2>1, <3>1
  <2>2. CASE quo[i] # 0
    <3>1. f[i] = G[<<i, f[quo[i]]>>] /\ quo[i] \in D
      BY <1>1, <1>7, <1>a, <2>2 DEF Descent
    <3>2. f[quo[i]] \in S
      BY <3>1
    <3> QED  BY <1>5, <2>2, <3>1, <3>2
  <2> QED  BY <2>1, <2>2
<1>9. LastFirst(f, D, quo, dig)
  BY <1>8 DEF LastFirst
<1> QED  BY <1>7, <1>9 DEF S

(* One digit more, and the digits turned round.                            *)
LEMMA PositionalAppend ==
    ASSUME NEW B \in Nat, NEW t \in Seq(Nat), NEW c \in Nat
    PROVE  /\ Positional(t \o <<c>>, B) = B * Positional(t, B) + c
           /\ Positional(t, B) \in Nat
<1> DEFINE n == Len(t)
           e == t \o <<c>>
<1>1. e \in Seq(Nat) /\ Len(e) = n + 1 /\ e[n + 1] = c /\ n \in Nat
  OBVIOUS
<1>2. \A k \in 1..n : e[k] = t[k]
  OBVIOUS
<1> HIDE DEF e
<1>3. PICK h : HighSums(h, t, B) /\ Positional(t, B) = h[Len(t)]
  BY PositionalSums
<1>4. PICK g : HighSums(g, e, B) /\ Positional(e, B) = g[Len(e)]
  BY <1>1, PositionalSums
<1>5. /\ h \in [0..n -> Nat] /\ h[0] = 0 /\ Positional(t, B) = h[n]
      /\ \A k \in 1..n : h[k] = B * h[k - 1] + t[k]
  BY <1>3 DEF HighSums
<1>6. /\ g[0] = 0 /\ Positional(e, B) = g[n + 1]
      /\ \A k \in 1..(n + 1) : g[k] = B * g[k - 1] + e[k]
  BY <1>1, <1>4 DEF HighSums
<1> HIDE DEF n
<1> DEFINE T == {k \in Nat : k <= n => g[k] = h[k]}
<1>7. 0 \in T
  BY <1>5, <1>6
<1>8. ASSUME NEW k \in Nat, k \in T PROVE k + 1 \in T
  <2> SUFFICES ASSUME k + 1 <= n PROVE g[k + 1] = h[k + 1]
    OBVIOUS
  <2>1. k + 1 \in 1..n /\ k + 1 \in 1..(n + 1) /\ (k + 1) - 1 = k /\ k <= n
    BY <1>1
  <2>2. g[k] = h[k]
    BY <1>8, <2>1
  <2>3. g[k + 1] = B * g[k] + e[k + 1]
    BY <1>6, <2>1
  <2>4. h[k + 1] = B * h[k] + t[k + 1]
    BY <1>5, <2>1
  <2> QED  BY <1>2, <2>1, <2>2, <2>3, <2>4
<1> HIDE DEF T
<1>9. n \in T
  BY <1>1, <1>7, <1>8, Induction
<1>10. g[n] = h[n]
  BY <1>1, <1>9 DEF T
<1>11. n + 1 \in 1..(n + 1) /\ (n + 1) - 1 = n /\ n \in 0..n
  BY <1>1
<1>12. g[n + 1] = B * g[n] + e[n + 1]
  BY <1>6, <1>11
<1>13. h[n] \in Nat
  BY <1>5, <1>11
<1> QED  BY <1>1, <1>5, <1>6, <1>10, <1>12, <1>13 DEF e

LEMMA ReverseDigits ==
    ASSUME NEW s \in Seq(Nat), NEW c \in Nat
    PROVE  /\ Reverse(<<c>> \o s) = Reverse(s) \o <<c>> /\ Reverse(s) \in Seq(Nat)
           /\ Len(Reverse(s)) = Len(s) /\ (Len(s) > 0 => Reverse(s)[1] = s[Len(s)])
<1> DEFINE n == Len(s)
           d == <<c>> \o s
           r == Reverse(s)
           e == r \o <<c>>
<1>1. n \in Nat /\ d \in Seq(Nat) /\ Len(d) = n + 1 /\ d[1] = c
      /\ \A i \in 1..n : d[i + 1] = s[i]
  OBVIOUS
<1>2. r = [i \in 1..n |-> s[(n - i) + 1]]
  BY DEF Reverse
<1>3. \A i \in 1..n : (n - i) + 1 \in 1..n
  BY <1>1
<1>4. \A i \in 1..n : s[(n - i) + 1] \in Nat
  BY <1>3
<1> HIDE DEF r, d
<1>5. r \in Seq(Nat) /\ Len(r) = n
  BY <1>1, <1>2, <1>4
<1>6. e \in Seq(Nat) /\ Len(e) = n + 1 /\ e[n + 1] = c /\ \A i \in 1..n : e[i] = r[i]
  <2> HIDE DEF n
  <2> QED  BY <1>1, <1>5
<1> HIDE DEF n, e
<1>7. Reverse(d) = [i \in 1..(n + 1) |-> d[((n + 1) - i) + 1]]
  BY <1>1 DEF Reverse
<1>8. ASSUME NEW i \in 1..(n + 1) PROVE d[((n + 1) - i) + 1] = e[i]
  <2>1. CASE i = n + 1
    <3>1. ((n + 1) - i) + 1 = 1
      BY <1>1, <2>1
    <3> QED  BY <1>1, <1>6, <2>1, <3>1
  <2>2. CASE i # n + 1
    <3> DEFINE j == (n - i) + 1
    <3>1. i \in 1..n /\ j \in 1..n /\ ((n + 1) - i) + 1 = j + 1
      BY <1>1, <2>2
    <3>2. e[i] = s[j]
      BY <1>2, <1>6, <3>1
    <3> HIDE DEF j
    <3> QED  BY <1>1, <3>1, <3>2
  <2> QED  BY <2>1, <2>2
<1>9. Reverse(d) = [i \in 1..(n + 1) |-> e[i]]
  BY <1>7, <1>8
<1>10. e = [i \in 1..(n + 1) |-> e[i]]
  BY <1>6
<1>11. ASSUME n > 0 PROVE r[1] = s[n]
  <2>1. 1 \in 1..n /\ (n - 1) + 1 = n
    BY <1>1, <1>11
  <2> QED  BY <1>2, <2>1
<1> QED  BY <1>5, <1>9, <1>10, <1>11 DEF d, e, r, n

(* Digits that write a number of base B, from the last to the first.       *)
Writes(d, v, B) ==
    /\ d \in Seq(Nat) /\ Len(d) > 0 /\ Positional(Reverse(d), B) = v
    /\ v # 0 => d[Len(d)] # 0
    /\ v = 0 => Len(d) = 1

LEMMA LastFirstWrites ==
    ASSUME NEW D, NEW B, NEW quo, NEW dig, NEW size, Divides(D, B, quo, dig, size),
           NEW f, LastFirst(f, D, quo, dig)
    PROVE  \A i \in D : Writes(f[i], size[i], B)
<1> DEFINE T == {n \in Nat : \A i \in D : size[i] = n => Writes(f[i], n, B)}
<1>1. ASSUME NEW n \in Nat, \A m \in 0..(n - 1) : m \in T PROVE n \in T
  <2> SUFFICES ASSUME NEW i \in D, size[i] = n PROVE Writes(f[i], n, B)
    OBVIOUS
  <2> DEFINE c == dig[i]
             q == quo[i]
             m == size[q]
  <2>1. /\ B \in Nat /\ B >= 2 /\ c \in 0..(B - 1) /\ q \in D /\ m \in Nat /\ n = B * m + c
        /\ c \in Nat /\ (m = 0 <=> q = 0)
    <3>1. B \in Nat /\ B >= 2 /\ c \in 0..(B - 1) /\ q \in D /\ n = B * m + c
      BY DEF Divides
    <3>2. m \in Nat /\ (m = 0 <=> q = 0)
      BY <3>1 DEF Divides
    <3>3. c \in Nat
      BY <3>1
    <3> QED  BY <3>1, <3>2, <3>3
  <2>2. f[i] = <<c>> \o IF q = 0 THEN <<>> ELSE f[q]
    BY DEF LastFirst
  <2>3. CASE q = 0
    <3>1. f[i] = <<c>> /\ m = 0
      BY <2>1, <2>2, <2>3
    <3> HIDE DEF c, q, m
    <3>2. n = c
      BY <2>1, <3>1
    <3>3. <<c>> \in Seq(Nat) /\ Len(<<c>>) = 1 /\ <<c>>[1] = c
      BY <2>1
    <3>4. Positional(Reverse(<<c>>), B) = c
      <4>1. Reverse(<<>>) = <<>> /\ <<c>> \o <<>> = <<c>> /\ <<>> \o <<c>> = <<c>> /\ <<>> \in Seq(Nat)
        BY <2>1 DEF Reverse
      <4>2. Reverse(<<c>>) = <<c>>
        BY <2>1, <4>1, ReverseDigits
      <4>3. PICK h : HighSums(h, <<>>, B) /\ Positional(<<>>, B) = h[Len(<<>>)]
        BY <2>1, <4>1, PositionalSums
      <4>4. Positional(<<>>, B) = 0
        BY <4>3 DEF HighSums
      <4>5. Positional(<<>> \o <<c>>, B) = B * 0 + c
        BY <2>1, <4>1, <4>4, PositionalAppend
      <4> QED  BY <2>1, <4>1, <4>2, <4>5
    <3> QED  BY <3>1, <3>2, <3>3, <3>4 DEF Writes
  <2>4. CASE q # 0
    <3>1. m < n
      BY <2>4, Smaller
    <3>2. m \in 0..(n - 1)
      BY <2>1, <3>1
    <3>3. Writes(f[q], m, B)
      BY <1>1, <2>1, <3>2
    <3> DEFINE s == f[q]
    <3>4. f[i] = <<c>> \o s
      BY <2>2, <2>4
    <3> HIDE DEF c, q, m, s
    <3>5. /\ s \in Seq(Nat) /\ Len(s) > 0 /\ Positional(Reverse(s), B) = m
          /\ s[Len(s)] # 0 /\ n # 0
      BY <2>1, <2>4, <3>1, <3>3 DEF Writes, s
    <3> DEFINE d == <<c>> \o s
    <3>6. d \in Seq(Nat) /\ Len(d) = Len(s) + 1 /\ d[Len(d)] = s[Len(s)]
      BY <2>1, <3>5
    <3> HIDE DEF d
    <3>7. Reverse(d) = Reverse(s) \o <<c>> /\ Reverse(s) \in Seq(Nat)
      BY <2>1, <3>5, ReverseDigits DEF d
    <3>8. Positional(Reverse(d), B) = B * m + c
      BY <2>1, <3>5, <3>7, PositionalAppend
    <3>9. Len(d) > 0
      BY <3>5, <3>6
    <3> QED  BY <2>1, <3>4, <3>5, <3>6, <3>8, <3>9 DEF Writes, d
  <2> QED  BY <2>3, <2>4
<1> HIDE DEF T
<1>2. \A n \in Nat : n \in T
  BY <1>1, StrongInduction
<1>3. ASSUME NEW i \in D PROVE Writes(f[i], size[i], B)
  <2>1. size[i] \in Nat
    BY DEF Divides
  <2>2. size[i] \in T
    BY <1>2, <2>1
  <2> QED  BY <2>2 DEF T
<1> QED  BY <1>3

(* convert takes digits off as the lemmas say, and so does convertHex.     *)
QuoTen == [i \in Int |-> Quotient(i, 10)]
DigTen == [i \in Int |-> Zero(Remainder(i, 10))]
SizeTen == [i \in Int |-> Abs(i)]
QuoHex == [i \in Nat |-> i \div 16]
DigHex == [i \in Nat |-> i % 16]
SizeHex == [i \in Nat |-> i]

LEMMA TenDivides == Divides(Int, 10, QuoTen, DigTen, SizeTen)
<1>1. SizeTen \in [Int -> Nat]
  BY DEF SizeTen, Abs
<1>2. ASSUME NEW i \in Int
      PROVE  /\ SizeTen[i] = 0 <=> i = 0
             /\ QuoTen[i] \in Int /\ DigTen[i] \in 0..(10 - 1)
             /\ SizeTen[i] = 10 * SizeTen[QuoTen[i]] + DigTen[i]
  <2> DEFINE q == Quotient(i, 10)
             c == Zero(Remainder(i, 10))
  <2>1. q \in Int /\ c \in 0..9 /\ Abs(i) = 10 * Abs(q) + c
    BY Division
  <2>2. QuoTen[i] = q /\ DigTen[i] = c
    BY DEF QuoTen, DigTen
  <2> HIDE DEF q, c
  <2>3. SizeTen[i] = Abs(i) /\ SizeTen[q] = Abs(q)
    BY <2>1 DEF SizeTen
  <2>4. Abs(i) = 0 <=> i = 0
    BY DEF Abs
  <2> QED  BY <2>1, <2>2, <2>3, <2>4
<1>3. 10 \in Nat /\ 10 >= 2 /\ 0 \in Int
  OBVIOUS
<1> QED  BY <1>1, <1>2, <1>3 DEF Divides

LEMMA HexDivides == Divides(Nat, 16, QuoHex, DigHex, SizeHex)
<1>1. SizeHex \in [Nat -> Nat]
  BY DEF SizeHex
<1>2. ASSUME NEW i \in Nat
      PROVE  /\ SizeHex[i] = 0 <=> i = 0
             /\ QuoHex[i] \in Nat /\ DigHex[i] \in 0..(16 - 1)
             /\ SizeHex[i] = 16 * SizeHex[QuoHex[i]] + DigHex[i]
  <2>1. i \div 16 \in Nat /\ i % 16 \in 0..15 /\ i = 16 * (i \div 16) + (i % 16)
    OBVIOUS
  <2>2. QuoHex[i] = i \div 16 /\ DigHex[i] = i % 16
    BY DEF QuoHex, DigHex
  <2>3. SizeHex[i] = i /\ SizeHex[i \div 16] = i \div 16
    BY <2>1 DEF SizeHex
  <2> QED  BY <2>1, <2>2, <2>3
<1>3. 16 \in Nat /\ 16 >= 2 /\ 0 \in Nat
  OBVIOUS
<1> QED  BY <1>1, <1>2, <1>3 DEF Divides

LEMMA BackwardsIs == LastFirst(Backwards, Int, QuoTen, DigTen)
<1>1. PICK f \in [Int -> Seq(Nat)] : LastFirst(f, Int, QuoTen, DigTen)
  BY TenDivides, LastFirstExists
<1>2. \A i \in Int : f[i] = <<Zero(Remainder(i, 10))>>
         \o IF Quotient(i, 10) = 0 THEN <<>> ELSE f[Quotient(i, 10)]
  BY <1>1 DEF LastFirst, QuoTen, DigTen
<1>3. f = [i \in Int |-> <<Zero(Remainder(i, 10))>>
              \o IF Quotient(i, 10) = 0 THEN <<>> ELSE f[Quotient(i, 10)]]
  BY <1>2
<1>4. Backwards = [i \in Int |-> <<Zero(Remainder(i, 10))>>
              \o IF Quotient(i, 10) = 0 THEN <<>> ELSE Backwards[Quotient(i, 10)]]
  BY <1>3 DEF Backwards
<1> QED  BY <1>4 DEF LastFirst, QuoTen, DigTen

LEMMA BackwardsHexIs == LastFirst(BackwardsHex, Nat, QuoHex, DigHex)
<1>1. PICK f \in [Nat -> Seq(Nat)] : LastFirst(f, Nat, QuoHex, DigHex)
  BY HexDivides, LastFirstExists
<1>2. \A i \in Nat : f[i] = <<i % 16>> \o IF i \div 16 = 0 THEN <<>> ELSE f[i \div 16]
  BY <1>1 DEF LastFirst, QuoHex, DigHex
<1>3. f = [i \in Nat |-> <<i % 16>> \o IF i \div 16 = 0 THEN <<>> ELSE f[i \div 16]]
  BY <1>2
<1>4. BackwardsHex =
        [i \in Nat |-> <<i % 16>> \o IF i \div 16 = 0 THEN <<>> ELSE BackwardsHex[i \div 16]]
  BY <1>3 DEF BackwardsHex
<1> QED  BY <1>4 DEF LastFirst, QuoHex, DigHex

LEMMA Turns == \A s : Reverse(s) = Reverse(s)
BY DEF Reverse, Reverse

(* What is written reads back, and has no leading zero.                    *)
LEMMA WritesRight ==
    ASSUME NEW d, NEW v \in Nat, NEW B \in Nat, Writes(d, v, B)
    PROVE  /\ ValueOf(Reverse(d), B) = v /\ Canonical(Reverse(d))
           /\ Len(Reverse(d)) = Len(d)
<1>1. d \in Seq(Nat) /\ Len(d) > 0 /\ (v # 0 => d[Len(d)] # 0) /\ (v = 0 => Len(d) = 1)
  BY DEF Writes
<1>2. Len(Reverse(d)) = Len(d) /\ Reverse(d)[1] = d[Len(d)]
  BY <1>1, ReverseDigits
<1>3. ValueOf(Reverse(d), B) = Positional(Reverse(d), B)
  BY DEF ValueOf, Positional
<1>4. Len(d) > 1 => Reverse(d)[1] # 0
  BY <1>1, <1>2
<1> QED  BY <1>2, <1>3, <1>4 DEF Writes, Canonical

(* convert writes every integer, and convertHex every one that is not      *)
(* negative, whatever their width.                                         *)
THEOREM Converts == \A v \in Int : ConvertsRight(v)
<1> SUFFICES ASSUME NEW v \in Int PROVE ConvertsRight(v)
  OBVIOUS
<1> DEFINE c == Convert(v)
<1>1. Writes(Backwards[v], Abs(v), 10) /\ Abs(v) \in Nat
  <2>1. Writes(Backwards[v], SizeTen[v], 10)
    BY BackwardsIs, TenDivides, LastFirstWrites
  <2> QED  BY <2>1 DEF SizeTen, Abs
<1>2. c.minus = (v < 0) /\ c.text = Reverse(Backwards[v])
  BY Turns DEF Convert
<1> HIDE DEF c
<1>3. ValueOf(c.text, 10) = Abs(v) /\ Canonical(c.text)
  BY <1>1, <1>2, WritesRight
<1>4. Abs(v) = IF c.minus THEN -v ELSE v
  BY <1>2 DEF Abs
<1>5. ASSUME v >= 0
      PROVE  ValueOf(ConvertHex(v), 16) = v /\ Canonical(ConvertHex(v))
  <2>1. v \in Nat
    BY <1>5
  <2>2. Writes(BackwardsHex[v], SizeHex[v], 16)
    BY <2>1, BackwardsHexIs, HexDivides, LastFirstWrites
  <2>3. SizeHex[v] = v /\ ConvertHex(v) = Reverse(BackwardsHex[v])
    BY <2>1, Turns DEF SizeHex, ConvertHex
  <2> QED  BY <2>1, <2>2, <2>3, WritesRight
<1> QED  BY <1>3, <1>4, <1>5 DEF ConvertsRight, c

-----------------------------------------------------------------------------
(* The lines of a logger stay within their buffer.                         *)
FullLine == 4000 - 1
Lengths == 0..FullLine

LEMMA StreamStep ==
    ASSUME NEW n \in Lengths, NEW p \in Streamable
    PROVE  StreamTo(n, p) \in Lengths
<1>1. p.number \in BOOLEAN /\ p.len \in Nat /\ (p.number => p.len < 32)
  BY DEF Streamable, kMaxNumericSize
<1>2. FormatNumber(n, p.len) = IF 4000 - n >= 32 THEN n + p.len ELSE n
  BY DEF FormatNumber, Avail, kSmallBuffer, kMaxNumericSize
<1>3. AppendBytes(n, p.len) = IF 4000 - n > p.len THEN n + p.len ELSE n
  BY DEF AppendBytes, Avail, kSmallBuffer
<1>4. CASE p.number
  <2>1. StreamTo(n, p) = FormatNumber(n, p.len)
    BY <1>4, Zenon DEF StreamTo
  <2>2. p.len < 32
    BY <1>1, <1>4, Zenon
  <2>3. \A l \in Nat : l < 32 => (IF 4000 - n >= 32 THEN n + l ELSE n) \in Lengths
    BY DEF Lengths, FullLine
  <2> QED  BY <1>1, <1>2, <2>1, <2>2, <2>3
<1>5. CASE ~ p.number
  <2>1. StreamTo(n, p) = AppendBytes(n, p.len)
    BY <1>5, Zenon DEF StreamTo
  <2>2. \A l \in Nat : (IF 4000 - n > l THEN n + l ELSE n) \in Lengths
    BY DEF Lengths, FullLine
  <2> QED  BY <1>1, <1>3, <2>1, <2>2
<1> QED  BY <1>4, <1>5, Zenon

LEMMA StreamBounded ==
    ASSUME NEW n \in Lengths, NEW pieces \in Seq(Streamable)
    PROVE  StreamAll(n, pieces) \in Lengths
<1> DEFINE N == Len(pieces)
           S == Lengths
           G == [p \in (1..N) \X S |-> StreamTo(p[2], pieces[p[1]])]
           after == CHOOSE f : f = [k \in 0..N |-> IF k = 0 THEN n
                                                   ELSE StreamTo(f[k - 1], pieces[k])]
<1>1. N \in Nat /\ \A k \in 1..N : pieces[k] \in Streamable
  OBVIOUS
<1>2. StreamAll(n, pieces) = after[N]
  BY DEF StreamAll
<1> HIDE DEF N
<1>3. \A k \in 1..N : \A s \in S : StreamTo(s, pieces[k]) \in S
  BY <1>1, StreamStep
<1> HIDE DEF S
<1>4. \A k \in 1..N : \A s \in S : G[<<k, s>>] = StreamTo(s, pieces[k])
  OBVIOUS
<1>5. \A k \in 1..N : \A s \in S : G[<<k, s>>] \in S
  BY <1>3, <1>4
<1> HIDE DEF G
<1>6. n \in S
  BY DEF S
<1>7. PICK f \in [0..N -> S] : Begins(f, n, G, N)
  BY <1>1, <1>5, <1>6, Recursion
<1>8. f = [k \in 0..N |-> IF k = 0 THEN n ELSE StreamTo(f[k - 1], pieces[k])]
  <2>1. ASSUME NEW k \in 0..N
        PROVE  f[k] = IF k = 0 THEN n ELSE StreamTo(f[k - 1], pieces[k])
    <3>1. CASE k = 0
      BY <1>7, <3>1 DEF Begins
    <3>2. CASE k # 0
      <4>1. k \in 1..N /\ k - 1 \in 0..N
        BY <1>1, <3>2
      <4>2. f[k] = G[<<k, f[k - 1]>>] /\ f[k - 1] \in S
        BY <1>7, <4>1 DEF Begins
      <4> QED  BY <1>4, <3>2, <4>1, <4>2
    <3> QED  BY <3>1, <3>2
  <2> QED  BY <2>1
<1>9. after = [k \in 0..N |-> IF k = 0 THEN n ELSE StreamTo(after[k - 1], pieces[k])]
  BY <1>8
<1> HIDE DEF after
<1>10. after[0] = n /\ \A k \in 1..N : after[k] = StreamTo(after[k - 1], pieces[k])
  <2>1. 0 \in 0..N /\ \A k \in 1..N : k \in 0..N /\ k # 0
    BY <1>1
  <2> QED  BY <1>9, <2>1
<1> DEFINE T == {k \in Nat : k <= N => after[k] \in S}
<1>11. 0 \in T
  BY <1>6, <1>10
<1>12. ASSUME NEW k \in Nat, k \in T PROVE k + 1 \in T
  <2> SUFFICES ASSUME k + 1 <= N PROVE after[k + 1] \in S
    OBVIOUS
  <2>1. k + 1 \in 1..N /\ (k + 1) - 1 = k /\ k <= N
    BY <1>1
  <2>2. after[k] \in S
    BY <1>12, <2>1
  <2> QED  BY <1>3, <1>10, <2>1, <2>2
<1> HIDE DEF T
<1>13. N \in T
  BY <1>1, <1>11, <1>12, Induction
<1> QED  BY <1>1, <1>2, <1>13 DEF T, S

(* A number of up to three digits.                                         *)
Small == 0..999

LEMMA ShortNumber ==
    ASSUME NEW v \in Small
    PROVE  Len(Convert(v).text) \in Nat /\ Len(Convert(v).text) < 32
<1> DEFINE d(i) == Backwards[i]
<1>1. \A i \in Int : d(i) = <<DigTen[i]>> \o IF QuoTen[i] = 0 THEN <<>> ELSE d(QuoTen[i])
  BY BackwardsIs DEF LastFirst
<1>2. \A i \in Nat : QuoTen[i] = i \div 10
  BY DEF QuoTen, Quotient
<1>3. \A i \in Int : d(i) \in Seq(Nat)
  BY BackwardsIs, TenDivides, LastFirstWrites DEF Writes
<1>4. \A i \in Int : DigTen[i] \in Nat /\ QuoTen[i] \in Int
  <2>1. \A i \in Int : DigTen[i] \in 0..(10 - 1) /\ QuoTen[i] \in Int
    BY TenDivides, Zenon DEF Divides
  <2>2. 0..(10 - 1) \subseteq Nat
    OBVIOUS
  <2> QED  BY <2>1, <2>2, Zenon
<1> HIDE DEF d
<1>5. ASSUME NEW i \in Nat
      PROVE  Len(d(i)) = 1 + IF i \div 10 = 0 THEN 0 ELSE Len(d(i \div 10))
  <2>1. i \in Int /\ i \div 10 \in Int
    OBVIOUS
  <2>2. CASE i \div 10 = 0
    <3>1. d(i) = <<DigTen[i]>> \o <<>>
      BY <1>1, <1>2, <2>1, <2>2
    <3> QED  BY <1>4, <2>1, <2>2, <3>1
  <2>3. CASE i \div 10 # 0
    <3> DEFINE s == d(i \div 10)
               c == DigTen[i]
    <3>1. d(i) = <<c>> \o s
      BY <1>1, <1>2, <2>1, <2>3
    <3>2. s \in Seq(Nat) /\ c \in Nat
      BY <1>3, <1>4, <2>1
    <3> HIDE DEF s, c
    <3>3. Len(<<c>> \o s) = 1 + Len(s)
      BY <3>2
    <3> QED  BY <2>3, <3>1, <3>3 DEF s
  <2> QED  BY <2>2, <2>3
<1> DEFINE L(i) == Len(d(i))
<1> HIDE DEF L
<1>6. \A i \in 0..9 : L(i) = 1
  <2> SUFFICES ASSUME NEW i \in 0..9 PROVE L(i) = 1
    OBVIOUS
  <2>1. i \in Nat /\ i \div 10 = 0
    OBVIOUS
  <2> QED  BY <1>5, <2>1 DEF L
<1>7. \A i \in 0..99 : L(i) \in 1..2
  <2> SUFFICES ASSUME NEW i \in 0..99 PROVE L(i) \in 1..2
    OBVIOUS
  <2>1. i \in Nat /\ i \div 10 \in 0..9
    OBVIOUS
  <2>2. L(i) = 1 + IF i \div 10 = 0 THEN 0 ELSE L(i \div 10)
    BY <1>5, <2>1 DEF L
  <2> QED  BY <1>6, <2>1, <2>2
<1>8. L(v) \in 1..3
  <2>1. v \in Nat /\ v \div 10 \in 0..99
    BY DEF Small
  <2>2. L(v) = 1 + IF v \div 10 = 0 THEN 0 ELSE L(v \div 10)
    BY <1>5, <2>1 DEF L
  <2> QED  BY <1>7, <2>1, <2>2
<1>9. Convert(v).text = Reverse(d(v))
  BY Turns DEF Convert, d
<1>10. Len(Reverse(d(v))) = L(v)
  <2>1. v \in Int
    BY DEF Small
  <2>2. d(v) \in Seq(Nat) /\ 0 \in Nat
    BY <1>3, <2>1
  <2> QED  BY <2>2, ReverseDigits DEF L
<1>11. L(v) \in Nat /\ L(v) < 32
  BY <1>8
<1>12. Len(Convert(v).text) = L(v)
  BY <1>9, <1>10
<1> QED  BY <1>11, <1>12

LEMMA StringOK == \A len \in Nat : String(len) \in Streamable
  BY DEF String, Streamable

LEMMA NumberOK == \A len \in Nat : len < 32 => Number(len) \in Streamable
  BY DEF Number, Streamable, kMaxNumericSize

(* The head and the foot of a line.                                        *)
LEMMA HeadOK ==
    ASSUME NEW macro, NEW utc, NEW e \in {0, 11}
    PROVE  LineHead(macro, utc, e) \in Seq(Streamable)
<1> DEFINE P == Streamable
           a == <<String(17), String(IF utc THEN 9 ELSE 8),
                  String(TidStringLength), String(1), String(6)>>
           b == IF macro.sys /\ e # 0
                THEN <<String(StrerrorLength), String(8),
                       Number(Len(Convert(e).text)), String(2)>>
                ELSE <<>>
           c == IF macro.func THEN <<String(FuncLength), String(1)>> ELSE <<>>
<1>1. /\ TidStringLength \in Nat /\ StrerrorLength \in Nat /\ FuncLength \in Nat
      /\ (IF utc THEN 9 ELSE 8) \in Nat
  BY DEF TidStringLength, StrerrorLength, FuncLength
<1>2. /\ String(17) \in P /\ String(IF utc THEN 9 ELSE 8) \in P
      /\ String(TidStringLength) \in P /\ String(1) \in P /\ String(6) \in P
      /\ String(StrerrorLength) \in P /\ String(8) \in P /\ String(2) \in P
      /\ String(FuncLength) \in P
  BY <1>1, StringOK
<1>3. Number(Len(Convert(e).text)) \in P
  <2>1. e \in Small
    BY DEF Small
  <2>2. Len(Convert(e).text) \in Nat /\ Len(Convert(e).text) < 32
    BY <2>1, ShortNumber, Zenon
  <2> QED  BY <2>2, NumberOK
<1> HIDE DEF P
<1>4. a \in Seq(P)
  BY <1>2
<1>5. b \in Seq(P)
  BY <1>2, <1>3
<1>6. c \in Seq(P)
  BY <1>2
<1> HIDE DEF a, b, c
<1>7. a \o b \o c \in Seq(P)
  BY <1>4, <1>5, <1>6
<1>8. LineHead(macro, utc, e) = a \o b \o c
  BY DEF LineHead, a, b, c
<1> QED  BY <1>7, <1>8 DEF P

LEMMA FootOK == LineFoot(164) \in Seq(Streamable)
<1> DEFINE P == Streamable
<1>1. BasenameLength \in Nat
  BY DEF BasenameLength
<1>2. String(3) \in P /\ String(BasenameLength) \in P /\ String(1) \in P
  BY <1>1, StringOK
<1>3. Number(Len(Convert(164).text)) \in P
  <2>1. 164 \in Small
    BY DEF Small
  <2>2. Len(Convert(164).text) \in Nat /\ Len(Convert(164).text) < 32
    BY <2>1, ShortNumber, Zenon
  <2> QED  BY <2>2, NumberOK
<1> HIDE DEF P
<1> QED  BY <1>2, <1>3 DEF LineFoot, P

-----------------------------------------------------------------------------
(* Time zones.                                                             *)
LocalTypes == [gmtOffset : Int, isDst : BOOLEAN]
Changes == [gmttime : Int, localtime : Int, localtimeIdx : Nat]

(* The data of a zone, as far as they were read.                           *)
GoodData(data) ==
    /\ data.localtimes \in Seq(LocalTypes) /\ data.transitions \in Seq(Changes)
    /\ \A i \in 1..Len(data.transitions) :
          data.transitions[i].localtimeIdx < Len(data.localtimes)

(* What lower_bound and the comparison after it find among keys: one that  *)
(* is not above the instant, and the last such when the keys are in order. *)
LowerBound(n, K, s) == Min({i \in 1..n : K[i] >= s} \union {n + 1})

LEMMA FoundKey ==
    ASSUME NEW n \in Nat, NEW K, \A i \in 1..n : K[i] \in Int, NEW s \in Int,
           n # 0, ~ (s < K[1])
    PROVE  LET lb == LowerBound(n, K, s)
               at == IF lb <= n /\ K[lb] = s THEN lb ELSE lb - 1
           IN  /\ lb \in 1..(n + 1) /\ at \in 1..n /\ K[at] <= s
               /\ (\A i \in 1..(n - 1) : K[i] < K[i + 1]) /\ at < n => s < K[at + 1]
<1> DEFINE M == {i \in 1..n : K[i] >= s} \union {n + 1}
           lb == LowerBound(n, K, s)
           at == IF lb <= n /\ K[lb] = s THEN lb ELSE lb - 1
<1>1. M \subseteq Nat /\ M # {}
  OBVIOUS
<1>2. lb \in M /\ \A y \in M : lb <= y
  <2> HIDE DEF M
  <2>1. \E x \in M : \A y \in M : x <= y
    BY <1>1, LeastNat
  <2>2. lb = CHOOSE x \in M : \A y \in M : x <= y
    BY DEF LowerBound, Min, M
  <2> QED  BY <2>1, <2>2
<1> HIDE DEF lb
<1>3. lb \in 1..(n + 1) /\ (lb <= n => K[lb] >= s) /\ \A i \in 1..n : i < lb => ~ (K[i] >= s)
  <2>1. lb \in 1..(n + 1) /\ (lb <= n => K[lb] >= s)
    BY <1>2
  <2>2. ASSUME NEW i \in 1..n, i < lb PROVE ~ (K[i] >= s)
    <3>1. ~ (lb <= i)
      BY <2>1, <2>2
    <3> QED  BY <1>2, <3>1
  <2> QED  BY <2>1, <2>2
<1>4. CASE lb <= n /\ K[lb] = s
  <2>1. at = lb /\ lb \in 1..n
    BY <1>3, <1>4
  <2>2. ASSUME \A i \in 1..(n - 1) : K[i] < K[i + 1], lb < n PROVE s < K[lb + 1]
    <3>1. lb \in 1..(n - 1)
      BY <2>1, <2>2
    <3> QED  BY <1>4, <2>2, <3>1
  <2> QED  BY <1>3, <1>4, <2>1, <2>2 DEF lb
<1>5. CASE ~ (lb <= n /\ K[lb] = s)
  <2>1. 1 \in 1..n /\ K[1] \in Int
    OBVIOUS
  <2>2. lb # 1
    BY <1>3, <1>5, <2>1
  <2>3. at = lb - 1 /\ lb - 1 \in 1..n /\ lb - 1 < lb /\ (lb - 1) + 1 = lb
    BY <1>3, <1>5, <2>2
  <2>4. K[lb - 1] \in Int /\ ~ (K[lb - 1] >= s)
    BY <1>3, <2>3
  <2>5. ASSUME lb - 1 < n PROVE s < K[lb]
    <3>1. lb \in 1..n
      BY <1>3, <2>5
    <3> QED  BY <1>3, <1>5, <3>1
  <2> QED  BY <1>3, <2>3, <2>4, <2>5 DEF lb
<1> QED  BY <1>4, <1>5

(* findLocaltime returns a type of the zone: the first one before all      *)
(* changes, else that of a change that is past, the last one when they are *)
(* in order.                                                               *)
LEMMA FindIs ==
    ASSUME NEW data, GoodData(data), data.localtimes # <<>>, NEW s \in Int, NEW by,
           \A i \in 1..Len(data.transitions) : data.transitions[i][by] \in Int
    PROVE  LET tr == data.transitions
               n == Len(tr)
               r == FindLocaltime(data, s, by)
           IN  /\ r \in LocalTypes
               /\ n = 0 \/ s < tr[1][by] => r = data.localtimes[1]
               /\ n # 0 /\ ~ (s < tr[1][by]) =>
                    \E at \in 1..n :
                       /\ r = data.localtimes[tr[at].localtimeIdx + 1] /\ tr[at][by] <= s
                       /\ (\A i \in 1..(n - 1) : tr[i][by] < tr[i + 1][by]) /\ at < n =>
                              s < tr[at + 1][by]
<1> DEFINE tr == data.transitions
           n == Len(tr)
           K == [i \in 1..n |-> tr[i][by]]
           r == FindLocaltime(data, s, by)
           ty == data.localtimes
           M == {i \in 1..n : tr[i][by] >= s} \union {n + 1}
           lb == Min(M)
           at == IF lb <= n /\ tr[lb][by] = s THEN lb ELSE lb - 1
<1>1. /\ n \in Nat /\ ty \in Seq(LocalTypes) /\ Len(ty) \in Nat /\ Len(ty) >= 1
      /\ \A i \in 1..n : tr[i].localtimeIdx \in Nat /\ tr[i].localtimeIdx < Len(ty)
  <2>1. ty \in Seq(LocalTypes) /\ tr \in Seq(Changes)
    BY DEF GoodData
  <2>2. \A i \in 1..n : tr[i] \in Changes
    BY <2>1
  <2>3. \A i \in 1..n : tr[i].localtimeIdx \in Nat /\ tr[i].localtimeIdx < Len(ty)
    BY <2>2 DEF GoodData, Changes
  <2>4. n \in Nat /\ Len(ty) \in Nat /\ Len(ty) >= 1
    BY <2>1
  <2> QED  BY <2>1, <2>3, <2>4
<1>2. \A i \in 1..Len(ty) : ty[i] \in LocalTypes
  BY <1>1
<1>3. r = IF n = 0 \/ s < tr[1][by] THEN ty[1] ELSE ty[tr[at].localtimeIdx + 1]
  BY DEF FindLocaltime
<1>4. \A i \in 1..n : K[i] = tr[i][by] /\ K[i] \in Int
  OBVIOUS
<1>a. lb = LowerBound(n, K, s)
  <2>1. M = {i \in 1..n : K[i] >= s} \union {n + 1}
    BY <1>4
  <2> HIDE DEF M, K, n, tr
  <2> QED  BY <2>1 DEF LowerBound
<1> HIDE DEF r, ty, tr, n, K, M, lb
<1>5. CASE n = 0 \/ s < tr[1][by]
  <2>1. r = ty[1]
    BY <1>3, <1>5
  <2>2. r \in LocalTypes
    BY <1>1, <1>2, <2>1
  <2> QED  BY <1>5, <2>1, <2>2 DEF r, ty, n, tr
<1>6. CASE n # 0 /\ ~ (s < tr[1][by])
  <2>1. r = ty[tr[at].localtimeIdx + 1]
    BY <1>3, <1>6
  <2>3. 1 \in 1..n /\ ~ (s < K[1])
    BY <1>1, <1>4, <1>6
  <2> DEFINE a2 == IF lb <= n /\ K[lb] = s THEN lb ELSE lb - 1
  <2>4. /\ lb \in 1..(n + 1) /\ a2 \in 1..n /\ K[a2] <= s
        /\ (\A i \in 1..(n - 1) : K[i] < K[i + 1]) /\ a2 < n => s < K[a2 + 1]
    <3>1. \A i \in 1..n : K[i] \in Int
      BY <1>4
    <3> QED  BY <1>1, <1>6, <1>a, <2>3, <3>1, FoundKey
  <2>6. a2 = at
    <3>1. lb <= n => lb \in 1..n
      BY <1>1, <2>4
    <3> QED  BY <1>4, <3>1
  <2> HIDE DEF a2, at
  <2>7. at \in 1..n /\ tr[at][by] <= s
    BY <1>4, <2>4, <2>6
  <2>8. ASSUME \A i \in 1..(n - 1) : tr[i][by] < tr[i + 1][by], at < n
        PROVE  s < tr[at + 1][by]
    <3>1. \A i \in 1..(n - 1) : i \in 1..n /\ i + 1 \in 1..n
      BY <1>1
    <3>2. \A i \in 1..(n - 1) : K[i] < K[i + 1]
      BY <1>4, <2>8, <3>1
    <3>3. at + 1 \in 1..n
      BY <1>1, <2>7, <2>8
    <3> QED  BY <1>4, <2>4, <2>6, <2>8, <3>2, <3>3
  <2>9. tr[at].localtimeIdx + 1 \in 1..Len(ty)
    BY <1>1, <2>7
  <2>10. r \in LocalTypes
    BY <1>2, <2>1, <2>9
  <2>11. \E a \in 1..n :
           /\ r = ty[tr[a].localtimeIdx + 1] /\ tr[a][by] <= s
           /\ (\A i \in 1..(n - 1) : tr[i][by] < tr[i + 1][by]) /\ a < n => s < tr[a + 1][by]
    BY <2>1, <2>7, <2>8
  <2> QED  BY <1>6, <2>10, <2>11 DEF r, ty, tr, n
<1> QED  BY <1>5, <1>6

(* Zones that can be set hold such data, and what they make of an instant  *)
(* is a time.                                                              *)
LEMMA ReadData ==
    ASSUME NEW f, WellFormed(f)
    PROVE  GoodData(ReadTimeZoneFile(f))
<1> DEFINE d == ReadTimeZoneFile(f)
           n == Len(f.trans)
           k == Len(f.types)
           r == f.read
           ty == f.types
           tr == f.trans
           ix == f.idx
           C(i) == [gmttime |-> tr[i], localtime |-> tr[i] + ty[ix[i] + 1].gmtOffset,
                    localtimeIdx |-> ix[i]]
<1>1. /\ tr \in Seq(Int) /\ ix \in Seq(Nat) /\ ty \in Seq(LocalTypes)
      /\ r \in 0..k /\ Len(ix) = n /\ (\A i \in 1..n : ix[i] < k)
  BY DEF WellFormed, LocalTypes
<1>2. d = [localtimes |-> SubSeq(ty, 1, r),
           transitions |-> IF r < k THEN <<>> ELSE [i \in 1..n |-> C(i)]]
  BY DEF ReadTimeZoneFile
<1>3. n \in Nat /\ k \in Nat /\ r \in Nat /\ r <= k
  BY <1>1
<1>4. SubSeq(ty, 1, r) \in Seq(LocalTypes) /\ Len(SubSeq(ty, 1, r)) = r
  <2>1. \A i \in 1..r : ty[i] \in LocalTypes
    BY <1>1
  <2>2. r = 0 => SubSeq(ty, 1, r) = <<>>
    BY <1>1
  <2>3. r # 0 => 1 \in 1..(k + 1) /\ r \in 1..k
    BY <1>3
  <2> QED  BY <1>1, <1>3, <2>1, <2>2, <2>3
<1>5. ASSUME NEW i \in 1..n
      PROVE  C(i) \in Changes /\ C(i).localtimeIdx < k
  <2>1. tr[i] \in Int /\ ix[i] \in Nat /\ ix[i] < k
    BY <1>1
  <2>2. ix[i] + 1 \in 1..k
    BY <1>3, <2>1
  <2>3. ty[ix[i] + 1] \in LocalTypes
    <3>1. \A p \in 1..k : ty[p] \in LocalTypes
      BY <1>1
    <3> QED  BY <2>2, <3>1
  <2>4. ty[ix[i] + 1].gmtOffset \in Int
    BY <2>3 DEF LocalTypes
  <2> QED  BY <2>1, <2>4 DEF Changes
<1> HIDE DEF C, d, n, k, r, ty, tr, ix
<1>6. CASE r < k
  <2>1. d.localtimes = SubSeq(ty, 1, r) /\ d.transitions = <<>>
    BY <1>2, <1>6
  <2> QED  BY <1>4, <2>1 DEF GoodData, d
<1>7. CASE ~ (r < k)
  <2> DEFINE q == [i \in 1..n |-> C(i)]
  <2>1. d.localtimes = SubSeq(ty, 1, r) /\ d.transitions = q
    BY <1>2, <1>7
  <2>2. q \in Seq(Changes) /\ Len(q) = n
    BY <1>3, <1>5
  <2>3. \A i \in 1..n : q[i].localtimeIdx < k
    BY <1>5
  <2>4. r = k
    BY <1>3, <1>7
  <2> HIDE DEF q
  <2> QED  BY <1>4, <2>1, <2>2, <2>3, <2>4 DEF GoodData, d
<1> QED  BY <1>6, <1>7

LEMMA FixedData ==
    ASSUME NEW o \in Int
    PROVE  GoodData(FixedZone(o))
<1>1. FixedZone(o) = [localtimes |-> <<[gmtOffset |-> o, isDst |-> FALSE]>>,
                          transitions |-> <<>>]
  BY DEF FixedZone, Localtime
<1>2. <<[gmtOffset |-> o, isDst |-> FALSE]>> \in Seq(LocalTypes)
  <2>1. [gmtOffset |-> o, isDst |-> FALSE] \in LocalTypes
    BY DEF LocalTypes
  <2> QED  BY <2>1
<1> QED  BY <1>1, <1>2 DEF GoodData

LEMMA ZoneData ==
    ASSUME NEW z \in Zones, z # None
    PROVE  GoodData(z.data)
<1>1. CASE \E o \in Offsets : z = Zone(FixedZone(o))
  <2>1. PICK o \in Offsets : z = Zone(FixedZone(o))
    BY <1>1
  <2>2. o \in Int
    BY LoggingAssumption
  <2>3. z.data = FixedZone(o)
    BY <2>1 DEF Zone
  <2> QED  BY <2>2, <2>3, FixedData
<1>2. CASE \E f \in Files : z = Zone(ReadTimeZoneFile(f))
  <2>1. PICK f \in Files : z = Zone(ReadTimeZoneFile(f))
    BY <1>2
  <2>2. WellFormed(f)
    BY LoggingAssumption
  <2>3. z.data = ReadTimeZoneFile(f)
    BY <2>1 DEF Zone
  <2> QED  BY <2>2, <2>3, ReadData
<1> QED  BY <1>1, <1>2 DEF Zones

LEMMA GmtimeIs == 
    ASSUME NEW s \in Int
    PROVE  /\ Gmtime(s) \in Times
           /\ Timegm(Gmtime(s)) = s
           /\ Gmtime(s).hour * 3600 + Gmtime(s).min * 60 = 
                  (s % 86400) - (s % 60)
<1>1. kSecondsPerDay = 86400
  BY DEF kSecondsPerDay
<1>2. /\ s \div 86400 \in Int /\ (s % 86400) \div 3600 \in 0..23
      /\ (s % 3600) \div 60 \in 0..59 /\ s % 60 \in 0..59
  OBVIOUS
<1>3. ((s % 86400) \div 3600) * 3600 + ((s % 3600) \div 60) * 60 = (s % 86400) - (s % 60)
  OBVIOUS
<1>4. (s \div 86400) * 86400 + (s % 86400) = s
  OBVIOUS
<1>5. Gmtime(s) = [day |-> s \div 86400, hour |-> (s % 86400) \div 3600,
                       min |-> (s % 3600) \div 60, sec |-> s % 60]
  BY <1>1 DEF Gmtime
<1> DEFINE a == s \div 86400
           b == (s % 86400) \div 3600
           c == (s % 3600) \div 60
           e == s % 60
           q == s % 86400
<1>6. q \in Int
  OBVIOUS
<1> HIDE DEF a, b, c, e, q
<1>7. Gmtime(s) \in Times
  BY <1>2, <1>5 DEF Times, a, b, c, e
<1>8. Timegm(Gmtime(s)) = a * 86400 + b * 3600 + c * 60 + e
  BY <1>1, <1>5 DEF Timegm, a, b, c, e
<1>9. b * 3600 + c * 60 = q - e /\ a * 86400 + q = s
  BY <1>3, <1>4 DEF a, b, c, e, q
<1>10. a \in Int /\ b \in Int /\ c \in Int /\ e \in Int
  BY <1>2 DEF a, b, c, e
<1>11. a * 86400 + b * 3600 + c * 60 + e = s
  BY <1>6, <1>9, <1>10
<1>12. Gmtime(s).hour = b /\ Gmtime(s).min = c
  BY <1>5 DEF b, c
<1> QED  BY <1>7, <1>8, <1>9, <1>11, <1>12 DEF q, e

LEMMA TextTimes ==
    ASSUME NEW z \in Zones, Usable(z), NEW s \in Int
    PROVE  TextIn(z, s) \in Times
<1>1. CASE z = None
  BY <1>1, GmtimeIs DEF TextIn
<1>2. CASE z # None
  <2> DEFINE d == z.data
             r == FindLocaltime(d, s, "gmttime")
  <2>1. GoodData(d)
    BY <1>2, ZoneData
  <2>2. d.localtimes # <<>>
    BY <1>2 DEF Usable
  <2>3. \A i \in 1..Len(d.transitions) : d.transitions[i]["gmttime"] \in Int
    <3> DEFINE tr == d.transitions
    <3>1. tr \in Seq(Changes)
      BY <2>1 DEF GoodData
    <3> HIDE DEF tr
    <3>2. \A i \in 1..Len(tr) : tr[i] \in Changes
      BY <3>1
    <3>3. \A i \in 1..Len(tr) : tr[i]["gmttime"] \in Int
      BY <3>2 DEF Changes
    <3> QED  BY <3>3 DEF tr
  <2> HIDE DEF d
  <2>4. r \in LocalTypes
    BY <2>1, <2>2, <2>3, FindIs
  <2> HIDE DEF r
  <2>5. r.gmtOffset \in Int
    BY <2>4 DEF LocalTypes
  <2>6. TextIn(z, s) = Gmtime(s + r.gmtOffset)
    BY <1>2 DEF TextIn, ToLocalTime, r, d
  <2>7. s + r.gmtOffset \in Int
    BY <2>5
  <2> QED  BY <2>6, <2>7, GmtimeIs
<1> QED  BY <1>1, <1>2

-----------------------------------------------------------------------------
(* The place of an instant among keys that increase: the last one that is  *)
(* not above it, or 0.                                                     *)
Increasing(K, n) ==
    /\ n \in Nat /\ K \in [1..n -> Int]
    /\ \A i \in 1..(n - 1) : K[i] < K[i + 1]
Place(K, n, s, k) ==
    k \in 0..n /\ (k > 0 => K[k] <= s) /\ (k < n => s < K[k + 1])

LEMMA KeysInOrder ==
    ASSUME NEW n, NEW K, Increasing(K, n), NEW i \in 1..n, NEW j \in 1..n, i < j
    PROVE  K[i] < K[j]
<1> DEFINE T == {d \in Nat : i + 1 + d <= n => K[i] < K[i + 1 + d]}
<1>1. n \in Nat /\ i \in Int /\ K \in [1..n -> Int]
  BY DEF Increasing
<1>2. 0 \in T
  <2> SUFFICES ASSUME i + 1 <= n PROVE K[i] < K[i + 1]
    BY <1>1
  <2>1. i \in 1..(n - 1)
    BY <1>1
  <2> QED  BY <2>1 DEF Increasing
<1>3. ASSUME NEW d \in Nat, d \in T PROVE d + 1 \in T
  <2> SUFFICES ASSUME i + 1 + (d + 1) <= n PROVE K[i] < K[i + 1 + (d + 1)]
    OBVIOUS
  <2> DEFINE m == i + 1 + d
  <2>1. /\ m \in 1..(n - 1) /\ m <= n /\ m + 1 = i + 1 + (d + 1) /\ m \in 1..n
        /\ m + 1 \in 1..n
    BY <1>1
  <2>2. K[m] < K[m + 1] /\ K[i] < K[m]
    BY <1>3, <2>1 DEF Increasing
  <2>3. K[i] \in Int /\ K[m] \in Int /\ K[m + 1] \in Int
    BY <1>1, <2>1
  <2> HIDE DEF m
  <2>4. K[i] < K[m + 1]
    BY <2>2, <2>3
  <2> QED  BY <2>1, <2>4
<1>4. j - (i + 1) \in Nat /\ i + 1 + (j - (i + 1)) = j /\ j <= n
  BY <1>1
<1> HIDE DEF T
<1>5. j - (i + 1) \in T
  BY <1>2, <1>3, <1>4, Induction
<1> QED  BY <1>4, <1>5 DEF T

LEMMA PlaceIs ==
    ASSUME NEW n, NEW K, Increasing(K, n), NEW s \in Int, NEW k, Place(K, n, s, k)
    PROVE  \A i \in 1..n : K[i] <= s <=> i <= k
<1>1. n \in Nat /\ k \in 0..n /\ K \in [1..n -> Int]
  BY DEF Increasing, Place
<1> SUFFICES ASSUME NEW i \in 1..n PROVE K[i] <= s <=> i <= k
  OBVIOUS
<1>2. K[i] \in Int
  BY <1>1
<1>3. CASE i <= k
  <2>1. k \in 1..n /\ k > 0
    BY <1>1, <1>3
  <2>2. K[k] <= s /\ K[k] \in Int
    BY <1>1, <2>1 DEF Place
  <2>3. CASE i = k
    BY <1>3, <2>2, <2>3
  <2>4. CASE i # k
    <3>1. i < k
      BY <1>1, <1>3, <2>4
    <3>2. K[i] < K[k]
      BY <2>1, <3>1, KeysInOrder
    <3> QED  BY <1>2, <1>3, <2>2, <3>2
  <2> QED  BY <2>3, <2>4
<1>4. CASE ~ (i <= k)
  <2>1. k < n /\ k + 1 \in 1..n /\ (i = k + 1 \/ k + 1 < i)
    BY <1>1, <1>4
  <2>2. s < K[k + 1] /\ K[k + 1] \in Int
    BY <1>1, <2>1 DEF Place
  <2>3. K[k + 1] <= K[i]
    <3>1. CASE i = k + 1
      BY <1>2, <3>1
    <3>2. CASE k + 1 < i
      <4>1. K[k + 1] < K[i]
        BY <2>1, <3>2, KeysInOrder
      <4> QED  BY <1>2, <2>2, <4>1
    <3> QED  BY <2>1, <3>1, <3>2
  <2>4. ~ (K[i] <= s)
    BY <1>2, <2>2, <2>3
  <2> QED  BY <1>4, <2>4
<1> QED  BY <1>3, <1>4

LEMMA OnePlace ==
    ASSUME NEW n, NEW K, Increasing(K, n), NEW s \in Int,
           NEW k, Place(K, n, s, k), NEW j, Place(K, n, s, j)
    PROVE  k = j
<1>1. n \in Nat /\ k \in 0..n /\ j \in 0..n
  BY DEF Increasing, Place
<1>2. \A i \in 1..n : i <= k <=> i <= j
  BY PlaceIs
<1>3. \A a, b \in 0..n : (\A i \in 1..n : i <= a <=> i <= b) => ~ (a < b)
  <2> SUFFICES ASSUME NEW a \in 0..n, NEW b \in 0..n, \A i \in 1..n : i <= a <=> i <= b,
                      a < b
               PROVE  FALSE
    OBVIOUS
  <2>1. b \in 1..n /\ ~ (b <= a) /\ b <= b
    BY <1>1
  <2> QED  BY <2>1
<1>4. ~ (k < j) /\ ~ (j < k)
  BY <1>1, <1>2, <1>3
<1> QED  BY <1>1, <1>4

(* A zone file whose clocks are regular, as it was read.                   *)
Gmt(f) == [i \in 1..Len(f.trans) |-> f.trans[i]]
Here(f) == [i \in 1..Len(f.trans) |-> f.trans[i] + TypeFrom(f, i).gmtOffset]
Shift(f) == [i \in 0..Len(f.trans) |-> TypeFrom(f, i).gmtOffset]

LEMMA RegularIs ==
    ASSUME NEW f, WellFormed(f), Regular(f)
    PROVE  LET n == Len(f.trans)
               d == ReadTimeZoneFile(f) IN
           /\ n \in Nat /\ f.trans \in Seq(Int)
           /\ \A i \in 0..n : TypeFrom(f, i) \in LocalTypes
           /\ d.localtimes # <<>> /\ d.localtimes[1] = TypeFrom(f, 0)
           /\ Len(d.transitions) = n
           /\ \A i \in 1..n :
                 /\ d.transitions[i] =
                       [gmttime |-> f.trans[i],
                        localtime |-> f.trans[i] + TypeFrom(f, i).gmtOffset,
                        localtimeIdx |-> f.idx[i]]
                 /\ d.localtimes[f.idx[i] + 1] = TypeFrom(f, i)
<1> DEFINE d == ReadTimeZoneFile(f)
           n == Len(f.trans)
           k == Len(f.types)
           ty == f.types
           tr == f.trans
           ix == f.idx
           C(i) == [gmttime |-> tr[i], localtime |-> tr[i] + ty[ix[i] + 1].gmtOffset,
                    localtimeIdx |-> ix[i]]
<1>1. /\ tr \in Seq(Int) /\ ix \in Seq(Nat) /\ ty \in Seq(LocalTypes)
      /\ Len(ix) = n /\ (\A i \in 1..n : ix[i] < k)
  BY DEF WellFormed, LocalTypes
<1>2. ty # <<>> /\ f.read = k
  BY DEF Regular
<1>3. n \in Nat /\ k \in Nat /\ k >= 1 /\ ~ (k < k)
  BY <1>1, <1>2
<1>4. \A i \in 1..n : ix[i] \in Nat /\ ix[i] + 1 \in 1..k
  <2> SUFFICES ASSUME NEW i \in 1..n PROVE ix[i] \in Nat /\ ix[i] + 1 \in 1..k
    OBVIOUS
  <2>1. ix[i] \in Nat /\ ix[i] < k
    BY <1>1
  <2> QED  BY <1>3, <2>1
<1>5. \A i \in 1..n : TypeFrom(f, i) = ty[ix[i] + 1]
  <2>1. \A i \in 1..n : i # 0
    BY <1>3
  <2> QED  BY <2>1 DEF TypeFrom
<1>6. TypeFrom(f, 0) = ty[1]
  BY DEF TypeFrom
<1>7. SubSeq(ty, 1, k) = ty
  BY <1>1, <1>3
<1>8. d = [localtimes |-> ty, transitions |-> [i \in 1..n |-> C(i)]]
  BY <1>2, <1>3, <1>7 DEF ReadTimeZoneFile
<1>9. \A i \in 1..k : ty[i] \in LocalTypes
  BY <1>1
<1> HIDE DEF d
<1> DEFINE q == [i \in 1..n |-> C(i)]
<1>10. d.localtimes = ty /\ d.transitions = q
  BY <1>8
<1>11. \A i \in 1..n : q[i] = C(i)
  OBVIOUS
<1>12. Len(q) = n
  BY <1>3
<1> HIDE DEF q
<1>13. \A i \in 0..n : TypeFrom(f, i) \in LocalTypes
  <2> SUFFICES ASSUME NEW i \in 0..n PROVE TypeFrom(f, i) \in LocalTypes
    OBVIOUS
  <2>1. CASE i = 0
    BY <1>3, <1>6, <1>9, <2>1
  <2>2. CASE i # 0
    <3>1. i \in 1..n
      BY <1>3, <2>2
    <3> QED  BY <1>4, <1>5, <1>9, <3>1
  <2> QED  BY <2>1, <2>2
<1>14. \A i \in 1..n :
          /\ d.transitions[i] = [gmttime |-> tr[i],
                                 localtime |-> tr[i] + TypeFrom(f, i).gmtOffset,
                                 localtimeIdx |-> ix[i]]
          /\ d.localtimes[ix[i] + 1] = TypeFrom(f, i)
  BY <1>5, <1>10, <1>11
<1>15. d.localtimes # <<>> /\ d.localtimes[1] = TypeFrom(f, 0) /\ Len(d.transitions) = n
  BY <1>2, <1>6, <1>10, <1>12
<1> QED  BY <1>1, <1>3, <1>13, <1>14, <1>15 DEF d

(* The changes of a regular file, by their instants and by local time.     *)
LEMMA RegularKeys ==
    ASSUME NEW f, WellFormed(f), Regular(f)
    PROVE  LET n == Len(f.trans)
               T == Gmt(f)
               L == Here(f)
               o == Shift(f) IN
           /\ Increasing(T, n) /\ Increasing(L, n) /\ o \in [0..n -> Int]
           /\ \A i \in 1..n : L[i] = T[i] + o[i]
           /\ \A i \in 1..(n - 1) : T[i] + 3600 < T[i + 1]
           /\ \A i \in 1..n :
                 \/ o[i - 1] <= o[i]
                 \/ /\ o[i - 1] = o[i] + 3600
                    /\ TypeFrom(f, i - 1).isDst /\ ~ TypeFrom(f, i).isDst
<1> DEFINE n == Len(f.trans)
           T == Gmt(f)
           L == Here(f)
           o == Shift(f)
           ty(i) == TypeFrom(f, i)
<1>1. n \in Nat /\ f.trans \in Seq(Int) /\ \A i \in 0..n : ty(i) \in LocalTypes
  BY RegularIs
<1>2. \A i \in 0..n : ty(i).gmtOffset \in Int
  BY <1>1 DEF LocalTypes
<1>3. o \in [0..n -> Int] /\ \A i \in 0..n : o[i] = ty(i).gmtOffset
  BY <1>2 DEF Shift
<1>4. T \in [1..n -> Int] /\ \A i \in 1..n : T[i] = f.trans[i]
  BY <1>1 DEF Gmt
<1>5. \A i \in 1..n : i \in 0..n /\ i - 1 \in 0..n
  BY <1>1
<1>6. L \in [1..n -> Int] /\ \A i \in 1..n : L[i] = T[i] + o[i]
  <2>1. \A i \in 1..n : f.trans[i] + ty(i).gmtOffset = T[i] + o[i]
    BY <1>3, <1>4, <1>5
  <2>2. \A i \in 1..n : T[i] + o[i] \in Int
    BY <1>3, <1>4, <1>5
  <2> HIDE DEF T, o
  <2> QED  BY <2>1, <2>2 DEF Here
<1>7. \A i \in 1..(n - 1) : i \in 1..n /\ i + 1 \in 1..n
  BY <1>1
<1>8. \A i \in 1..(n - 1) :
         /\ f.trans[i] + 3600 < f.trans[i + 1]
         /\ f.trans[i] + ty(i).gmtOffset < f.trans[i + 1] + ty(i + 1).gmtOffset
  BY DEF Regular
<1>9. \A i \in 1..n :
         \/ ty(i - 1).gmtOffset <= ty(i).gmtOffset
         \/ /\ ty(i - 1).gmtOffset = ty(i).gmtOffset + 3600
            /\ ty(i - 1).isDst /\ ~ ty(i).isDst
  BY DEF Regular
<1> HIDE DEF T, L, o, n, ty
<1>10. \A i \in 1..(n - 1) : T[i] + 3600 < T[i + 1]
  BY <1>4, <1>7, <1>8
<1>11. Increasing(T, n)
  <2>1. ASSUME NEW i \in 1..(n - 1) PROVE T[i] < T[i + 1]
    <3>1. T[i] \in Int /\ T[i + 1] \in Int /\ T[i] + 3600 < T[i + 1]
      BY <1>4, <1>7, <1>10
    <3> QED  BY <3>1
  <2> QED  BY <1>1, <1>4, <2>1 DEF Increasing
<1>12. Increasing(L, n)
  <2>1. ASSUME NEW i \in 1..(n - 1) PROVE L[i] < L[i + 1]
    <3>1. i \in 1..n /\ i + 1 \in 1..n
      BY <1>7
    <3>2. /\ L[i] = f.trans[i] + ty(i).gmtOffset
          /\ L[i + 1] = f.trans[i + 1] + ty(i + 1).gmtOffset
      BY <1>3, <1>4, <1>5, <1>6, <3>1
    <3> QED  BY <1>8, <3>2
  <2> QED  BY <1>1, <1>6, <2>1 DEF Increasing
<1>13. ASSUME NEW i \in 1..n
       PROVE  \/ o[i - 1] <= o[i]
              \/ o[i - 1] = o[i] + 3600 /\ ty(i - 1).isDst /\ ~ ty(i).isDst
  <2>1. o[i - 1] = ty(i - 1).gmtOffset /\ o[i] = ty(i).gmtOffset
    BY <1>3, <1>5
  <2> QED  BY <1>9, <2>1
<1> QED  BY <1>3, <1>6, <1>10, <1>11, <1>12, <1>13 DEF n, T, L, o, ty

(* findLocaltime finds the type of the place of what is asked, among the   *)
(* instants or the local times of the changes.                             *)
LEMMA FindsPlace ==
    ASSUME NEW f, WellFormed(f), Regular(f), NEW s \in Int
    PROVE  LET n == Len(f.trans)
               d == ReadTimeZoneFile(f) IN
           /\ \E k \in 0..n : /\ Place(Gmt(f), n, s, k)
                              /\ FindLocaltime(d, s, "gmttime") = TypeFrom(f, k)
           /\ \E k \in 0..n : /\ Place(Here(f), n, s, k)
                              /\ FindLocaltime(d, s, "localtime") = TypeFrom(f, k)
<1> DEFINE n == Len(f.trans)
           d == ReadTimeZoneFile(f)
           tr == d.transitions
<1>1. /\ n \in Nat /\ GoodData(d) /\ d.localtimes # <<>>
      /\ d.localtimes[1] = TypeFrom(f, 0) /\ Len(tr) = n
      /\ Increasing(Gmt(f), n) /\ Increasing(Here(f), n)
  BY RegularIs, RegularKeys, ReadData
<1>2. \A i \in 1..n :
         /\ tr[i]["gmttime"] = Gmt(f)[i] /\ tr[i]["localtime"] = Here(f)[i]
         /\ d.localtimes[tr[i].localtimeIdx + 1] = TypeFrom(f, i)
  <2> SUFFICES ASSUME NEW i \in 1..n
               PROVE  /\ tr[i]["gmttime"] = Gmt(f)[i] /\ tr[i]["localtime"] = Here(f)[i]
                      /\ d.localtimes[tr[i].localtimeIdx + 1] = TypeFrom(f, i)
    OBVIOUS
  <2> DEFINE g == Gmt(f)[i]
             h == Here(f)[i]
             x == f.idx[i]
  <2>1. g = f.trans[i] /\ h = f.trans[i] + TypeFrom(f, i).gmtOffset
    BY DEF Gmt, Here
  <2>2. /\ tr[i] = [gmttime |-> g, localtime |-> h, localtimeIdx |-> x]
        /\ d.localtimes[x + 1] = TypeFrom(f, i)
    BY <2>1, RegularIs
  <2> HIDE DEF g, h, x, tr, d
  <2>3. tr[i]["gmttime"] = g /\ tr[i]["localtime"] = h /\ tr[i].localtimeIdx = x
    BY <2>2
  <2> QED  BY <2>2, <2>3 DEF g, h
<1> HIDE DEF d
<1>3. ASSUME NEW by, NEW K, Increasing(K, n), \A i \in 1..n : tr[i][by] = K[i]
      PROVE  \E k \in 0..n : /\ Place(K, n, s, k)
                             /\ FindLocaltime(d, s, by) = TypeFrom(f, k)
  <2> DEFINE r == FindLocaltime(d, s, by)
  <2>1. K \in [1..n -> Int] /\ \A i \in 1..(n - 1) : K[i] < K[i + 1]
    BY <1>3 DEF Increasing
  <2>2. \A i \in 1..n : K[i] \in Int
    BY <2>1
  <2>3. \A i \in 1..n : tr[i][by] \in Int
    BY <1>3, <2>2
  <2>4. /\ n = 0 \/ s < tr[1][by] => r = d.localtimes[1]
        /\ n # 0 /\ ~ (s < tr[1][by]) =>
             \E at \in 1..n :
                /\ r = d.localtimes[tr[at].localtimeIdx + 1] /\ tr[at][by] <= s
                /\ (\A i \in 1..(n - 1) : tr[i][by] < tr[i + 1][by]) /\ at < n =>
                       s < tr[at + 1][by]
    BY <1>1, <2>3, FindIs
  <2>5. \A i \in 1..(n - 1) : i \in 1..n /\ i + 1 \in 1..n
    BY <1>1
  <2>6. \A i \in 1..(n - 1) : tr[i][by] < tr[i + 1][by]
    BY <1>3, <2>1, <2>5
  <2> HIDE DEF r, tr, n
  <2>7. CASE n = 0 \/ s < tr[1][by]
    <3>1. n # 0 => 1 \in 1..n
      BY <1>1
    <3>2. 0 < n => s < K[0 + 1]
      BY <1>1, <1>3, <2>7, <3>1
    <3>3. 0 \in 0..n /\ ~ (0 > 0)
      BY <1>1
    <3>4. Place(K, n, s, 0)
      BY <3>2, <3>3 DEF Place
    <3>5. r = TypeFrom(f, 0)
      BY <1>1, <2>4, <2>7
    <3> QED  BY <3>3, <3>4, <3>5 DEF r
  <2>8. CASE n # 0 /\ ~ (s < tr[1][by])
    <3>1. PICK at \in 1..n :
             /\ r = d.localtimes[tr[at].localtimeIdx + 1] /\ tr[at][by] <= s
             /\ at < n => s < tr[at + 1][by]
      BY <2>4, <2>6, <2>8
    <3>2. at \in 0..n /\ (at < n => at + 1 \in 1..n)
      BY <1>1
    <3>3. Place(K, n, s, at)
      BY <1>3, <3>1, <3>2 DEF Place
    <3>4. r = TypeFrom(f, at)
      BY <1>2, <3>1
    <3> QED  BY <3>2, <3>3, <3>4 DEF r
  <2> QED  BY <2>7, <2>8
<1>4. /\ \E k \in 0..n : /\ Place(Gmt(f), n, s, k)
                         /\ FindLocaltime(d, s, "gmttime") = TypeFrom(f, k)
      /\ \E k \in 0..n : /\ Place(Here(f), n, s, k)
                         /\ FindLocaltime(d, s, "localtime") = TypeFrom(f, k)
  BY <1>1, <1>2, <1>3
<1> QED  BY <1>4 DEF d

(* The offset in force is that of the place of an instant.                 *)
LEMMA InForceIs ==
    ASSUME NEW f, WellFormed(f), Regular(f), NEW s \in Int,
           NEW k \in 0..Len(f.trans), Place(Gmt(f), Len(f.trans), s, k)
    PROVE  InForce(f, s) = TypeFrom(f, k)
<1> DEFINE n == Len(f.trans)
           P == {i \in 1..n : f.trans[i] <= s}
<1>1. n \in Nat /\ Increasing(Gmt(f), n)
  BY RegularIs, RegularKeys
<1>2. \A i \in 1..n : Gmt(f)[i] <= s <=> i <= k
  BY <1>1, PlaceIs
<1>3. \A i \in 1..n : Gmt(f)[i] = f.trans[i]
  BY DEF Gmt
<1>4. P = {i \in 1..n : i <= k}
  BY <1>2, <1>3
<1>5. InForce(f, s) = IF P = {} THEN f.types[1] ELSE f.types[f.idx[Max(P)] + 1]
  BY DEF InForce
<1> HIDE DEF n, P
<1>a. k \in 0..n
  BY DEF n
<1>6. CASE k = 0
  <2>1. P = {}
    BY <1>1, <1>4, <1>6
  <2> QED  BY <1>5, <1>6, <2>1 DEF TypeFrom
<1>7. CASE k # 0
  <2>1. k \in P /\ \A i \in P : i <= k /\ i \in 1..n
    BY <1>1, <1>4, <1>7, <1>a
  <2>2. Max(P) = k
    <3>1. Max(P) = CHOOSE x \in P : \A y \in P : x >= y
      BY DEF Max
    <3>2. \A y \in P : k >= y
      BY <1>1, <2>1, <1>a
    <3>3. \A x \in P : (\A y \in P : x >= y) => x = k
      BY <1>1, <2>1, <1>a
    <3> QED  BY <2>1, <3>1, <3>2, <3>3
  <2> QED  BY <1>5, <1>7, <2>1, <2>2 DEF TypeFrom
<1> QED  BY <1>6, <1>7

(* The place of a local time is that of its instant, or the one after it   *)
(* in the hour that comes twice; never a later one.                        *)
Repeats(f, t, k, m) ==
    /\ m = k + 1 /\ Shift(f)[k] = Shift(f)[m] + 3600
    /\ TypeFrom(f, k).isDst /\ ~ TypeFrom(f, m).isDst
    /\ Place(Gmt(f), Len(f.trans), t + 3600, m)

LEMMA PlacesMeet ==
    ASSUME NEW f, WellFormed(f), Regular(f), NEW t \in Int,
           NEW k \in 0..Len(f.trans), Place(Gmt(f), Len(f.trans), t, k),
           NEW m \in 0..Len(f.trans),
           Place(Here(f), Len(f.trans), t + Shift(f)[k], m)
    PROVE  m = k \/ Repeats(f, t, k, m)
<1> DEFINE n == Len(f.trans)
           T == Gmt(f)
           L == Here(f)
           o == Shift(f)
           s == t + o[k]
           dst(i) == TypeFrom(f, i).isDst
<1>1. /\ Increasing(T, n) /\ Increasing(L, n) /\ o \in [0..n -> Int]
      /\ \A i \in 1..n : L[i] = T[i] + o[i]
      /\ \A i \in 1..(n - 1) : T[i] + 3600 < T[i + 1]
      /\ \A i \in 1..n : \/ o[i - 1] <= o[i]
                         \/ o[i - 1] = o[i] + 3600 /\ dst(i - 1) /\ ~ dst(i)
  BY RegularKeys
<1>2. n \in Nat /\ T \in [1..n -> Int] /\ L \in [1..n -> Int]
  BY <1>1 DEF Increasing
<1>3. Place(T, n, t, k) /\ Place(L, n, s, m) /\ k \in 0..n /\ m \in 0..n
  OBVIOUS
<1> HIDE DEF n, T, L, o, dst
<1>4. o[k] \in Int /\ s \in Int
  BY <1>1, <1>3
<1>5. \A i \in 1..n : T[i] \in Int /\ L[i] \in Int /\ o[i] \in Int /\ i \in Int
  BY <1>1, <1>2
<1>6. \A i \in 1..n : L[i] <= s <=> i <= m
  BY <1>1, <1>3, <1>4, PlaceIs
<1>7. \A i \in 1..n : T[i] <= t <=> i <= k
  BY <1>1, <1>3, PlaceIs
<1> HIDE DEF s
<1>8. k <= m
  <2>1. CASE k = 0
    BY <1>2, <1>3, <2>1
  <2>2. CASE k # 0
    <3>1. k \in 1..n /\ k <= k
      BY <1>2, <1>3, <2>2
    <3>2. T[k] <= t /\ L[k] = T[k] + o[k] /\ T[k] \in Int
      BY <1>1, <1>5, <1>7, <3>1
    <3>3. L[k] <= s
      BY <1>4, <3>2 DEF s
    <3> QED  BY <1>6, <3>1, <3>3
  <2> QED  BY <2>1, <2>2
<1>9. CASE m = k
  BY <1>9
<1>10. CASE m # k
  <2> DEFINE j == k + 1
  <2>1. j \in 1..n /\ j <= m /\ ~ (j <= k) /\ j - 1 = k /\ j \in Int
    BY <1>2, <1>3, <1>8, <1>10
  <2>2. T[j] \in Int /\ o[j] \in Int /\ L[j] = T[j] + o[j] /\ L[j] <= s /\ ~ (T[j] <= t)
    BY <1>1, <1>5, <1>6, <1>7, <2>1
  <2>3. \/ o[k] <= o[j]
        \/ o[k] = o[j] + 3600 /\ dst(k) /\ ~ dst(j)
    BY <1>1, <2>1
  <2> HIDE DEF j
  <2>4. ~ (o[k] <= o[j])
    BY <1>4, <2>2 DEF s
  <2>5. o[k] = o[j] + 3600 /\ dst(k) /\ ~ dst(j)
    BY <2>3, <2>4
  <2>6. T[j] <= t + 3600
    BY <1>4, <2>2, <2>5 DEF s
  <2>7. ASSUME j < n PROVE j + 1 \in 1..n /\ t + 3600 < T[j + 1]
    <3>1. j \in 1..(n - 1) /\ j + 1 \in 1..n
      BY <1>2, <2>1, <2>7
    <3>2. T[j] + 3600 < T[j + 1] /\ T[j + 1] \in Int
      BY <1>1, <1>5, <3>1
    <3>3. t + 3600 < T[j + 1]
      BY <2>2, <3>2
    <3> QED  BY <3>1, <3>3
  <2>8. m = j
    <3> SUFFICES ASSUME m # j PROVE FALSE
      OBVIOUS
    <3>1. j < n /\ j + 1 <= m /\ (j + 1) - 1 = j
      BY <1>2, <1>3, <2>1
    <3> DEFINE p == j + 1
    <3>2. p \in 1..n /\ t + 3600 < T[p] /\ p <= m /\ p - 1 = j
      BY <2>7, <3>1
    <3>3. T[p] \in Int /\ o[p] \in Int /\ L[p] = T[p] + o[p] /\ L[p] <= s
      BY <1>1, <1>5, <1>6, <3>2
    <3>4. o[j] <= o[p] \/ dst(j)
      BY <1>1, <3>2
    <3> HIDE DEF p
    <3>5. o[j] <= o[p]
      BY <2>5, <3>4
    <3>6. T[p] + o[p] <= t + (o[j] + 3600)
      BY <2>5, <3>3 DEF s
    <3> QED  BY <2>2, <3>2, <3>3, <3>5, <3>6
  <2>9. Place(T, n, t + 3600, j)
    <3>1. j \in 0..n
      BY <2>1
    <3> QED  BY <2>6, <2>7, <3>1 DEF Place
  <2> QED  BY <2>5, <2>8, <2>9 DEF n, T, o, dst, j, Repeats
<1> QED  BY <1>9, <1>10

LEMMA LocalIs ==
    ASSUME NEW f, WellFormed(f), Regular(f), NEW t \in Int
    PROVE  LET d == ReadTimeZoneFile(f)
               local == ToLocalTime(d, t)
           IN  /\ Timegm(local.tm) = t + InForce(f, t).gmtOffset
               /\ FromLocalTime(d, local) = t
<1> DEFINE n == Len(f.trans)
           d == ReadTimeZoneFile(f)
           o == Shift(f)
           ty(i) == TypeFrom(f, i)
           to(s, i) == [tm |-> Gmtime(s + o[i]), isDst |-> ty(i).isDst]
           local == ToLocalTime(d, t)
<1>1. /\ n \in Nat /\ Increasing(Gmt(f), n) /\ o \in [0..n -> Int]
  BY RegularIs, RegularKeys
<1>2. \A i \in 0..n : o[i] = ty(i).gmtOffset
  BY DEF Shift
<1>3. ASSUME NEW s \in Int, NEW i \in 0..n, Place(Gmt(f), n, s, i)
      PROVE  ToLocalTime(d, s) = to(s, i)
  <2>1. PICK j \in 0..n : Place(Gmt(f), n, s, j) /\ FindLocaltime(d, s, "gmttime") = ty(j)
    BY FindsPlace
  <2>2. i = j
    BY <1>1, <1>3, <2>1, OnePlace
  <2>3. FindLocaltime(d, s, "gmttime") = ty(i) /\ ty(i).gmtOffset = o[i]
    BY <1>2, <2>1, <2>2
  <2> HIDE DEF ty, d, o
  <2> QED  BY <2>3 DEF ToLocalTime
<1>4. PICK k \in 0..n : Place(Gmt(f), n, t, k)
  BY FindsPlace
<1>5. local = to(t, k)
  BY <1>3, <1>4
<1> DEFINE x == t + o[k]
<1>6. x \in Int /\ o[k] \in Int
  BY <1>1
<1>7. local.tm = Gmtime(x) /\ local.isDst = ty(k).isDst
  BY <1>5
<1>8. Timegm(local.tm) = x
  BY <1>6, <1>7, GmtimeIs
<1>9. InForce(f, t).gmtOffset = o[k]
  BY <1>2, <1>4, InForceIs
<1>10. PICK m \in 0..n : Place(Here(f), n, x, m) /\ FindLocaltime(d, x, "localtime") = ty(m)
  BY <1>6, FindsPlace
<1>11. \/ m = k
       \/ /\ m = k + 1 /\ o[k] = o[m] + 3600 /\ ty(k).isDst /\ ~ ty(m).isDst
          /\ Place(Gmt(f), n, t + 3600, m)
  <2>1. Place(Gmt(f), Len(f.trans), t, k) /\ Place(Here(f), Len(f.trans), t + Shift(f)[k], m)
    BY <1>4, <1>10
  <2>2. m = k \/ Repeats(f, t, k, m)
    BY <2>1, PlacesMeet
  <2> QED  BY <2>2 DEF Repeats
<1> DEFINE try == ToLocalTime(d, x - o[m])
           twice == /\ local.isDst /\ ~ try.isDst
                    /\ try.tm.hour = local.tm.hour /\ try.tm.min = local.tm.min
<1>12. o[m] \in Int /\ ty(m).gmtOffset = o[m]
  BY <1>1, <1>2
<1>13. FromLocalTime(d, local) = (IF twice THEN x - 3600 ELSE x) - o[m]
  <2> HIDE DEF local, d, ty, o, x
  <2> QED  BY <1>8, <1>10, <1>12 DEF FromLocalTime
<1>14. CASE m = k
  <2>1. x - o[m] = t
    BY <1>6, <1>14
  <2>2. try = local
    BY <2>1
  <2> HIDE DEF local, try, x, o, d, ty
  <2>3. ~ twice
    BY <2>2, Zenon
  <2> HIDE DEF twice
  <2>4. FromLocalTime(d, local) = x - o[m]
    BY <1>13, <2>3
  <2> QED  BY <1>8, <1>9, <2>1, <2>4 DEF local, d, x
<1>15. CASE m # k
  <2>1. x - o[m] = t + 3600 /\ (x - 3600) - o[m] = t /\ (t + 3600) + o[m] = x
    <3>1. o[k] = o[m] + 3600
      BY <1>11, <1>15
    <3> QED  BY <1>6, <1>12, <3>1
  <2>2. try = to(t + 3600, m)
    <3>1. t + 3600 \in Int /\ Place(Gmt(f), n, t + 3600, m)
      BY <1>11, <1>15
    <3> QED  BY <1>3, <2>1, <3>1
  <2>3. try.tm = Gmtime(x) /\ try.isDst = ty(m).isDst
    BY <2>1, <2>2
  <2>4. local.isDst /\ ~ try.isDst /\ try.tm = local.tm
    BY <1>7, <1>11, <1>15, <2>3
  <2> HIDE DEF local, try, x, o, d, ty
  <2>5. twice
    BY <2>4
  <2> HIDE DEF twice
  <2>6. FromLocalTime(d, local) = (x - 3600) - o[m]
    BY <1>13, <2>5
  <2> QED  BY <1>8, <1>9, <2>1, <2>6 DEF local, d, x
<1> QED  BY <1>14, <1>15

(* Every local time leads back to its instant, in every zone file whose    *)
(* clocks are regular and at every instant, the hour that comes twice and  *)
(* those about a change included.                                          *)
THEOREM LocalTimesAreRight == LogSpec => []LocalTimeRight
<1>1. LocalTimeRight
  <2> SUFFICES ASSUME NEW f \in Files, Regular(f)
               PROVE  LocalRight(f, LocalSeconds)
    BY DEF LocalTimeRight
  <2>1. WellFormed(f) /\ \A t \in LocalSeconds : t \in Int
    BY LoggingAssumption
  <2> QED  BY <2>1, LocalIs DEF LocalRight
<1> QED  BY <1>1, PTL

-----------------------------------------------------------------------------
(* The calendar.  A day is counted by its century b, its year d of the     *)
(* century and its day e of the year, in years that begin in March; the    *)
(* last of the year is in its leap day when it has one.                    *)
Century(b) == (b * 146097) \div 4
Years(d) == (1461 * d) \div 4
MonthStart(m) == (153 * m + 2) \div 5
LastDay(b, d) == IF (d % 4 = 3 /\ d # 99) \/ (d = 99 /\ b % 4 = 3) THEN 365 ELSE 364
Triple(a, b, d, e) ==
    /\ b \in Int /\ d \in 0..99 /\ e \in 0..365 /\ e <= LastDay(b, d)
    /\ a = Century(b) + Years(d) + e

(* The steps of getYearMonthDay.                                           *)
CodeB(a) == (4 * a + 3) \div 146097
CodeC(a) == a - Century(CodeB(a))
CodeD(a) == (4 * CodeC(a) + 3) \div 1461
CodeE(a) == CodeC(a) - Years(CodeD(a))
CodeM(e) == (5 * e + 2) \div 153

LEMMA CenturyIs ==
    \A b \in Int : /\ Century(b) \in Int /\ b % 4 \in 0..3
                  /\ 4 * Century(b) = 146097 * b - (b % 4)
  BY SMT DEF Century

LEMMA YearsIs ==
    \A d \in Int : /\ Years(d) \in Int /\ d % 4 \in 0..3
                  /\ 4 * Years(d) = 1461 * d - (d % 4)
  BY SMT DEF Years

LEMMA CodeTriple ==
    ASSUME NEW a \in Int
    PROVE  Triple(a, CodeB(a), CodeD(a), CodeE(a))
<1>1. PICK b \in Int : b = CodeB(a) /\ 146097 * b <= 4 * a + 3
                      /\ 4 * a + 3 < 146097 * b + 146097
  BY SMT DEF CodeB
<1> DEFINE B == Century(b)
<1>2. B \in Int /\ 4 * B = 146097 * b - (b % 4) /\ b % 4 \in 0..3
  BY SMT DEF Century
<1> HIDE DEF B
<1>3. PICK c \in Int : c = CodeC(a) /\ a = B + c
  BY <1>1, <1>2, SMT DEF CodeC, B
<1>4. 0 <= c /\ c <= 36524 /\ (c = 36524 => b % 4 = 3)
  BY <1>1, <1>2, <1>3, SMT
<1>5. PICK d \in Int : d = CodeD(a) /\ 1461 * d <= 4 * c + 3 /\ 4 * c + 3 < 1461 * d + 1461
  BY <1>3, SMT DEF CodeD
<1> DEFINE D == Years(d)
<1>6. D \in Int /\ 4 * D = 1461 * d - (d % 4) /\ d % 4 \in 0..3
  BY SMT DEF Years
<1> HIDE DEF D
<1>7. PICK e \in Int : e = CodeE(a) /\ c = D + e
  BY <1>3, <1>5, <1>6, SMT DEF CodeE, D
<1>8. d \in 0..99
  BY <1>4, <1>5, SMT
<1>9. e \in 0..365 /\ (e = 365 => d % 4 = 3)
  BY <1>4, <1>5, <1>6, <1>7, SMT
<1>10. d = 99 /\ e = 365 => b % 4 = 3
  BY <1>4, <1>6, <1>7, SMT
<1>11. e <= LastDay(b, d)
  BY <1>8, <1>9, <1>10, SMT DEF LastDay
<1>12. a = B + D + e
  BY <1>2, <1>3, <1>6, <1>7, SMT
<1>13. Triple(a, b, d, e)
  BY <1>8, <1>9, <1>11, <1>12, SMT DEF Triple, B, D
<1> QED  BY <1>1, <1>5, <1>7, <1>13, SMT

LEMMA TripleCode ==
    ASSUME NEW a \in Int, NEW b, NEW d, NEW e, Triple(a, b, d, e)
    PROVE  CodeB(a) = b /\ CodeD(a) = d /\ CodeE(a) = e
<1> DEFINE B == Century(b)
           D == Years(d)
<1>1. b \in Int /\ d \in 0..99 /\ e \in 0..365 /\ e <= LastDay(b, d) /\ a = B + D + e
  BY SMT DEF Triple
<1>2. B \in Int /\ 4 * B = 146097 * b - (b % 4) /\ b % 4 \in 0..3
  BY <1>1, CenturyIs, SMT
<1>3. D \in Int /\ 4 * D = 1461 * d - (d % 4) /\ d % 4 \in 0..3
  BY <1>1, YearsIs, SMT
<1>4. /\ e = 365 => d % 4 = 3
      /\ d = 99 /\ e = 365 => b % 4 = 3
  BY <1>1, SMT DEF LastDay
<1> HIDE DEF B, D
<1> DEFINE c == D + e
<1>5. c \in Int /\ 0 <= c /\ c <= 36524 /\ (c = 36524 => b % 4 = 3)
  <2>1. d = 99 => D = 36159
    BY <1>3, SMT
  <2>2. d # 99 => D <= 35794
    BY <1>1, <1>3, SMT
  <2>3. D >= 0
    BY <1>1, <1>3, SMT
  <2> QED  BY <1>1, <1>3, <1>4, <2>1, <2>2, <2>3, SMT
<1>6. 146097 * b <= 4 * a + 3 /\ 4 * a + 3 < 146097 * b + 146097
  <2> DEFINE r == b % 4
  <2>1. r \in 0..3 /\ 4 * B = 146097 * b - r /\ (c = 36524 => r = 3)
    BY <1>2, <1>5, SMT
  <2>2. a = B + c
    BY <1>1, <1>2, <1>3, SMT
  <2> HIDE DEF r, c
  <2> QED  BY <1>1, <1>2, <1>5, <2>1, <2>2, SMT
<1>7. CodeB(a) = b
  <2> DEFINE x == 4 * a + 3
  <2>1. x \in Int
    BY SMT
  <2> HIDE DEF x
  <2>2. x \div 146097 = b
    BY <1>1, <1>6, <2>1, SMT DEF x
  <2> QED  BY <2>2, SMT DEF CodeB, x
<1>8. CodeC(a) = c
  <2>1. CodeC(a) = a - B
    BY <1>7, SMT DEF CodeC, B
  <2> QED  BY <1>1, <1>2, <1>3, <2>1, SMT
<1>9. 1461 * d <= 4 * c + 3 /\ 4 * c + 3 < 1461 * d + 1461
  BY <1>1, <1>3, <1>4, SMT
<1>10. CodeD(a) = d
  <2> HIDE DEF c
  <2>1. (4 * c + 3) \div 1461 = d
    BY <1>1, <1>5, <1>9, SMT
  <2> QED  BY <1>8, <2>1, SMT DEF CodeD
<1>11. CodeE(a) = e
  BY <1>1, <1>3, <1>8, <1>10, SMT DEF CodeE, D
<1> QED  BY <1>7, <1>10, <1>11, SMT

(* The months of a year that begins in March.                              *)
LEMMA MonthIs ==
    ASSUME NEW e \in 0..365
    PROVE  /\ CodeM(e) \in 0..11
           /\ MonthStart(CodeM(e)) <= e
           /\ CodeM(e) < 11 => e < MonthStart(CodeM(e) + 1)
  BY SMT DEF CodeM, MonthStart

LEMMA MonthOf ==
    ASSUME NEW e \in 0..365, NEW m \in 0..11, MonthStart(m) <= e,
           m < 11 => e < MonthStart(m + 1)
    PROVE  CodeM(e) = m
  BY SMT DEF CodeM, MonthStart

(* The date of a day of a year that begins in March, and its number.       *)
DateOf(Y, e) ==
    Month(Y - 4800 + CodeM(e) \div 10, CodeM(e) + 3 - 12 * (CodeM(e) \div 10),
              e - MonthStart(CodeM(e)) + 1)
BeforeYear(Y) == Y * 365 + Y \div 4 - Y \div 100 + Y \div 400
LastOf(Y) == IF LeapYear(Y + 1 - 4800) THEN 365 ELSE 364

LEMMA YmdIs ==
    ASSUME NEW j \in Int
    PROVE  LET a == j + 32044
           IN  YearMonthDay(j) = DateOf(CodeB(a) * 100 + CodeD(a), CodeE(a))
<1> DEFINE a == j + 32044
           b == CodeB(a)
           c == CodeC(a)
           d == CodeD(a)
           e == CodeE(a)
           m == CodeM(e)
<1>1. /\ b = (4 * a + 3) \div 146097 /\ c = a - (b * 146097) \div 4
      /\ d = (4 * c + 3) \div 1461 /\ e = c - (1461 * d) \div 4
      /\ m = (5 * e + 2) \div 153
  BY SMT DEF CodeB, CodeC, CodeD, CodeE, CodeM, Century, Years
<1>2. YearMonthDay(j) = Month(b * 100 + d - 4800 + m \div 10,
              m + 3 - 12 * (m \div 10), e - (153 * m + 2) \div 5 + 1)
  BY SMT DEF YearMonthDay, CodeB, CodeC, CodeD, CodeE, CodeM, Century, Years
<1>a. Triple(a, b, d, e)
  <2>1. a \in Int
    BY SMT
  <2> QED  BY <2>1, CodeTriple, SMT
<1> HIDE DEF a, b, c, d, e
<1>b. b \in Int /\ d \in Int /\ e \in Int
  BY <1>a, SMT DEF Triple
<1>3. YearMonthDay(j) = DateOf(b * 100 + d, e)
  BY <1>2, <1>b, SMT DEF DateOf, MonthStart
<1> QED  BY <1>3, SMT DEF a, b, d, e

LEMMA MonthLength ==
    \A m \in 0..10 : \A y : MonthStart(m + 1) - MonthStart(m) =
                               DaysIn(y, m + 3 - 12 * (m \div 10))
<1> SUFFICES ASSUME NEW m \in 0..10, NEW y
             PROVE  MonthStart(m + 1) - MonthStart(m) = DaysIn(y, m + 3 - 12 * (m \div 10))
  BY SMT
<1>1. MonthStart(m + 1) - MonthStart(m) = IF m \in {1, 3, 6, 8} THEN 30 ELSE 31
  BY SMT DEF MonthStart
<1>2. PICK n \in Int : n = m + 3 - 12 * (m \div 10) /\ n # 2 /\ (n \in {4, 6, 9, 11} <=> m \in {1, 3, 6, 8})
  BY SMT
<1>3. DaysIn(y, n) = IF n \in {4, 6, 9, 11} THEN 30 ELSE 31
  BY <1>2, SMT DEF DaysIn
<1> QED  BY <1>1, <1>2, <1>3, SMT

LEMMA February ==
    ASSUME NEW y
    PROVE  DaysIn(y, 2) = IF LeapYear(y) THEN 29 ELSE 28
  BY SMT DEF DaysIn

LEMMA NextDay ==
    ASSUME NEW Y \in Int, NEW e \in 0..365, e < LastOf(Y)
    PROVE  DayAfter(DateOf(Y, e)) = DateOf(Y, e + 1)
<1>1. PICK m \in 0..11 : m = CodeM(e)
  <2>1. CodeM(e) \in 0..11
    BY MonthIs, Zenon
  <2> QED  BY <2>1, Zenon
<1>2. /\ MonthStart(m) <= e /\ (m < 11 => e < MonthStart(m + 1)) /\ MonthStart(m) \in Int
      /\ MonthStart(m + 1) \in Int
  <2>1. MonthStart(m) \in Int /\ MonthStart(m + 1) \in Int
    BY SMT DEF MonthStart
  <2>2. /\ MonthStart(CodeM(e)) <= e
        /\ CodeM(e) < 11 => e < MonthStart(CodeM(e) + 1)
    BY MonthIs, Zenon
  <2> QED  BY <1>1, <2>1, <2>2, SMT
<1>3. PICK y \in Int : y = Y - 4800 + m \div 10
  BY SMT
<1>4. PICK n \in 1..12 : n = m + 3 - 12 * (m \div 10)
  BY SMT
<1>5. DateOf(Y, e) = [year |-> y, month |-> n, day |-> e - MonthStart(m) + 1]
  BY <1>1, <1>3, <1>4, SMT DEF DateOf, Month
<1>6. e + 1 \in 0..365 /\ e < 365
  BY SMT DEF LastOf
<1>7. CASE m < 11 /\ e + 1 = MonthStart(m + 1)
  <2>1. CodeM(e + 1) = m + 1
    <3>1. m + 1 \in 0..11 /\ (m + 1 < 11 => e + 1 < MonthStart((m + 1) + 1))
      BY <1>7, SMT DEF MonthStart
    <3>2. MonthStart(m + 1) <= e + 1
      BY <1>2, <1>7, SMT
    <3> QED  BY <1>6, <3>1, <3>2, MonthOf, SMT
  <2>2. DaysIn(y, n) = MonthStart(m + 1) - MonthStart(m)
    BY <1>4, <1>7, MonthLength, SMT
  <2>3. ~ (e - MonthStart(m) + 1 < DaysIn(y, n))
    BY <1>2, <1>7, <2>2, SMT
  <2>4. DayAfter(DateOf(Y, e)) = IF n < 12 THEN Month(y, n + 1, 1) ELSE Month(y + 1, 1, 1)
    BY <1>5, <2>3, SMT DEF DayAfter
  <2>5. DateOf(Y, e + 1) = Month(Y - 4800 + (m + 1) \div 10, (m + 1) + 3 - 12 * ((m + 1) \div 10), 1)
    <3>1. (e + 1) - MonthStart(m + 1) + 1 = 1
      BY <1>2, <1>7, SMT
    <3> QED  BY <2>1, <3>1, SMT DEF DateOf
  <2>6. CASE n < 12
    <3>1. Y - 4800 + (m + 1) \div 10 = y /\ (m + 1) + 3 - 12 * ((m + 1) \div 10) = n + 1
      BY <1>3, <1>4, <1>7, <2>6, SMT
    <3> QED  BY <2>4, <2>5, <2>6, <3>1, SMT
  <2>7. CASE ~ (n < 12)
    <3>1. Y - 4800 + (m + 1) \div 10 = y + 1 /\ (m + 1) + 3 - 12 * ((m + 1) \div 10) = 1
      BY <1>3, <1>4, <1>7, <2>7, SMT
    <3> QED  BY <2>4, <2>5, <2>7, <3>1, SMT
  <2> QED  BY <2>6, <2>7, SMT
<1>8. CASE ~ (m < 11 /\ e + 1 = MonthStart(m + 1))
  <2>1. m < 11 => e + 1 < MonthStart(m + 1)
    BY <1>2, <1>8, SMT
  <2>2. CodeM(e + 1) = m
    <3>1. MonthStart(m) <= e + 1
      BY <1>2, SMT
    <3> QED  BY <1>6, <2>1, <3>1, MonthOf, SMT
  <2>3. e - MonthStart(m) + 1 < DaysIn(y, n)
    <3>1. CASE m < 11
      <4>1. DaysIn(y, n) = MonthStart(m + 1) - MonthStart(m)
        BY <1>4, <3>1, MonthLength, SMT
      <4> QED  BY <1>2, <2>1, <3>1, <4>1, SMT
    <3>2. CASE ~ (m < 11)
      <4>1. m = 11 /\ n = 2 /\ y = Y + 1 - 4800 /\ MonthStart(m) = 337
        BY <1>3, <1>4, <3>2, SMT DEF MonthStart
      <4>2. DaysIn(y, n) = IF LeapYear(y) THEN 29 ELSE 28
        BY <4>1, February, SMT
      <4>3. e < IF LeapYear(y) THEN 365 ELSE 364
        BY <4>1, SMT DEF LastOf
      <4> QED  BY <4>1, <4>2, <4>3, SMT
    <3> QED  BY <3>1, <3>2, SMT
  <2>4. DayAfter(DateOf(Y, e)) = [year |-> y, month |-> n, day |-> e - MonthStart(m) + 1 + 1]
    BY <1>5, <2>3, SMT DEF DayAfter
  <2>5. DateOf(Y, e + 1) = [year |-> y, month |-> n, day |-> (e + 1) - MonthStart(m) + 1]
    BY <1>3, <1>4, <2>2, SMT DEF DateOf, Month
  <2>6. e - MonthStart(m) + 1 + 1 = (e + 1) - MonthStart(m) + 1
    BY <1>2, SMT
  <2> QED  BY <2>4, <2>5, <2>6, SMT
<1> QED  BY <1>7, <1>8, SMT

LEMMA NextYear ==
    ASSUME NEW Y \in Int
    PROVE  DayAfter(DateOf(Y, LastOf(Y))) = DateOf(Y + 1, 0)
<1>1. PICK y \in Int : y = Y + 1 - 4800
  BY SMT
<1>2. PICK e \in 364..365 : e = LastOf(Y) /\ e = IF LeapYear(y) THEN 365 ELSE 364
  BY <1>1, SMT DEF LastOf
<1>3. CodeM(e) = 11 /\ CodeM(0) = 0 /\ MonthStart(11) = 337 /\ MonthStart(0) = 0
  BY SMT DEF CodeM, MonthStart
<1>4. DateOf(Y, e) = [year |-> y, month |-> 2, day |-> e - 336]
  <2>1. Y - 4800 + 11 \div 10 = y /\ 11 + 3 - 12 * (11 \div 10) = 2 /\ e - 337 + 1 = e - 336
    BY <1>1, SMT
  <2> QED  BY <1>3, <2>1, SMT DEF DateOf, Month
<1>5. DateOf(Y + 1, 0) = [year |-> y, month |-> 3, day |-> 1]
  <2>1. (Y + 1) - 4800 + 0 \div 10 = y /\ 0 + 3 - 12 * (0 \div 10) = 3 /\ 0 - 0 + 1 = 1
    BY <1>1, SMT
  <2> QED  BY <1>3, <2>1, SMT DEF DateOf, Month
<1>6. ~ (e - 336 < DaysIn(y, 2))
  BY <1>2, February, SMT
<1>7. DayAfter(DateOf(Y, e)) = [year |-> y, month |-> 3, day |-> 1]
  BY <1>4, <1>6, SMT DEF DayAfter, Month
<1> QED  BY <1>2, <1>5, <1>7, SMT

(* The leap years of the calendar are those of the centuries.              *)
LEMMA LeapIs ==
    ASSUME NEW b \in Int, NEW d \in 0..99
    PROVE  LastOf(b * 100 + d) = LastDay(b, d)
<1>1. PICK y \in Int : y = b * 100 + d + 1 - 4800
  BY SMT
<1>2. CASE d = 99
  <2>1. y = 100 * (b - 47) /\ y % 4 = 0 /\ y % 100 = 0
    BY <1>1, <1>2, SMT
  <2>2. y % 400 = 0 <=> b % 4 = 3
    BY <1>1, <1>2, SMT
  <2> QED  BY <1>1, <1>2, <2>1, <2>2, SMT DEF LastOf, LastDay, LeapYear
<1>3. CASE d # 99
  <2>1. y % 100 # 0
    BY <1>1, <1>3, SMT
  <2>2. y % 4 = 0 <=> d % 4 = 3
    BY <1>1, <1>3, SMT
  <2> QED  BY <1>1, <1>3, <2>1, <2>2, SMT DEF LastOf, LastDay, LeapYear
<1> QED  BY <1>2, <1>3, SMT

LEMMA CenturyNext ==
    ASSUME NEW b \in Int
    PROVE  Century(b + 1) = Century(b) + 36524 + IF b % 4 = 3 THEN 1 ELSE 0
  BY SMT DEF Century

LEMMA YearsNext ==
    ASSUME NEW d \in Int
    PROVE  Years(d + 1) = Years(d) + 365 + IF d % 4 = 3 THEN 1 ELSE 0
  BY SMT DEF Years

(* The day after the last of a year is the first of the next.              *)
LEMMA DaysFollow ==
    ASSUME NEW j \in Int
    PROVE  YearMonthDay(j + 1) = DayAfter(YearMonthDay(j))
<1> DEFINE a == j + 32044
           k == (j + 1) + 32044
<1>1. a \in Int /\ k \in Int /\ k = a + 1 /\ j + 1 \in Int
  BY SMT
<1>2. /\ YearMonthDay(j) = DateOf(CodeB(a) * 100 + CodeD(a), CodeE(a))
      /\ YearMonthDay(j + 1) = DateOf(CodeB(k) * 100 + CodeD(k), CodeE(k))
  BY <1>1, YmdIs, SMT
<1> HIDE DEF a, k
<1>3. Triple(a, CodeB(a), CodeD(a), CodeE(a))
  BY <1>1, CodeTriple, SMT
<1>a. CodeB(a) \in Int /\ CodeD(a) \in 0..99 /\ CodeE(a) \in 0..365
  BY <1>3, SMT DEF Triple
<1>b. PICK b \in Int : b = CodeB(a)
  BY <1>a, SMT
<1>c. PICK d \in 0..99 : d = CodeD(a)
  BY <1>a, SMT
<1>d. PICK e \in 0..365 : e = CodeE(a)
  BY <1>a, SMT
<1>4. b = CodeB(a) /\ d = CodeD(a) /\ e = CodeE(a) /\ Triple(a, b, d, e)
  BY <1>3, <1>b, <1>c, <1>d, SMT
<1>5. e <= LastDay(b, d) /\ a = Century(b) + Years(d) + e
  BY <1>4, SMT DEF Triple
<1>6. PICK Y \in Int : Y = b * 100 + d
  BY SMT
<1>7. LastOf(Y) = LastDay(b, d) /\ LastDay(b, d) \in 364..365
  <2>1. LastOf(b * 100 + d) = LastDay(b, d)
    BY LeapIs, Zenon
  <2>2. LastDay(b, d) \in 364..365
    BY SMT DEF LastDay
  <2> QED  BY <1>6, <2>1, <2>2, SMT
<1>8. Century(b) \in Int /\ Years(d) \in Int
  BY SMT DEF Century, Years
<1>9. CASE e < LastDay(b, d)
  <2>1. e + 1 \in 0..365 /\ e + 1 <= LastDay(b, d) /\ k = Century(b) + Years(d) + (e + 1)
    BY <1>1, <1>5, <1>7, <1>8, <1>9, SMT
  <2>2. Triple(k, b, d, e + 1)
    BY <2>1, SMT DEF Triple
  <2>3. CodeB(k) = b /\ CodeD(k) = d /\ CodeE(k) = e + 1
    BY <1>1, <2>2, TripleCode, SMT
  <2>4. DayAfter(DateOf(Y, e)) = DateOf(Y, e + 1)
    <3>1. e < LastOf(Y)
      BY <1>7, <1>9, Zenon
    <3> QED  BY <3>1, NextDay, Zenon
  <2> QED  BY <1>2, <1>4, <1>6, <2>3, <2>4, SMT
<1>10. CASE ~ (e < LastDay(b, d))
  <2>1. e = LastDay(b, d)
    BY <1>5, <1>7, <1>10, SMT
  <2>2. DayAfter(DateOf(Y, e)) = DateOf(Y + 1, 0)
    <3>1. e = LastOf(Y)
      BY <1>7, <2>1, Zenon
    <3> QED  BY <3>1, NextYear, Zenon
  <2>3. CASE d # 99
    <3>1. LastDay(b, d) = 364 + IF d % 4 = 3 THEN 1 ELSE 0
      BY <2>3, SMT DEF LastDay
    <3>2. k = Century(b) + Years(d + 1) + 0
      BY <1>1, <1>5, <1>8, <2>1, <3>1, YearsNext, SMT
    <3>3. d + 1 \in 0..99 /\ 0 \in 0..365 /\ 0 <= LastDay(b, d + 1)
      BY <2>3, SMT DEF LastDay
    <3>4. Triple(k, b, d + 1, 0)
      BY <3>2, <3>3, SMT DEF Triple
    <3>5. CodeB(k) = b /\ CodeD(k) = d + 1 /\ CodeE(k) = 0
      BY <1>1, <3>4, TripleCode, SMT
    <3>6. b * 100 + (d + 1) = Y + 1
      BY <1>6, SMT
    <3> QED  BY <1>2, <1>4, <1>6, <2>2, <3>5, <3>6, SMT
  <2>4. CASE d = 99
    <3>1. LastDay(b, d) = 364 + IF b % 4 = 3 THEN 1 ELSE 0
      BY <2>4, SMT DEF LastDay
    <3>2. Years(d) = 36159 /\ Years(0) = 0
      BY <2>4, SMT DEF Years
    <3>3. k = Century(b + 1) + Years(0) + 0
      BY <1>1, <1>5, <1>8, <2>1, <3>1, <3>2, CenturyNext, SMT
    <3>4. b + 1 \in Int /\ 0 \in 0..99 /\ 0 \in 0..365 /\ 0 <= LastDay(b + 1, 0)
      BY SMT DEF LastDay
    <3>5. Triple(k, b + 1, 0, 0)
      BY <3>3, <3>4, SMT DEF Triple
    <3>6. CodeB(k) = b + 1 /\ CodeD(k) = 0 /\ CodeE(k) = 0
      BY <1>1, <3>5, TripleCode, SMT
    <3>7. (b + 1) * 100 + 0 = Y + 1
      BY <1>6, <2>4, SMT
    <3> QED  BY <1>2, <1>4, <1>6, <2>2, <3>6, <3>7, SMT
  <2> QED  BY <2>3, <2>4, SMT
<1> QED  BY <1>9, <1>10, SMT

(* getJulianDayNumber counts them.                                         *)
DayNumber(Y, e) == BeforeYear(Y) + e - 32044
MarchDay(b, d) == Century(b) + Years(d)

LEMMA YearStart ==
    ASSUME NEW b \in Int, NEW d \in 0..99, NEW Y \in Int, Y = b * 100 + d
    PROVE  BeforeYear(Y) = MarchDay(b, d)
<1>1. Y = b * 100 + d
  BY SMT
<1>2. Y \div 4 = 25 * b + d \div 4 /\ Y \div 100 = b /\ Y \div 400 = b \div 4
  BY <1>1, SMT
<1>3. Century(b) = 36524 * b + b \div 4 /\ Years(d) = 365 * d + d \div 4
  BY SMT DEF Century, Years
<1>4. BeforeYear(Y) = Y * 365 + Y \div 4 - Y \div 100 + Y \div 400
  BY SMT DEF BeforeYear
<1> QED  BY <1>1, <1>2, <1>3, <1>4, SMT DEF MarchDay

LEMMA NumberOf ==
    ASSUME NEW Y \in Int, NEW e \in 0..365
    PROVE  JulianDayNumber(DateOf(Y, e).year, DateOf(Y, e).month, DateOf(Y, e).day) =
               DayNumber(Y, e)
<1>1. PICK m \in 0..11 : m = CodeM(e)
  <2>1. CodeM(e) \in 0..11
    BY MonthIs, Zenon
  <2> QED  BY <2>1, Zenon
<1>2. PICK y \in Int : y = Y - 4800 + m \div 10
  BY SMT
<1>3. PICK n \in 1..12 : n = m + 3 - 12 * (m \div 10)
  BY SMT
<1>4. PICK s \in Int : s = MonthStart(m) /\ s = (153 * m + 2) \div 5
  BY SMT DEF MonthStart
<1>5. /\ DateOf(Y, e).year = y /\ DateOf(Y, e).month = n
      /\ DateOf(Y, e).day = e - s + 1
  BY <1>1, <1>2, <1>3, <1>4, SMT DEF DateOf, Month
<1>6. (14 - n) \div 12 = m \div 10
  BY <1>3, SMT
<1>7. PICK q \in Int : q = m \div 10
  BY SMT
<1>8. y + 4800 - q = Y /\ n + 12 * q - 3 = m
  BY <1>2, <1>3, <1>7, SMT
<1>9. JulianDayNumber(y, n, e - s + 1) =
         (e - s + 1) + (153 * m + 2) \div 5 + Y * 365 + Y \div 4 - Y \div 100 + Y \div 400 - 32045
  BY <1>6, <1>7, <1>8, SMT DEF JulianDayNumber
<1>10. PICK u \in Int : u = Y \div 4
  BY SMT
<1>11. PICK v \in Int : v = Y \div 100
  BY SMT
<1>12. PICK w \in Int : w = Y \div 400
  BY SMT
<1>13. (e - s + 1) + s + Y * 365 + u - v + w - 32045 = (Y * 365 + u - v + w) + e - 32044
  BY SMT
<1>14. BeforeYear(Y) = Y * 365 + u - v + w
  BY <1>10, <1>11, <1>12, SMT DEF BeforeYear
<1> QED  BY <1>4, <1>5, <1>9, <1>10, <1>11, <1>12, <1>13, <1>14, SMT DEF DayNumber

(* The two conversions are inverse to each other.                          *)
IsDay(j, Y, e) ==
    YearMonthDay(j) = DateOf(Y, e) /\ j = DayNumber(Y, e)

LEMMA NumberBack ==
    ASSUME NEW j \in Int
    PROVE  LET date == YearMonthDay(j) IN
           /\ JulianDayNumber(date.year, date.month, date.day) = j
           /\ \E Y \in Int : \E e \in 0..365 : IsDay(j, Y, e)
<1> DEFINE a == j + 32044
<1>1. a \in Int
  BY SMT
<1>2. YearMonthDay(j) = DateOf(CodeB(a) * 100 + CodeD(a), CodeE(a))
  BY YmdIs, SMT
<1> HIDE DEF a
<1>3. Triple(a, CodeB(a), CodeD(a), CodeE(a))
  BY <1>1, CodeTriple, SMT
<1>a. CodeB(a) \in Int /\ CodeD(a) \in 0..99 /\ CodeE(a) \in 0..365
  BY <1>3, SMT DEF Triple
<1>b. PICK b \in Int : b = CodeB(a)
  BY <1>a, SMT
<1>c. PICK d \in 0..99 : d = CodeD(a)
  BY <1>a, SMT
<1>d. PICK e \in 0..365 : e = CodeE(a)
  BY <1>a, SMT
<1>4. a = Century(b) + Years(d) + e
  BY <1>3, <1>b, <1>c, <1>d, SMT DEF Triple
<1>5. PICK Y \in Int : Y = b * 100 + d
  BY SMT
<1>6. BeforeYear(Y) = MarchDay(b, d)
  BY <1>5, YearStart, Zenon
<1>7. Century(b) \in Int /\ Years(d) \in Int
  BY SMT DEF Century, Years
<1>8. j = DayNumber(Y, e)
  BY <1>4, <1>6, <1>7, SMT DEF a, DayNumber, MarchDay
<1>9. YearMonthDay(j) = DateOf(Y, e)
  BY <1>2, <1>5, <1>b, <1>c, <1>d, SMT
<1>10. IsDay(j, Y, e)
  BY <1>8, <1>9, SMT DEF IsDay
<1>11. JulianDayNumber(DateOf(Y, e).year, DateOf(Y, e).month, DateOf(Y, e).day) = j
  <2>1. JulianDayNumber(DateOf(Y, e).year, DateOf(Y, e).month, DateOf(Y, e).day) =
           DayNumber(Y, e)
    BY NumberOf, Zenon
  <2> QED  BY <1>8, <2>1, SMT
<1> QED  BY <1>9, <1>10, <1>11, SMT

LEMMA EpochIs ==
    /\ kJulianDayOf1970_01_01 = 2440588
    /\ YearMonthDay(2440588) = Month(1970, 1, 1)
    /\ WeekDay(2440588) = 4
<1>1. kJulianDayOf1970_01_01 = 2440588
  BY SMT DEF kJulianDayOf1970_01_01, JulianDayNumber
<1>2. YearMonthDay(2440588) = Month(1970, 1, 1)
  <2>1. Century(67) = 2447124 /\ Years(69) = 25202 /\ 2440588 + 32044 = 2472632
    BY SMT DEF Century, Years
  <2>2. Triple(2472632, 67, 69, 306)
    BY <2>1, SMT DEF Triple, LastDay
  <2>3. 2472632 \in Int /\ 2440588 \in Int /\ 67 * 100 + 69 = 6769
    BY SMT
  <2>4. CodeB(2472632) = 67 /\ CodeD(2472632) = 69 /\ CodeE(2472632) = 306
    BY <2>2, <2>3, TripleCode, SMT
  <2>5. YearMonthDay(2440588) = DateOf(6769, 306)
    BY <2>1, <2>3, <2>4, YmdIs, SMT
  <2>6. CodeM(306) = 10 /\ MonthStart(10) = 306
    BY SMT DEF CodeM, MonthStart
  <2>7. 6769 - 4800 + 10 \div 10 = 1970 /\ 10 + 3 - 12 * (10 \div 10) = 1 /\ 306 - 306 + 1 = 1
    BY SMT
  <2> QED  BY <2>5, <2>6, <2>7, SMT DEF DateOf
<1>3. WeekDay(2440588) = 4
  BY SMT DEF WeekDay
<1> QED  BY <1>1, <1>2, <1>3, SMT

(* From any year to any other the conversions follow the calendar.         *)
LEMMA DaysAreRight == \A first, last : DaysRight(first, last)
<1> SUFFICES ASSUME NEW first, NEW last PROVE DaysRight(first, last)
  BY SMT
<1>1. \A j \in Int : /\ YearMonthDay(j + 1) = DayAfter(YearMonthDay(j))
                     /\ LET date == YearMonthDay(j)
                        IN  JulianDayNumber(date.year, date.month, date.day) = j
  BY DaysFollow, NumberBack, SMT
<1>2. /\ YearMonthDay(kJulianDayOf1970_01_01) = Month(1970, 1, 1)
      /\ WeekDay(kJulianDayOf1970_01_01) = 4
  BY EpochIs, SMT
<1>3. \A j \in JulianDayNumber(first, 1, 1)..JulianDayNumber(last, 12, 31) : j \in Int
  BY SMT
<1> QED  BY <1>1, <1>2, <1>3, SMT DEF DaysRight

(* The instants of UTC: their day, rounded down also before 1970, and the  *)
(* time of the day.                                                        *)
LEMMA DayOfInstant ==
    ASSUME NEW t \in Int
    PROVE  LET s == Remainder(t, 86400)
               q == Quotient(t, 86400)
           IN  /\ q - (IF s < 0 THEN 1 ELSE 0) = t \div 86400
               /\ (IF s < 0 THEN s + 86400 ELSE s) = t % 86400
<1> DEFINE q == Quotient(t, 86400)
           s == Remainder(t, 86400)
<1>1. q = (IF t >= 0 THEN t \div 86400 ELSE -((-t) \div 86400)) /\ s = t - 86400 * q
  BY SMT DEF Quotient, Remainder
<1> HIDE DEF q, s
<1>2. CASE t >= 0
  BY <1>1, <1>2, SMT DEF q, s
<1>3. CASE ~ (t >= 0)
  <2>1. PICK p \in Int : p = (-t) \div 86400
    BY SMT
  <2>2. 86400 * p <= -t /\ -t < 86400 * p + 86400
    BY <2>1, SMT
  <2>3. q = -p /\ s = t + 86400 * p
    BY <1>1, <1>3, <2>1, SMT
  <2>4. CASE s < 0
    <3>1. t \div 86400 = -p - 1 /\ t % 86400 = s + 86400
      BY <2>2, <2>3, <2>4, SMT
    <3> QED  BY <2>3, <2>4, <3>1, SMT DEF q, s
  <2>5. CASE ~ (s < 0)
    <3>1. t \div 86400 = -p /\ t % 86400 = s
      BY <2>2, <2>3, <2>5, SMT
    <3> QED  BY <2>3, <2>5, <3>1, SMT DEF q, s
  <2> QED  BY <2>4, <2>5, SMT
<1> QED  BY <1>2, <1>3, SMT

LEMMA HmsIs ==
    ASSUME NEW t \in Int
    PROVE  /\ FillHMS(t % 86400) = [sec |-> t % 60, min |-> (t % 3600) \div 60,
                                        hour |-> (t % 86400) \div 3600]
<1>1. PICK s \in Int : s = t % 86400
  BY SMT
<1>2. /\ s % 60 = t % 60 /\ (s \div 60) % 60 = (t % 3600) \div 60
      /\ (s \div 60) \div 60 = s \div 3600
  BY <1>1, SMT
<1>3. FillHMS(s) = [sec |-> s % 60, min |-> (s \div 60) % 60, hour |-> (s \div 60) \div 60]
  BY SMT DEF FillHMS
<1> QED  BY <1>1, <1>2, <1>3, SMT

(* January 1 has its own number; on every other day it is the year of the  *)
(* day before.                                                             *)
LEMMA YearDay ==
    ASSUME NEW j \in Int
    PROVE  LET date == YearMonthDay(j)
           IN  /\ JulianDayNumber(date.year, 1, 1) \in Int
               /\ date = Month(date.year, 1, 1) => JulianDayNumber(date.year, 1, 1) = j
               /\ date # Month(date.year, 1, 1) => YearMonthDay(j - 1).year = date.year
<1> DEFINE date == YearMonthDay(j)
           before == YearMonthDay(j - 1)
<1>1. date.year \in Int
  BY SMT DEF YearMonthDay, Month
<1>2. PICK y \in Int : y = date.year
  BY <1>1, SMT
<1>3. JulianDayNumber(y, 1, 1) \in Int
  BY SMT DEF JulianDayNumber
<1>4. JulianDayNumber(date.year, date.month, date.day) = j
  BY NumberBack, Zenon
<1>5. date = DayAfter(before)
  <2>1. j - 1 \in Int /\ (j - 1) + 1 = j
    BY SMT
  <2>2. YearMonthDay((j - 1) + 1) = DayAfter(before)
    BY <2>1, DaysFollow, Zenon
  <2> QED  BY <2>1, <2>2, Zenon
<1>6. \E a, b, c \in Int : before = Month(a, b, c)
  <2>1. j - 1 \in Int
    BY SMT
  <2> QED  BY <2>1, SMT DEF YearMonthDay
<1> HIDE DEF date, before
<1>7. ASSUME date = Month(date.year, 1, 1) PROVE date.month = 1 /\ date.day = 1
  <2>1. PICK r : r = Month(date.year, 1, 1)
    BY Zenon
  <2>2. r.month = 1 /\ r.day = 1
    BY <2>1, SMT DEF Month
  <2> QED  BY <1>7, <2>1, <2>2, Zenon
<1>8. ASSUME date # Month(date.year, 1, 1) PROVE before.year = date.year
  <2>1. PICK a \in Int, b \in Int, c \in Int : before = Month(a, b, c)
    BY <1>6, Zenon
  <2>2. before.year = a
    BY <2>1, SMT DEF Month
  <2>3. CASE date = [before EXCEPT !.day = @ + 1]
    BY <2>1, <2>3, SMT DEF Month
  <2>4. CASE date = Month(before.year, before.month + 1, 1)
    BY <2>4, SMT DEF Month
  <2>5. CASE date = Month(before.year + 1, 1, 1)
    <3>1. date.year = before.year + 1
      BY <2>5, SMT DEF Month
    <3> QED  BY <1>8, <2>5, <3>1, Zenon
  <2>6. \/ date = [before EXCEPT !.day = @ + 1]
        \/ date = Month(before.year, before.month + 1, 1)
        \/ date = Month(before.year + 1, 1, 1)
    BY <1>5, Zenon DEF DayAfter
  <2> QED  BY <2>3, <2>4, <2>5, <2>6, Zenon
<1>9. date = Month(date.year, 1, 1) => JulianDayNumber(date.year, 1, 1) = j
  BY <1>4, <1>7, Zenon
<1> QED  BY <1>2, <1>3, <1>8, <1>9, Zenon DEF date, before

(* What toUtcTime fills in, for the day and the time of the day.           *)
DayOf(t) == t \div 86400 + 2440588
TimeOf(t) == FillHMS(t % 86400)

LEMMA UtcFields ==
    ASSUME NEW t \in Int, NEW j \in Int, j = DayOf(t)
    PROVE  /\ ToUtcTime(t, TRUE) =
                 [date |-> YearMonthDay(j), time |-> TimeOf(t), wday |-> WeekDay(j),
                  yday |-> j - JulianDayNumber(YearMonthDay(j).year, 1, 1)]
           /\ ToUtcTime(t, FALSE) =
                 [date |-> YearMonthDay(j), time |-> TimeOf(t), wday |-> WeekDay(j), yday |-> 0]
<1> DEFINE r == Remainder(t, 86400)
           q == Quotient(t, 86400)
<1>1. q - (IF r < 0 THEN 1 ELSE 0) = t \div 86400 /\ (IF r < 0 THEN r + 86400 ELSE r) = t % 86400
  BY DayOfInstant, SMT
<1>2. kSecondsPerDay = 86400 /\ kJulianDayOf1970_01_01 = 2440588
  BY EpochIs, SMT DEF kSecondsPerDay
<1>3. q - (IF r < 0 THEN 1 ELSE 0) + kJulianDayOf1970_01_01 = j
  BY <1>1, <1>2, SMT DEF DayOf
<1> HIDE DEF r, q
<1> QED  BY <1>1, <1>2, <1>3, SMT DEF ToUtcTime, TimeOf, r, q

(* At every instant toUtcTime is gmtime.                                   *)
LEMMA UtcIs ==
    ASSUME NEW t \in Int
    PROVE  LET utc == ToUtcTime(t, TRUE)
               j == JulianDayNumber(utc.date.year, utc.date.month, utc.date.day)
           IN  /\ [day |-> j - kJulianDayOf1970_01_01, hour |-> utc.time.hour,
                   min |-> utc.time.min, sec |-> utc.time.sec] = Gmtime(t)
               /\ utc.wday = (Gmtime(t).day + 4) % 7
               /\ utc.yday = IF utc.date = Month(utc.date.year, 1, 1) THEN 0
                             ELSE ToUtcTime(t - kSecondsPerDay, TRUE).yday + 1
               /\ ToUtcTime(t, FALSE) = [utc EXCEPT !.yday = 0]
<1> DEFINE utc == ToUtcTime(t, TRUE)
           gm == Gmtime(t)
           eve == ToUtcTime(t - kSecondsPerDay, TRUE)
<1>1. PICK n \in Int : n = t \div 86400
  BY SMT
<1>2. PICK j \in Int : j = n + 2440588
  BY SMT
<1>a. PICK h \in Int : h = (t % 86400) \div 3600
  BY SMT
<1>b. PICK m \in Int : m = (t % 3600) \div 60
  BY SMT
<1>c. PICK s \in Int : s = t % 60
  BY SMT
<1>3. gm = [day |-> n, hour |-> h, min |-> m, sec |-> s]
  BY <1>1, <1>a, <1>b, <1>c, SMT DEF Gmtime, kSecondsPerDay
<1> DEFINE date == YearMonthDay(j)
           hms == [sec |-> s, min |-> m, hour |-> h]
           first == JulianDayNumber(date.year, 1, 1)
<1>4. j = DayOf(t) /\ TimeOf(t) = hms
  BY <1>1, <1>2, <1>a, <1>b, <1>c, HmsIs, SMT DEF DayOf, TimeOf
<1>5. utc = [date |-> date, time |-> hms, wday |-> WeekDay(j), yday |-> j - first]
  <2> HIDE DEF hms
  <2> QED  BY <1>4, UtcFields, Zenon
<1>6. ToUtcTime(t, FALSE) = [date |-> date, time |-> hms, wday |-> WeekDay(j), yday |-> 0]
  <2> HIDE DEF hms, date
  <2> QED  BY <1>4, UtcFields, Zenon DEF date
<1>7. eve.yday = (j - 1) - JulianDayNumber(YearMonthDay(j - 1).year, 1, 1)
  <2>1. PICK u \in Int : u = t - 86400
    BY SMT
  <2>2. PICK i \in Int : i = j - 1
    BY SMT
  <2>3. i = DayOf(u)
    BY <1>4, <2>1, <2>2, SMT DEF DayOf
  <2>4. eve = ToUtcTime(u, TRUE)
    BY <2>1, SMT DEF kSecondsPerDay
  <2> HIDE DEF eve
  <2>5. eve = [date |-> YearMonthDay(i), time |-> TimeOf(u), wday |-> WeekDay(i),
               yday |-> i - JulianDayNumber(YearMonthDay(i).year, 1, 1)]
    BY <2>3, <2>4, UtcFields, Zenon
  <2>6. eve.yday = i - JulianDayNumber(YearMonthDay(i).year, 1, 1)
    BY <2>5, SMT
  <2> QED  BY <2>2, <2>6, Zenon
<1> HIDE DEF utc, gm, eve
<1>8. /\ utc.date = date /\ utc.time.hour = h /\ utc.time.min = m /\ utc.time.sec = s
      /\ utc.wday = WeekDay(j) /\ utc.yday = j - first
  BY <1>5, SMT
<1>9. JulianDayNumber(date.year, date.month, date.day) = j
  BY NumberBack, Zenon
<1>10. /\ first \in Int /\ (date = Month(date.year, 1, 1) => first = j)
       /\ date # Month(date.year, 1, 1) => YearMonthDay(j - 1).year = date.year
  BY YearDay, Zenon
<1> HIDE DEF date, hms
<1>11. utc.yday = IF utc.date = Month(utc.date.year, 1, 1) THEN 0 ELSE eve.yday + 1
  <2>1. CASE date = Month(date.year, 1, 1)
    <3>1. j - first = 0
      BY <1>10, <2>1, SMT
    <3>2. utc.date = Month(utc.date.year, 1, 1)
      BY <1>8, <2>1, Zenon
    <3> QED  BY <1>8, <3>1, <3>2, Zenon
  <2>2. CASE date # Month(date.year, 1, 1)
    <3>1. eve.yday = (j - 1) - first
      BY <1>7, <1>10, <2>2, Zenon
    <3> HIDE DEF first
    <3>2. j - first = eve.yday + 1
      BY <1>10, <3>1, SMT
    <3>3. utc.date # Month(utc.date.year, 1, 1)
      BY <1>8, <2>2, Zenon
    <3> QED  BY <1>8, <3>2, <3>3, Zenon
  <2> QED  BY <2>1, <2>2, Zenon
<1>12. utc.wday = (n + 4) % 7
  BY <1>2, <1>8, SMT DEF WeekDay
<1>13. JulianDayNumber(utc.date.year, utc.date.month, utc.date.day)
          - kJulianDayOf1970_01_01 = n
  <2>1. JulianDayNumber(utc.date.year, utc.date.month, utc.date.day) = j
    BY <1>8, <1>9, Zenon
  <2> QED  BY <1>2, <2>1, EpochIs, SMT
<1>14. ToUtcTime(t, FALSE) = [utc EXCEPT !.yday = 0]
  <2>1. [utc EXCEPT !.yday = 0] = [date |-> date, time |-> hms, wday |-> WeekDay(j), yday |-> 0]
    BY <1>5, SMT
  <2> QED  BY <1>6, <2>1, Zenon
<1>15. gm.day = n
  BY <1>3, SMT
<1>16. [day |-> JulianDayNumber(utc.date.year, utc.date.month, utc.date.day)
                  - kJulianDayOf1970_01_01, hour |-> utc.time.hour,
        min |-> utc.time.min, sec |-> utc.time.sec] = gm
  BY <1>3, <1>8, <1>13, SMT
<1>17. utc.wday = (gm.day + 4) % 7
  BY <1>12, <1>15, Zenon
<1> QED  BY <1>11, <1>14, <1>16, <1>17, Zenon DEF utc, gm, eve

(* The calendar and UTC are right from any year to any other and at every  *)
(* instant.                                                                *)
THEOREM CalendarIsRight == LogSpec => []CalendarRight
<1>1. CalendarRight
  <2>1. DaysRight(FirstYear, LastYear)
    BY DaysAreRight, Zenon
  <2>2. \A t \in UtcSeconds : t \in Int
    BY LoggingAssumption
  <2>3. UtcRight(UtcSeconds)
    BY <2>2, UtcIs, Zenon DEF UtcRight
  <2> QED  BY <2>1, <2>3, Zenon DEF CalendarRight
<1> QED  BY <1>1, PTL

-----------------------------------------------------------------------------
(* The invariant of the logger: the cached text of a thread is of a second *)
(* that is not ahead of the clock, and when it is of this second, of a     *)
(* zone that was set during it.                                            *)
Stmts == [phase : Phases, fatal : BOOLEAN, len : Lengths, ended : BOOLEAN,
          pieces : 0..MaxPieces, second : Nat, text : Times, utc : BOOLEAN,
          zones : SUBSET Zones]

LogTypes ==
    /\ status \in {"running", "aborted", "undefined"}
    /\ clock \in 1..Len(Instants)
    /\ zone \in Zones /\ since \subseteq Zones
    /\ logLevel \in LogLevel
    /\ lastSecond \in [Threads -> Nat] /\ time \in [Threads -> Times]
    /\ stmt \in [Threads -> Stmts]

SetDuring(text, zones, second) ==
    \E z \in zones : Usable(z) /\ text = TextIn(z, second)

CacheRight ==
    /\ zone \in since
    /\ \A t \in Threads :
          /\ lastSecond[t] <= now
          /\ lastSecond[t] = now => SetDuring(time[t], since, now)

StmtRight(s) ==
    /\ SetDuring(s.text, s.zones, s.second)
    /\ \E z \in s.zones : s.utc <=> z = None
    /\ s.phase = "output" /\ ~ s.ended => s.len = FullLine

LogInv == LogTypes /\ CacheRight /\ \A t \in Threads : StmtRight(stmt[t])

(* What the configuration says.                                            *)
LEMMA ConfigIs ==
    /\ Len(Instants) \in Nat /\ Len(Instants) >= 1
    /\ \A i \in 1..Len(Instants) : Instants[i] \in Nat /\ Instants[i] > 0
    /\ \A i, j \in 1..Len(Instants) : i < j => Instants[i] < Instants[j]
    /\ MaxPieces \in Nat /\ Levels \subseteq LogLevel
    /\ Pieces \subseteq Streamable
<1>1. Instants \in Seq(Nat \ {0}) /\ Instants # <<>>
  BY LoggingAssumption
<1>2. Levels \subseteq LogLevel
  BY LoggingAssumption DEF LogLevel, TRACE, FATAL
<1>3. /\ \A i, j \in 1..Len(Instants) : i < j => Instants[i] < Instants[j]
      /\ MaxPieces \in Nat /\ Pieces \subseteq Streamable
  BY LoggingAssumption
<1>4. /\ Len(Instants) \in Nat /\ Len(Instants) >= 1
      /\ \A i \in 1..Len(Instants) : Instants[i] \in Nat /\ Instants[i] > 0
  BY <1>1
<1> QED  BY <1>2, <1>3, <1>4

LEMMA NoneRight ==
    /\ None \in Zones /\ Usable(None)
    /\ TextIn(None, 0) = NoTime
  BY DEF Zones, Usable, TextIn, NoTime

LEMMA LogStarts ==
    ASSUME LogInit
    PROVE  LogInv
<1>1. LogTypes
  <2>1. Idle \in Stmts
    <3>1. NoTime \in Times
      BY GmtimeIs DEF NoTime
    <3>2. 0 \in Lengths /\ 0 \in 0..MaxPieces /\ {None} \in SUBSET Zones
      BY ConfigIs, NoneRight DEF Lengths, FullLine
    <3> QED  BY <3>1, <3>2 DEF Idle, Stmts, Phases
  <2>2. stmt \in [Threads -> Stmts]
    BY <2>1 DEF LogInit
  <2>3. time \in [Threads -> Times]
    BY GmtimeIs DEF LogInit, NoTime
  <2>4. logLevel \in LogLevel
    BY DEF LogInit, LogLevel, TRACE, DEBUG, INFO, FATAL
  <2>5. clock \in 1..Len(Instants)
    BY ConfigIs DEF LogInit
  <2> QED  BY <2>2, <2>3, <2>4, <2>5, NoneRight DEF LogInit, LogTypes
<1>2. CacheRight
  <2>1. Instants[1] \in Nat /\ Instants[1] > 0
    BY ConfigIs
  <2> QED  BY <2>1 DEF LogInit, CacheRight, now
<1>3. ASSUME NEW t \in Threads PROVE StmtRight(stmt[t])
  <2>1. stmt[t] = Idle
    BY DEF LogInit
  <2>2. /\ Idle.text = NoTime /\ Idle.zones = {None}
        /\ Idle.second = 0 /\ Idle.utc = TRUE /\ Idle.phase = "idle"
    BY DEF Idle
  <2>3. SetDuring(NoTime, {None}, 0)
    BY NoneRight DEF SetDuring
  <2> QED  BY <2>1, <2>2, <2>3 DEF StmtRight
<1> QED  BY <1>1, <1>2, <1>3 DEF LogInv

(* The steps, one by one.                                                  *)
LEMMA TickKeeps ==
    ASSUME LogInv, Tick
    PROVE  LogInv'
<1>1. /\ clock \in 1..Len(Instants) /\ clock < Len(Instants) /\ clock' = clock + 1
      /\ since' = {zone} /\ zone' = zone /\ status' = status /\ logLevel' = logLevel
      /\ lastSecond' = lastSecond /\ time' = time /\ stmt' = stmt
  BY DEF Tick, LogInv, LogTypes
<1>2. clock' \in 1..Len(Instants)
  BY <1>1, ConfigIs
<1>3. /\ now \in Nat /\ now' \in Nat /\ now < now'
  <2>1. clock < clock + 1
    BY <1>1
  <2> QED  BY <1>1, <1>2, <2>1, ConfigIs DEF now
<1>4. LogTypes'
  BY <1>1, <1>2 DEF LogInv, LogTypes
<1>5. CacheRight'
  <2>1. ASSUME NEW t \in Threads PROVE lastSecond[t] < now'
    <3>1. lastSecond[t] \in Nat /\ lastSecond[t] <= now
      BY DEF LogInv, LogTypes, CacheRight
    <3> QED  BY <1>3, <3>1
  <2>2. ASSUME NEW t \in Threads PROVE lastSecond[t] <= now' /\ lastSecond[t] # now'
    <3>1. lastSecond[t] \in Nat
      BY DEF LogInv, LogTypes
    <3> QED  BY <1>3, <2>1, <3>1
  <2> QED  BY <1>1, <2>2 DEF CacheRight
<1>6. \A t \in Threads : StmtRight(stmt[t])'
  BY <1>1 DEF LogInv, StmtRight, SetDuring
<1> QED  BY <1>4, <1>5, <1>6 DEF LogInv

LEMMA SetTimeZoneKeeps ==
    ASSUME LogInv, NEW z \in Zones, SetTimeZone(z)
    PROVE  LogInv'
<1>1. /\ zone' = z /\ since' = since \union {z} /\ clock' = clock /\ status' = status
      /\ logLevel' = logLevel /\ lastSecond' = lastSecond /\ time' = time /\ stmt' = stmt
  BY DEF SetTimeZone
<1>2. LogTypes'
  BY <1>1 DEF LogInv, LogTypes
<1>3. CacheRight'
  BY <1>1 DEF LogInv, CacheRight, SetDuring, now
<1>4. \A t \in Threads : StmtRight(stmt[t])'
  BY <1>1 DEF LogInv, StmtRight, SetDuring
<1> QED  BY <1>2, <1>3, <1>4 DEF LogInv

LEMMA SetLogLevelKeeps ==
    ASSUME LogInv, NEW l \in Levels, SetLogLevel(l)
    PROVE  LogInv'
<1>1. /\ zone' = zone /\ since' = since /\ clock' = clock /\ status' = status
      /\ logLevel' = l /\ lastSecond' = lastSecond /\ time' = time /\ stmt' = stmt
  BY DEF SetLogLevel
<1>2. LogTypes'
  BY <1>1, ConfigIs DEF LogInv, LogTypes
<1>3. CacheRight'
  BY <1>1 DEF LogInv, CacheRight, SetDuring, now
<1>4. \A t \in Threads : StmtRight(stmt[t])'
  BY <1>1 DEF LogInv, StmtRight, SetDuring
<1> QED  BY <1>2, <1>3, <1>4 DEF LogInv

LEMMA BeginKeeps ==
    ASSUME LogInv, NEW t \in Threads, NEW m \in Macros,
           NEW e \in {0, 11}, Begin(t, m, e)
    PROVE  LogInv'
<1> DEFINE n == StreamAll(0, LineHead(m, zone = None, e))
           new == [phase |-> "open", fatal |-> m.level = FATAL, len |-> n,
                   ended |-> FALSE, pieces |-> 0, second |-> now, text |-> time'[t],
                   utc |-> zone = None, zones |-> since]
<1>1. /\ status' = status /\ clock' = clock /\ zone' = zone /\ since' = since
      /\ logLevel' = logLevel
      /\ lastSecond' = [lastSecond EXCEPT ![t] = now]
      /\ stmt' = [stmt EXCEPT ![t] = new]
      /\ time' = IF SameSecond(t) THEN time ELSE [time EXCEPT ![t] = TextIn(zone, now)]
      /\ SameSecond(t) \/ Usable(zone)
  BY DEF Begin, globals
<1>2. now \in Nat
  BY ConfigIs DEF LogInv, LogTypes, now
<1>3. /\ time' \in [Threads -> Times]
      /\ SetDuring(time'[t], since, now)
      /\ \A u \in Threads \ {t} : time'[u] = time[u]
  <2>1. CASE SameSecond(t)
    <3>1. time' = time /\ lastSecond[t] = now
      BY <1>1, <2>1 DEF SameSecond
    <3> QED  BY <3>1 DEF LogInv, LogTypes, CacheRight
  <2>2. CASE ~ SameSecond(t)
    <3>1. Usable(zone) /\ time' = [time EXCEPT ![t] = TextIn(zone, now)]
      BY <1>1, <2>2
    <3>2. zone \in Zones /\ zone \in since /\ time \in [Threads -> Times]
      BY DEF LogInv, LogTypes, CacheRight
    <3>3. now \in Int
      BY <1>2
    <3>4. TextIn(zone, now) \in Times
      BY <3>1, <3>2, <3>3, TextTimes
    <3>5. time'[t] = TextIn(zone, now)
      BY <3>1, <3>2
    <3>6. SetDuring(time'[t], since, now)
      BY <3>1, <3>2, <3>5 DEF SetDuring
    <3>7. time' \in [Threads -> Times]
      BY <3>1, <3>2, <3>4
    <3> QED  BY <3>1, <3>2, <3>6, <3>7
  <2> QED  BY <2>1, <2>2
<1>4. n \in Lengths
  <2>1. 0 \in Lengths
    BY DEF Lengths, FullLine
  <2> QED  BY <2>1, HeadOK, StreamBounded
<1>5. new \in Stmts
  <2> HIDE DEF n
  <2>1. 0 \in 0..MaxPieces
    BY ConfigIs
  <2>2. (m.level = FATAL) \in BOOLEAN /\ (zone = None) \in BOOLEAN
    OBVIOUS
  <2>3. time'[t] \in Times
    BY <1>3
  <2>4. since \in SUBSET Zones
    BY DEF LogInv, LogTypes
  <2> QED  BY <1>2, <1>4, <2>1, <2>2, <2>3, <2>4 DEF Stmts, Phases
<1>6. StmtRight(new)
  <2>1. /\ new.text = time'[t] /\ new.zones = since /\ new.second = now
        /\ new.utc = (zone = None) /\ new.phase = "open"
    OBVIOUS
  <2>2. zone \in since
    BY DEF LogInv, CacheRight
  <2> HIDE DEF new
  <2>3. new.phase # "output"
    BY <2>1
  <2>4. new.utc <=> zone = None
    BY <2>1, Zenon
  <2>5. \E z \in new.zones : new.utc <=> z = None
    BY <2>1, <2>2, <2>4, Zenon
  <2>6. SetDuring(new.text, new.zones, new.second)
    BY <1>3, <2>1
  <2> QED  BY <2>3, <2>5, <2>6, Zenon DEF StmtRight
<1> HIDE DEF new, n
<1>7. /\ stmt \in [Threads -> Stmts] /\ lastSecond \in [Threads -> Nat]
  BY DEF LogInv, LogTypes
<1>8. LogTypes'
  <2>1. stmt' \in [Threads -> Stmts] /\ lastSecond' \in [Threads -> Nat]
    BY <1>1, <1>2, <1>5, <1>7
  <2> QED  BY <1>1, <1>3, <2>1 DEF LogInv, LogTypes
<1>9. CacheRight'
  <2>1. now' = now
    BY <1>1 DEF now
  <2>2. ASSUME NEW u \in Threads
        PROVE  /\ lastSecond'[u] <= now
               /\ lastSecond'[u] = now => SetDuring(time'[u], since, now)
    <3>1. CASE u = t
      <4>1. lastSecond'[u] = now
        BY <1>1, <1>7, <3>1
      <4> QED  BY <1>2, <1>3, <3>1, <4>1
    <3>2. CASE u # t
      <4>1. lastSecond'[u] = lastSecond[u] /\ time'[u] = time[u]
        BY <1>1, <1>3, <1>7, <3>2
      <4> QED  BY <4>1 DEF LogInv, CacheRight
    <3> QED  BY <3>1, <3>2
  <2>3. zone' \in since'
    BY <1>1 DEF LogInv, CacheRight
  <2>4. \A u \in Threads : SetDuring(time'[u], since, now) =>
                           SetDuring(time[u], since, now)'
    BY <1>1, <2>1 DEF SetDuring
  <2> QED  BY <2>1, <2>2, <2>3, <2>4 DEF CacheRight
<1>10. \A u \in Threads : StmtRight(stmt[u])'
  <2>1. ASSUME NEW u \in Threads PROVE StmtRight(stmt'[u])
    <3>1. CASE u = t
      BY <1>1, <1>6, <1>7, <3>1
    <3>2. CASE u # t
      <4>1. stmt'[u] = stmt[u]
        BY <1>1, <1>7, <3>2
      <4> QED  BY <4>1 DEF LogInv
    <3> QED  BY <3>1, <3>2
  <2> QED  BY <2>1 DEF StmtRight, SetDuring
<1> QED  BY <1>8, <1>9, <1>10 DEF LogInv

LEMMA BeginUndefinedKeeps ==
    ASSUME LogInv, NEW t \in Threads, NEW m \in Macros,
           BeginUndefined(t, m)
    PROVE  LogInv'
<1>1. /\ status' = "undefined" /\ zone' = zone /\ since' = since /\ clock' = clock
      /\ logLevel' = logLevel /\ lastSecond' = lastSecond /\ time' = time /\ stmt' = stmt
  BY DEF BeginUndefined, globals
<1>2. LogTypes'
  BY <1>1 DEF LogInv, LogTypes
<1>3. CacheRight'
  BY <1>1 DEF LogInv, CacheRight, SetDuring, now
<1>4. \A u \in Threads : StmtRight(stmt[u])'
  BY <1>1 DEF LogInv, StmtRight, SetDuring
<1> QED  BY <1>2, <1>3, <1>4 DEF LogInv

(* A statement that changes nothing but what follows its head.             *)
SameHead(s, r) ==
    /\ r \in Stmts /\ r.second = s.second /\ r.text = s.text
    /\ r.utc = s.utc /\ r.zones = s.zones
    /\ r.phase = "output" /\ ~ r.ended => r.len = FullLine

LEMMA StmtKeeps ==
    ASSUME LogInv, NEW t \in Threads, NEW r, SameHead(stmt[t], r),
           stmt' = [stmt EXCEPT ![t] = r], status' \in {"running", "aborted", "undefined"},
           zone' = zone, since' = since, clock' = clock, logLevel' = logLevel,
           lastSecond' = lastSecond, time' = time
    PROVE  LogInv'
<1>1. stmt \in [Threads -> Stmts] /\ r \in Stmts
  BY DEF LogInv, LogTypes, SameHead
<1>2. LogTypes'
  <2>1. stmt' \in [Threads -> Stmts]
    BY <1>1
  <2> QED  BY <2>1 DEF LogInv, LogTypes
<1>3. CacheRight'
  BY DEF LogInv, CacheRight, SetDuring, now
<1>4. StmtRight(r)
  <2>1. StmtRight(stmt[t])
    BY DEF LogInv
  <2> QED  BY <2>1 DEF SameHead, StmtRight
<1>5. ASSUME NEW u \in Threads PROVE StmtRight(stmt'[u])
  <2>1. CASE u = t
    BY <1>1, <1>4, <2>1
  <2>2. CASE u # t
    <3>1. stmt'[u] = stmt[u]
      BY <1>1, <2>2
    <3> QED  BY <3>1 DEF LogInv
  <2> QED  BY <2>1, <2>2
<1>6. \A u \in Threads : StmtRight(stmt[u])'
  BY <1>5 DEF StmtRight, SetDuring
<1> QED  BY <1>2, <1>3, <1>6 DEF LogInv

LEMMA StreamKeeps ==
    ASSUME LogInv, NEW t \in Threads, NEW p \in Pieces,
           Stream(t, p)
    PROVE  LogInv'
<1> DEFINE s == stmt[t]
           n == StreamTo(s.len, p)
           r == [s EXCEPT !.len = n, !.pieces = @ + 1]
<1>1. stmt \in [Threads -> Stmts] /\ s \in Stmts /\ s.phase = "open" /\ s.pieces < MaxPieces
  BY DEF LogInv, LogTypes, Stream
<1>2. stmt' = [stmt EXCEPT ![t].len = n, ![t].pieces = s.pieces + 1]
  BY DEF Stream
<1>3. s.len \in Lengths /\ s.pieces \in 0..MaxPieces
  BY <1>1 DEF Stmts
<1>4. n \in Lengths
  BY <1>3, StreamStep, ConfigIs
<1>5. s.pieces + 1 \in 0..MaxPieces
  BY <1>1, <1>3, ConfigIs
<1> HIDE DEF n
<1>6. stmt' = [stmt EXCEPT ![t] = r]
  BY <1>1, <1>2 DEF Stmts
<1>7. SameHead(s, r)
  BY <1>1, <1>4, <1>5 DEF SameHead, Stmts
<1>8. /\ status' = status /\ zone' = zone /\ since' = since /\ clock' = clock
      /\ logLevel' = logLevel /\ lastSecond' = lastSecond /\ time' = time
  BY DEF Stream, globals
<1> HIDE DEF r
<1>9. status' \in {"running", "aborted", "undefined"}
  BY <1>8 DEF LogInv, LogTypes
<1> QED  BY <1>6, <1>7, <1>8, <1>9, StmtKeeps

LEMMA FinishKeeps ==
    ASSUME LogInv, NEW t \in Threads, Finish(t, 164)
    PROVE  LogInv'
<1> DEFINE s == stmt[t]
           n == StreamAll(s.len, LineFoot(164))
           k == AppendBytes(n, 1)
           b == (k # n)
<1>1. stmt \in [Threads -> Stmts] /\ s \in Stmts /\ s.phase = "open"
  BY DEF LogInv, LogTypes, Finish
<1>2. stmt' = [stmt EXCEPT ![t].phase = "output", ![t].len = k, ![t].ended = b]
  BY DEF Finish
<1>3. s.len \in Lengths
  BY <1>1 DEF Stmts
<1>4. n \in Lengths
  BY <1>3, FootOK, StreamBounded
<1> HIDE DEF n
<1>5. k = IF 4000 - n > 1 THEN n + 1 ELSE n
  BY DEF AppendBytes, Avail, kSmallBuffer
<1>6. k \in Lengths /\ (k = n => k = FullLine)
  <2>1. \A j \in Lengths : LET a == IF 4000 - j > 1 THEN j + 1 ELSE j
                           IN  a \in Lengths /\ (a = j => a = FullLine)
    BY DEF Lengths, FullLine
  <2> QED  BY <1>4, <1>5, <2>1
<1>7. PICK c \in BOOLEAN : c = b /\ (~ c => k = FullLine)
  <2>1. b \in BOOLEAN
    BY Zenon
  <2>2. ~ b => k = FullLine
    BY <1>6, Zenon
  <2> HIDE DEF b, k
  <2> QED  BY <2>1, <2>2, Zenon
<1> DEFINE r == [s EXCEPT !.phase = "output", !.len = k, !.ended = c]
<1>a. stmt' = [stmt EXCEPT ![t].phase = "output", ![t].len = k, ![t].ended = c]
  BY <1>2, <1>7
<1> HIDE DEF k, b
<1>8. stmt' = [stmt EXCEPT ![t] = r]
  BY <1>1, <1>a DEF Stmts
<1>9. SameHead(s, r)
  <2>1. /\ r.second = s.second /\ r.text = s.text /\ r.utc = s.utc /\ r.zones = s.zones
        /\ r.ended = c /\ r.len = k
    BY <1>1 DEF Stmts
  <2>2. r \in Stmts
    <3>1. "output" \in Phases /\ k \in Lengths /\ c \in BOOLEAN
      BY <1>6, <1>7 DEF Phases
    <3> QED  BY <1>1, <3>1 DEF Stmts
  <2> HIDE DEF r
  <2>3. ~ r.ended => r.len = FullLine
    BY <1>7, <2>1, Zenon
  <2> QED  BY <2>1, <2>2, <2>3, Zenon DEF SameHead
<1>10. /\ status' = (IF s.fatal THEN "aborted" ELSE status)
       /\ zone' = zone /\ since' = since /\ clock' = clock
       /\ logLevel' = logLevel /\ lastSecond' = lastSecond /\ time' = time
  BY DEF Finish, globals
<1> HIDE DEF r
<1>11. status' \in {"running", "aborted", "undefined"}
  BY <1>10 DEF LogInv, LogTypes
<1> QED  BY <1>8, <1>9, <1>10, <1>11, StmtKeeps

LEMMA LogStep ==
    ASSUME LogInv, [LogNext]_logVars
    PROVE  LogInv'
<1>1. CASE LogNext
  <2>1. CASE Tick
    BY <2>1, TickKeeps
  <2>2. CASE \E z \in Zones : SetTimeZone(z)
    BY <2>2, SetTimeZoneKeeps
  <2>3. CASE \E l \in Levels : SetLogLevel(l)
    BY <2>3, SetLogLevelKeeps
  <2>4. CASE \E t \in Threads :
               \/ \E m \in Macros :
                     BeginUndefined(t, m) \/ \E e \in {0, 11} : Begin(t, m, e)
               \/ \E p \in Pieces : Stream(t, p)
               \/ Finish(t, 164)
    BY <2>4, BeginKeeps, BeginUndefinedKeeps, StreamKeeps, FinishKeeps
  <2> QED  BY <1>1, <2>1, <2>2, <2>3, <2>4 DEF LogNext
<1>2. CASE UNCHANGED logVars
  <2>1. /\ zone' = zone /\ since' = since /\ clock' = clock /\ status' = status
        /\ logLevel' = logLevel /\ lastSecond' = lastSecond /\ time' = time /\ stmt' = stmt
    BY <1>2 DEF logVars, globals
  <2>2. LogTypes'
    BY <2>1 DEF LogInv, LogTypes
  <2>3. CacheRight'
    BY <2>1 DEF LogInv, CacheRight, SetDuring, now
  <2>4. \A u \in Threads : StmtRight(stmt[u])'
    BY <2>1 DEF LogInv, StmtRight, SetDuring
  <2> QED  BY <2>2, <2>3, <2>4 DEF LogInv
<1> QED  BY <1>1, <1>2

(* Every line of a logger shows the time of its own second in a zone that  *)
(* was set during it, whatever the zones, the clock and the cache.         *)
THEOREM StampsAreRight == LogSpec => []StampRight
<1>1. LogInit => LogInv
  BY LogStarts
<1>2. LogInv /\ [LogNext]_logVars => LogInv'
  BY LogStep
<1>3. LogInv => StampRight
  <2> SUFFICES ASSUME LogInv PROVE StampRight
    OBVIOUS
  <2>1. ASSUME NEW t \in Threads
        PROVE  /\ lastSecond[t] \in Int /\ time[t] \in Times
               /\ stmt[t].phase \in Phases /\ stmt[t].pieces \in 0..MaxPieces
    <3>1. lastSecond[t] \in Nat /\ time[t] \in Times /\ stmt[t] \in Stmts
      BY DEF LogInv, LogTypes
    <3> QED  BY <3>1 DEF Stmts
  <2>2. TypeOK
    BY <2>1 DEF LogInv, LogTypes, TypeOK
  <2>3. ASSUME NEW t \in Threads
        PROVE  /\ \E z \in stmt[t].zones :
                      Usable(z) /\ stmt[t].text = TextIn(z, stmt[t].second)
               /\ \E z \in stmt[t].zones : stmt[t].utc <=> z = None
    BY DEF LogInv, StmtRight, SetDuring
  <2> QED  BY <2>2, <2>3 DEF StampRight
<1> QED  BY <1>1, <1>2, <1>3, PTL DEF LogSpec

(* No line fills its buffer, and none loses its newline but when it has    *)
(* all the bytes a line may have.                                          *)
THEOREM LinesAreBounded == LogSpec => []LineBounded
<1>1. LogInit => LogInv
  BY LogStarts
<1>2. LogInv /\ [LogNext]_logVars => LogInv'
  BY LogStep
<1>3. LogInv => LineBounded
  <2> SUFFICES ASSUME LogInv, NEW t \in Threads
               PROVE  /\ stmt[t].len < 4000
                      /\ stmt[t].phase = "output" /\ ~ stmt[t].ended =>
                            stmt[t].len = FullLine
    BY DEF LineBounded, kSmallBuffer, FullLine
  <2>1. stmt[t] \in Stmts /\ StmtRight(stmt[t])
    BY DEF LogInv, LogTypes
  <2>2. stmt[t].len \in Lengths
    BY <2>1 DEF Stmts
  <2>3. \A l \in Lengths : l < 4000
    BY DEF Lengths, FullLine
  <2> QED  BY <2>1, <2>2, <2>3 DEF StmtRight
<1> QED  BY <1>1, <1>2, <1>3, PTL DEF LogSpec

(* The digits that convert and convertHex write have the value of the      *)
(* number, at every width of the integers.                                 *)
THEOREM ConvertsAreRight == LogSpec => []ConvertRight
<1>1. ConvertRight
  <2>1. \A v : v \in -(2 ^ (Bits - 1))..(2 ^ Bits - 1) => v \in Int
    OBVIOUS
  <2> QED  BY <2>1, Converts DEF ConvertRight
<1> QED  BY <1>1, PTL
=============================================================================
