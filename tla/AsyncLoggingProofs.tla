------------------------- MODULE AsyncLoggingProofs -------------------------
(***************************************************************************)
(* AsyncLogging keeps the promises of its asserts and of its lines for any *)
(* number of appending threads, buffer sizes, roll sizes and periods.      *)
(***************************************************************************)
EXTENDS AsyncLogging, TLAPS

(* Outside a round both spare buffers are there; in one, a spare is given  *)
(* away only for a filed buffer, so that as many buffers come back.        *)
RoundInv ==
    /\ pc \notin {"cut", "write", "refill"} => new1 /\ new2 /\ toWrite = <<>>
    /\ pc \in {"cut", "write", "refill"} =>
          ~new1 /\ toWrite # <<>> /\ (new2 \/ Len(toWrite) >= 2)
    /\ pc # "write" => wrote = 0
    /\ owner = "created" => pc = "unstarted"
    /\ ~next => buffers # <<>>

(* A log as rollFile leaves it: files are named after seconds that are     *)
(* over or the present one, in their order; an open file that is already   *)
(* renamed is the last of its name.                                        *)
LogOK(l, t) ==
    /\ l \in Logs
    /\ l.lastRoll <= t
    /\ \A i \in DOMAIN l.closed : l.closed[i].name <= l.lastRoll
    /\ l.open.name # Base =>
          /\ l.open.name <= l.lastRoll
          /\ \A i \in DOMAIN l.closed : l.closed[i].name < l.open.name
    /\ \A i, j \in DOMAIN l.closed :
          i < j /\ l.closed[i].name # Base /\ l.closed[j].name # Base
              => l.closed[i].name < l.closed[j].name

(* Nothing is written before the logging thread opens its own file.        *)
LogInv ==
    /\ LogOK(log, now)
    /\ pc \in {"unstarted", "begin"} =>
          log.closed = <<>> /\ log.open.lines = <<>> /\ log.lost = {}

-----------------------------------------------------------------------------
(* All lines of one chunk, or set of lines, come before those of another.  *)
Before(A, B) == \A a \in A, b \in B : a < b

(* The lines of two runs of chunks are those of both.                      *)
LEMMA LinesInConcat ==
    ASSUME NEW s \in Seq(Seq(Nat)), NEW t \in Seq(Seq(Nat))
    PROVE  LinesIn(s \o t) = LinesIn(s) \union LinesIn(t)
<1> DEFINE E == Seq(Nat)
<1>1. s \in Seq(E) /\ t \in Seq(E)
  OBVIOUS
<1> HIDE DEF E
<1>2. /\ \A i \in DOMAIN s : i \in DOMAIN (s \o t) /\ (s \o t)[i] = s[i]
      /\ \A i \in DOMAIN t : Len(s) + i \in DOMAIN (s \o t) /\ (s \o t)[Len(s) + i] = t[i]
      /\ \A i \in DOMAIN (s \o t) :
            (i \in DOMAIN s /\ (s \o t)[i] = s[i])
            \/ (i - Len(s) \in DOMAIN t /\ (s \o t)[i] = t[i - Len(s)])
  BY <1>1
<1> QED  BY <1>2 DEF LinesIn

(* One chunk, and none.                                                    *)
LEMMA LinesInOne ==
    ASSUME NEW x
    PROVE  LinesIn(<<x>>) = ToSet(x) /\ LinesIn(<<>>) = {}
BY DEF LinesIn

(* Two runs of chunks ascend together if each does and the first comes     *)
(* before the second.                                                      *)
LEMMA AscendingConcat ==
    ASSUME NEW s \in Seq(Seq(Nat)), NEW t \in Seq(Seq(Nat))
    PROVE  Ascending(s \o t) <=> Ascending(s) /\ Ascending(t) /\ Before(LinesIn(s), LinesIn(t))
<1> DEFINE E == Seq(Nat)
<1>1. s \in Seq(E) /\ t \in Seq(E)
  OBVIOUS
<1> HIDE DEF E
<1>2. /\ \A i \in DOMAIN s : i \in Int /\ i <= Len(s) /\ i \in DOMAIN (s \o t) /\ (s \o t)[i] = s[i]
      /\ \A i \in DOMAIN t :
            i \in Int /\ i >= 1 /\ Len(s) + i \in DOMAIN (s \o t) /\ (s \o t)[Len(s) + i] = t[i]
      /\ \A i \in DOMAIN (s \o t) :
            i \in Int
            /\ ((i \in DOMAIN s /\ (s \o t)[i] = s[i])
               \/ (i > Len(s) /\ i - Len(s) \in DOMAIN t /\ (s \o t)[i] = t[i - Len(s)]))
      /\ Len(s) \in Nat
  BY <1>1, SMTT(30)
<1>3. ASSUME Ascending(s \o t)
      PROVE  Ascending(s) /\ Ascending(t) /\ Before(LinesIn(s), LinesIn(t))
  <2>1. Ascending(s)
    BY <1>2, <1>3 DEF Ascending
  <2>2. Ascending(t)
    <3> SUFFICES ASSUME NEW i \in DOMAIN t, NEW j \in DOMAIN t,
                        NEW a \in DOMAIN t[i], NEW b \in DOMAIN t[j],
                        i < j \/ (i = j /\ a < b)
                 PROVE  t[i][a] < t[j][b]
      BY DEF Ascending
    <3>1. CASE i < j
      <4>1. Len(s) + i < Len(s) + j
        BY <1>2, <3>1
      <4> QED  BY <1>2, <1>3, <4>1 DEF Ascending
    <3>2. CASE i = j /\ a < b
      BY <1>2, <1>3, <3>2 DEF Ascending
    <3> QED  BY <3>1, <3>2
  <2>3. Before(LinesIn(s), LinesIn(t))
    <3> SUFFICES ASSUME NEW i \in DOMAIN s, NEW j \in DOMAIN t,
                        NEW a \in DOMAIN s[i], NEW b \in DOMAIN t[j]
                 PROVE  s[i][a] < t[j][b]
      BY DEF Before, LinesIn, ToSet
    <3>1. i < Len(s) + j
      BY <1>2
    <3> QED  BY <1>2, <1>3, <3>1 DEF Ascending
  <2> QED  BY <2>1, <2>2, <2>3
<1>4. ASSUME Ascending(s), Ascending(t), Before(LinesIn(s), LinesIn(t))
      PROVE  Ascending(s \o t)
  <2> SUFFICES ASSUME NEW i \in DOMAIN (s \o t), NEW j \in DOMAIN (s \o t),
                      NEW a \in DOMAIN (s \o t)[i], NEW b \in DOMAIN (s \o t)[j],
                      i < j \/ (i = j /\ a < b)
               PROVE  (s \o t)[i][a] < (s \o t)[j][b]
    BY DEF Ascending
  <2>1. \A k \in DOMAIN s, l \in DOMAIN t :
           \A c \in DOMAIN s[k], d \in DOMAIN t[l] : s[k][c] < t[l][d]
    BY <1>4 DEF Before, LinesIn, ToSet
  <2>2. CASE i \in DOMAIN s /\ (s \o t)[i] = s[i] /\ j \in DOMAIN s /\ (s \o t)[j] = s[j]
    BY <1>4, <2>2 DEF Ascending
  <2>3. CASE i \in DOMAIN s /\ (s \o t)[i] = s[i] /\ j - Len(s) \in DOMAIN t /\ (s \o t)[j] = t[j - Len(s)]
    BY <2>1, <2>3
  <2>4. CASE i > Len(s) /\ i - Len(s) \in DOMAIN t /\ (s \o t)[i] = t[i - Len(s)]
             /\ j - Len(s) \in DOMAIN t /\ (s \o t)[j] = t[j - Len(s)]
    <3>1. i - Len(s) < j - Len(s) \/ (i - Len(s) = j - Len(s) /\ a < b)
      BY <1>2
    <3> QED  BY <1>4, <2>4, <3>1 DEF Ascending
  <2>5. ~ (i > Len(s) /\ j \in DOMAIN s)
    BY <1>2
  <2> QED  BY <1>2, <2>2, <2>3, <2>4, <2>5
<1> QED  BY <1>3, <1>4

(* The lines of a buffer ascend.                                           *)
Increasing(x) == \A a, b \in DOMAIN x : a < b => x[a] < x[b]

(* A single chunk ascends if its lines do.                                 *)
LEMMA AscendingOne ==
    ASSUME NEW x \in Seq(Nat)
    PROVE  (Ascending(<<x>>) <=> Increasing(x)) /\ Ascending(<<>>)
<1>1. DOMAIN <<x>> = {1} /\ <<x>>[1] = x /\ DOMAIN <<>> = {}
  OBVIOUS
<1> QED  BY <1>1 DEF Ascending, Increasing

(* AppendFile::append: lines written after those of a file.                *)
LEMMA IncreasingConcat ==
    ASSUME NEW x \in Seq(Nat), NEW y \in Seq(Nat),
           Increasing(x), Increasing(y), Before(ToSet(x), ToSet(y))
    PROVE  Increasing(x \o y)
<1>1. \A a \in DOMAIN (x \o y) : a \in Int
         /\ ((a \in 1..Len(x) /\ a \in DOMAIN x /\ (x \o y)[a] = x[a])
            \/ (a > Len(x) /\ a - Len(x) \in DOMAIN y /\ (x \o y)[a] = y[a - Len(x)]))
  OBVIOUS
<1>2. Len(x) \in Nat
  OBVIOUS
<1>3. \A a \in DOMAIN x, b \in DOMAIN y : x[a] < y[b]
  BY DEF Before, ToSet
<1> SUFFICES ASSUME NEW a \in DOMAIN (x \o y), NEW b \in DOMAIN (x \o y), a < b
             PROVE  (x \o y)[a] < (x \o y)[b]
  BY DEF Increasing
<1>4. CASE a > Len(x) /\ a - Len(x) \in DOMAIN y /\ b - Len(x) \in DOMAIN y
  BY <1>1, <1>2, <1>4 DEF Increasing
<1>5. CASE a \in DOMAIN x /\ b \in DOMAIN x /\ a <= Len(x) /\ b <= Len(x)
  BY <1>1, <1>2, <1>5 DEF Increasing
<1>6. CASE a \in DOMAIN x /\ a <= Len(x) /\ b > Len(x)
  BY <1>1, <1>2, <1>3, <1>6
<1> QED  BY <1>1, <1>2, <1>4, <1>5, <1>6

(* The elements of two sequences.                                          *)
LEMMA ToSetConcat ==
    ASSUME NEW x \in Seq(Nat), NEW y \in Seq(Nat)
    PROVE  /\ ToSet(x \o y) = ToSet(x) \union ToSet(y)
           /\ ToSet(x) \subseteq Nat
<1>2. /\ \A i \in DOMAIN x : i \in DOMAIN (x \o y) /\ (x \o y)[i] = x[i]
      /\ \A i \in DOMAIN y : Len(x) + i \in DOMAIN (x \o y) /\ (x \o y)[Len(x) + i] = y[i]
      /\ \A i \in DOMAIN (x \o y) :
            (i \in DOMAIN x /\ (x \o y)[i] = x[i])
            \/ (i - Len(x) \in DOMAIN y /\ (x \o y)[i] = y[i - Len(x)])
  BY SMTT(30)
<1>3. ToSet(x \o y) \subseteq ToSet(x) \union ToSet(y)
  BY <1>2 DEF ToSet
<1>4. ToSet(x) \union ToSet(y) \subseteq ToSet(x \o y)
  <2>1. \A i \in DOMAIN x : x[i] \in ToSet(x \o y)
    BY <1>2 DEF ToSet
  <2>2. \A i \in DOMAIN y : y[i] \in ToSet(x \o y)
    <3> HIDE DEF ToSet
    <3>1. \A k \in DOMAIN (x \o y) : (x \o y)[k] \in ToSet(x \o y)
      BY DEF ToSet
    <3> QED  BY <1>2, <3>1
  <2> QED  BY <2>1, <2>2 DEF ToSet
<1>5. ToSet(x) \subseteq Nat
  BY DEF ToSet
<1> QED  BY <1>3, <1>4, <1>5

-----------------------------------------------------------------------------
(* The lines of each of some files.                                        *)
Each(files) == [i \in DOMAIN files |-> files[i].lines]

(* The files of a log are the closed ones and then the open one.           *)
LEMMA WrittenSplit ==
    ASSUME NEW l \in Logs
    PROVE  /\ Each(l.closed) \in Seq(Seq(Nat)) /\ l.open.lines \in Seq(Nat)
           /\ Written(l) = Each(l.closed) \o <<l.open.lines>>
           /\ Written(l) \in Seq(Seq(Nat))
           /\ LinesOf(l.closed) = LinesIn(Each(l.closed))
           /\ OnDisk(l) = LinesIn(Written(l))
<1>1. l.closed \in Seq(Files) /\ l.open \in Files
  BY DEF Logs
<1>2. \A i \in DOMAIN l.closed : l.closed[i].lines \in Seq(Nat)
  <2> HIDE DEF Files
  <2>1. \A i \in DOMAIN l.closed : l.closed[i] \in Files
    BY <1>1
  <2> QED  BY <2>1 DEF Files
<1>3. l.open.lines \in Seq(Nat)
  BY <1>1 DEF Files
<1> DEFINE E == Seq(Nat)
           C == l.closed
           o == l.open
<1>4. DOMAIN C = 1..Len(C) /\ Len(C) \in Nat
  BY <1>1
<1> HIDE DEF E
<1>5. Each(C) \in Seq(E)
  BY <1>2, <1>4 DEF Each, E
<1>6. o.lines \in E
  BY <1>3 DEF E
<1>7. Len(Each(C)) = Len(C) /\ DOMAIN Each(C) = 1..Len(C)
  BY <1>4, <1>5 DEF Each
<1>8. AllFiles(l) \in Seq(Files) /\ DOMAIN AllFiles(l) = 1..(Len(C) + 1)
      /\ AllFiles(l)[Len(C) + 1] = o /\ \A i \in 1..Len(C) : AllFiles(l)[i] = C[i]
  BY <1>1 DEF AllFiles
<1>9. Written(l) = Each(C) \o <<o.lines>>
  <2> DEFINE e == Each(C)
             n == Len(C)
             x == o.lines
             v == e \o <<x>>
             w == Written(l)
  <2>1. e \in Seq(E) /\ x \in E /\ Len(e) = n /\ n \in Nat
    BY <1>4, <1>5, <1>6, <1>7
  <2>2. \A i \in 1..n : e[i] = C[i].lines
    BY <1>4 DEF Each
  <2>3. DOMAIN w = 1..(n + 1) /\ w[n + 1] = x /\ \A i \in 1..n : w[i] = C[i].lines
    BY <1>4, <1>8 DEF Written
  <2>4. w = [i \in 1..(n + 1) |-> w[i]]
    BY <1>8 DEF Written
  <2> HIDE DEF e, n, x, w
  <2>5. v \in Seq(E) /\ Len(v) = n + 1 /\ v[n + 1] = x /\ \A i \in 1..n : v[i] = e[i]
    BY <2>1
  <2>6. v = [i \in 1..(n + 1) |-> v[i]]
    BY <2>5
  <2> HIDE DEF v
  <2>7. \A i \in 1..(n + 1) : v[i] = w[i]
    BY <2>1, <2>2, <2>3, <2>5
  <2>8. v = w
    BY <2>4, <2>6, <2>7
  <2> QED  BY <2>8 DEF v, e, w, x
<1>10. Written(l) \in Seq(E)
  BY <1>5, <1>6, <1>9
<1>11. LinesOf(C) = LinesIn(Each(C))
  BY DEF LinesOf, LinesIn, Each
<1>12. OnDisk(l) = LinesIn(Written(l))
  BY DEF OnDisk, LinesOf, LinesIn, Written
<1> QED  BY <1>3, <1>5, <1>9, <1>10, <1>11, <1>12 DEF E

(* The fields of a log.                                                    *)
LEMMA LogFields ==
    ASSUME NEW l \in Logs
    PROVE  /\ l.open.name \in Nat /\ l.open.lines \in Seq(Nat) /\ l.written \in Nat
           /\ l.closed \in Seq(Files) /\ l.lost \in SUBSET Nat /\ l.count \in Nat
           /\ l.startOfPeriod \in Nat /\ l.lastRoll \in Nat
           /\ \A i \in DOMAIN l.closed : l.closed[i].name \in Nat /\ l.closed[i].lines \in Seq(Nat)
<1>1. l.closed \in Seq(Files) /\ l.open \in Files
  BY DEF Logs
<1>2. \A i \in DOMAIN l.closed : l.closed[i] \in Files
  <2> HIDE DEF Files
  <2> QED  BY <1>1
<1> QED  BY <1>1, <1>2 DEF Logs, Files

(* AppendFile::append puts the lines at the end of the open file.          *)
LEMMA AppendFileKeeps ==
    ASSUME NEW t \in Nat, NEW l, LogOK(l, t), Ascending(Written(l)),
           NEW lines \in Seq(Nat), NEW size \in Nat, Increasing(lines),
           Before(OnDisk(l), ToSet(lines))
    PROVE  LET a == AppendFile(l, lines, size)
           IN  /\ LogOK(a, t)
               /\ Ascending(Written(a))
               /\ OnDisk(a) = OnDisk(l) \union ToSet(lines)
               /\ a.lost = l.lost
<1> DEFINE a == AppendFile(l, lines, size)
           e == Each(l.closed)
           x == l.open.lines
<1>1. l \in Logs
  BY DEF LogOK
<1>2. /\ a.open.name = l.open.name /\ a.open.lines = x \o lines
      /\ a.closed = l.closed /\ a.lost = l.lost /\ a.lastRoll = l.lastRoll
      /\ a \in Logs
  <2>1. x \o lines \in Seq(Nat) /\ l.written + size \in Nat
    BY <1>1, LogFields
  <2>2. a = [l EXCEPT !.open = [l.open EXCEPT !.lines = x \o lines], !.written = l.written + size]
    BY <1>1 DEF AppendFile, Logs, Files
  <2>3. [l.open EXCEPT !.lines = x \o lines] \in Files
    BY <1>1, <2>1 DEF Logs, Files
  <2> HIDE DEF a
  <2>4. a \in Logs
    BY <1>1, <2>1, <2>2, <2>3 DEF Logs
  <2>5. a.open = [l.open EXCEPT !.lines = x \o lines]
        /\ a.closed = l.closed /\ a.lost = l.lost /\ a.lastRoll = l.lastRoll
    BY <1>1, <2>2 DEF Logs
  <2>6. a.open.name = l.open.name /\ a.open.lines = x \o lines
    BY <1>1, <2>5 DEF Logs, Files
  <2> QED  BY <2>4, <2>5, <2>6
<1>3. LogOK(a, t)
  BY <1>2 DEF LogOK
<1>4. e \in Seq(Seq(Nat)) /\ x \in Seq(Nat) /\ Written(l) = e \o <<x>>
      /\ OnDisk(l) = LinesIn(Written(l))
  BY <1>1, WrittenSplit
<1>5. Written(a) = e \o <<x \o lines>> /\ OnDisk(a) = LinesIn(Written(a))
  BY <1>2, WrittenSplit
<1> HIDE DEF a, e, x
<1> DEFINE y == x \o lines
<1>6. y \in Seq(Nat) /\ <<x>> \in Seq(Seq(Nat)) /\ <<y>> \in Seq(Seq(Nat))
  BY <1>4
<1>7. ToSet(y) = ToSet(x) \union ToSet(lines)
  BY <1>4, ToSetConcat
<1>a. Increasing(x) /\ Before(ToSet(x), ToSet(lines)) => Increasing(y)
  BY <1>4, IncreasingConcat
<1>b. Written(a) = e \o <<y>>
  BY <1>5
<1> HIDE DEF y
<1>8. LinesIn(Written(l)) = LinesIn(e) \union ToSet(x)
  <2>1. LinesIn(e \o <<x>>) = LinesIn(e) \union LinesIn(<<x>>)
    BY <1>4, <1>6, LinesInConcat
  <2>2. LinesIn(<<x>>) = ToSet(x)
    BY <1>4, LinesInOne
  <2> QED  BY <1>4, <2>1, <2>2
<1>9. LinesIn(Written(a)) = LinesIn(e) \union ToSet(y)
  BY <1>4, <1>b, <1>6, LinesInConcat, LinesInOne
<1>10. OnDisk(a) = OnDisk(l) \union ToSet(lines)
  BY <1>4, <1>5, <1>7, <1>8, <1>9
<1>11. Ascending(e) /\ Increasing(x) /\ Before(LinesIn(e), ToSet(x))
  BY <1>4, <1>6, AscendingConcat, AscendingOne, LinesInOne
<1>12. Before(LinesIn(e), ToSet(y)) /\ Before(ToSet(x), ToSet(lines))
  BY <1>4, <1>7, <1>8, <1>11 DEF Before
<1>13. Increasing(y)
  BY <1>a, <1>11, <1>12
<1>14. Ascending(Written(a))
  <2>1. Ascending(<<y>>) /\ LinesIn(<<y>>) = ToSet(y)
    BY <1>6, <1>13, AscendingOne, LinesInOne
  <2>2. Ascending(e \o <<y>>) <=>
           Ascending(e) /\ Ascending(<<y>>) /\ Before(LinesIn(e), LinesIn(<<y>>))
    BY <1>4, <1>6, AscendingConcat
  <2> QED  BY <1>b, <1>11, <1>12, <2>1, <2>2
<1> QED  BY <1>2, <1>3, <1>10, <1>14 DEF a

(* Removing a file from some leaves the others in their order.             *)
LEMMA RemoveAtKeeps ==
    ASSUME NEW s \in Seq(Files), NEW n \in DOMAIN s
    PROVE  LET k == RemoveAt(s, n)
           IN  /\ k \in Seq(Files)
               /\ \A i \in DOMAIN k :
                     /\ i \in Int
                     /\ i < n => i \in DOMAIN s /\ k[i] = s[i]
                     /\ i >= n => i + 1 \in DOMAIN s /\ k[i] = s[i + 1]
<1> HIDE DEF Files
<1> DEFINE m == Len(s)
           u == SubSeq(s, 1, n - 1)
           v == SubSeq(s, n + 1, m)
<1>1. m \in Nat /\ DOMAIN s = 1..m /\ n \in 1..m
  OBVIOUS
<1>2. u \in Seq(Files) /\ Len(u) = n - 1 /\ \A i \in 1..(n - 1) : u[i] = s[i]
  BY <1>1
<1>3. v \in Seq(Files) /\ Len(v) = m - n /\ \A i \in 1..(m - n) : v[i] = s[n + i]
  BY <1>1
<1> HIDE DEF m, u, v
<1>4. u \o v \in Seq(Files) /\ DOMAIN (u \o v) = 1..(m - 1)
      /\ \A i \in 1..(m - 1) :
            (i < n => (u \o v)[i] = u[i]) /\ (i >= n => (u \o v)[i] = v[i - n + 1])
  BY <1>1, <1>2, <1>3
<1>5. \A i \in 1..(m - 1) : i >= n => v[i - n + 1] = s[i + 1]
  <2> SUFFICES ASSUME NEW i \in 1..(m - 1), i >= n
               PROVE  v[i - n + 1] = s[i + 1]
    OBVIOUS
  <2>1. i - n + 1 \in 1..(m - n) /\ n + (i - n + 1) = i + 1
    BY <1>1
  <2> QED  BY <1>3, <2>1
<1>6. RemoveAt(s, n) = u \o v
  BY DEF RemoveAt, u, v, m
<1> DEFINE k == RemoveAt(s, n)
<1>7. k \in Seq(Files) /\ DOMAIN k = 1..(m - 1)
  BY <1>4, <1>6
<1>8. \A i \in 1..(m - 1) : (i < n => k[i] = s[i]) /\ (i >= n => k[i] = s[i + 1])
  <2> SUFFICES ASSUME NEW i \in 1..(m - 1)
               PROVE  (i < n => k[i] = s[i]) /\ (i >= n => k[i] = s[i + 1])
    OBVIOUS
  <2>1. i < n => i \in 1..(n - 1)
    BY <1>1
  <2> QED  BY <1>2, <1>4, <1>5, <1>6, <2>1
<1> HIDE DEF k
<1>9. \A i \in 1..(m - 1) :
         i \in Int /\ (i < n => i \in 1..m) /\ (i >= n => i + 1 \in 1..m)
  BY <1>1
<1> QED  BY <1>1, <1>7, <1>8, <1>9 DEF k

(* rename(2): the open file gets a name after those of all others, and the *)
(* lines of the file it replaces, if any, are the only ones that go.       *)
LEMMA RenameKeeps ==
    ASSUME NEW t \in Nat, NEW l, LogOK(l, t), Ascending(Written(l))
    PROVE  LET r == Rename(l, t)
           IN  /\ r \in Logs
               /\ r.open.lines = l.open.lines /\ r.lastRoll = l.lastRoll
               /\ Ascending(Written(r))
               /\ OnDisk(r) \subseteq OnDisk(l)
               /\ r.lost = l.lost \union (OnDisk(l) \ OnDisk(r))
               /\ \A i \in DOMAIN r.closed : r.closed[i].name <= r.lastRoll
               /\ r.open.name # Base =>
                     r.open.name <= t /\ \A i \in DOMAIN r.closed : r.closed[i].name < r.open.name
               /\ \A i, j \in DOMAIN r.closed :
                     i < j /\ r.closed[i].name # Base /\ r.closed[j].name # Base
                         => r.closed[i].name < r.closed[j].name
<1> DEFINE r == Rename(l, t)
           old == {i \in DOMAIN l.closed : l.closed[i].name = t}
           n == CHOOSE i \in old : TRUE
           kept == IF old = {} THEN l.closed ELSE RemoveAt(l.closed, n)
           x == l.open.lines
<1>1. l \in Logs /\ l.lastRoll <= t
  BY DEF LogOK
<1>2. CASE ~ (l.open.name = Base /\ l.startOfPeriod = PeriodOf(t))
  <2>1. r = l
    BY <1>2 DEF Rename
  <2>2. l.lastRoll \in Nat /\ l.open.name \in Nat
    BY <1>1, LogFields
  <2> QED  BY <1>1, <2>1, <2>2 DEF LogOK
<1>3. CASE l.open.name = Base /\ l.startOfPeriod = PeriodOf(t)
  <2>1. r = [l EXCEPT !.open = [l.open EXCEPT !.name = t], !.closed = kept,
                      !.lost = l.lost \union (LinesOf(l.closed) \ LinesOf(kept))]
    BY <1>1, <1>3 DEF Rename, Logs, Files
  <2>2. old # {} => n \in DOMAIN l.closed /\ l.closed[n].name = t
    OBVIOUS
  <2>3. l.closed \in Seq(Files) /\ l.lastRoll \in Nat /\ x \in Seq(Nat) /\ l.lost \in SUBSET Nat
        /\ \A i \in DOMAIN l.closed : i \in Nat /\ l.closed[i].name \in Nat /\ l.closed[i].lines \in Seq(Nat)
    BY <1>1, LogFields
  <2>4. /\ kept \in Seq(Files)
        /\ \A i \in DOMAIN kept : i \in Int /\
              \/ old = {} /\ i \in DOMAIN l.closed /\ kept[i] = l.closed[i]
              \/ old # {} /\ i < n /\ i \in DOMAIN l.closed /\ kept[i] = l.closed[i]
              \/ old # {} /\ i >= n /\ i + 1 \in DOMAIN l.closed /\ kept[i] = l.closed[i + 1]
    <3>1. CASE old = {}
      BY <2>3, <3>1
    <3>2. CASE old # {}
      <4> HIDE DEF n
      <4>1. kept = RemoveAt(l.closed, n)
        BY <3>2
      <4>2. n \in DOMAIN l.closed /\ n \in Int
        BY <2>2, <2>3, <3>2
      <4> HIDE DEF kept, old
      <4> QED  BY <2>3, <3>2, <4>1, <4>2, RemoveAtKeeps
    <3> QED  BY <3>1, <3>2
  <2> HIDE DEF old, n, kept, r
  <2>5. /\ r.open = [l.open EXCEPT !.name = t] /\ r.closed = kept /\ r.lastRoll = l.lastRoll
        /\ r.lost = l.lost \union (LinesOf(l.closed) \ LinesOf(kept))
    BY <1>1, <2>1 DEF Logs
  <2>6. r.open.name = t /\ r.open.lines = x /\ r.open \in Files
    BY <1>1, <2>5 DEF Logs, Files
  <2>7. PICK f \in [DOMAIN kept -> DOMAIN l.closed] :
           /\ \A i \in DOMAIN kept : kept[i] = l.closed[f[i]]
           /\ \A i, j \in DOMAIN kept : i < j => f[i] < f[j]
           /\ old # {} => \A i \in DOMAIN kept : f[i] # n
    <3> DEFINE g == [i \in DOMAIN kept |-> IF old = {} \/ i < n THEN i ELSE i + 1]
    <3>1. \A i \in DOMAIN kept : g[i] \in DOMAIN l.closed /\ kept[i] = l.closed[g[i]]
                                 /\ (old # {} => g[i] # n)
      BY <2>2, <2>3, <2>4
    <3>2. \A i, j \in DOMAIN kept : i < j => g[i] < g[j]
      BY <2>2, <2>3, <2>4
    <3>3. g \in [DOMAIN kept -> DOMAIN l.closed]
      BY <3>1
    <3> HIDE DEF g
    <3> QED  BY <3>1, <3>2, <3>3
  <2>8. \A i \in DOMAIN kept : f[i] \in DOMAIN l.closed
    BY <2>7
  <2>9. LinesOf(kept) \subseteq LinesOf(l.closed)
    BY <2>7, <2>8 DEF LinesOf
  <2>10. LinesOf(l.closed) \subseteq Nat
    BY <2>3 DEF LinesOf, ToSet
  <2>11. r \in Logs
    BY <1>1, <2>1, <2>3, <2>4, <2>5, <2>6, <2>10 DEF Logs
  <2>12. Ascending(Each(l.closed)) /\ Increasing(x) /\ Before(LinesIn(Each(l.closed)), ToSet(x))
         /\ OnDisk(l) = LinesOf(l.closed) \union ToSet(x)
         /\ LinesOf(l.closed) = LinesIn(Each(l.closed))
    <3> DEFINE e == Each(l.closed)
    <3>1. e \in Seq(Seq(Nat)) /\ Written(l) = e \o <<x>> /\ OnDisk(l) = LinesIn(Written(l))
          /\ <<x>> \in Seq(Seq(Nat)) /\ LinesOf(l.closed) = LinesIn(e)
      BY <1>1, <2>3, WrittenSplit
    <3> HIDE DEF e, x
    <3>2. Ascending(<<x>>) <=> Increasing(x)
      BY <2>3, AscendingOne
    <3> HIDE DEF Written, OnDisk
    <3>3. LinesIn(e \o <<x>>) = LinesIn(e) \union ToSet(x) /\ LinesIn(<<x>>) = ToSet(x)
      <4>1. LinesIn(e \o <<x>>) = LinesIn(e) \union LinesIn(<<x>>)
        BY <3>1, LinesInConcat
      <4>2. LinesIn(<<x>>) = ToSet(x)
        BY <2>3, LinesInOne
      <4> QED  BY <4>1, <4>2
    <3>4. Ascending(e) /\ Ascending(<<x>>) /\ Before(LinesIn(e), LinesIn(<<x>>))
      BY <3>1, AscendingConcat
    <3> QED  BY <3>1, <3>2, <3>3, <3>4 DEF e
  <2>13. Each(kept) \in Seq(Seq(Nat)) /\ Written(r) = Each(kept) \o <<x>>
         /\ OnDisk(r) = LinesIn(Written(r)) /\ LinesOf(kept) = LinesIn(Each(kept))
    BY <2>5, <2>6, <2>11, WrittenSplit
  <2>14. Ascending(Each(kept))
    <3> SUFFICES ASSUME NEW i \in DOMAIN kept, NEW j \in DOMAIN kept,
                        NEW a \in DOMAIN kept[i].lines, NEW b \in DOMAIN kept[j].lines,
                        i < j \/ (i = j /\ a < b)
                 PROVE  kept[i].lines[a] < kept[j].lines[b]
      BY DEF Ascending, Each
    <3>1. f[i] < f[j] \/ (f[i] = f[j] /\ a < b)
      BY <2>7
    <3> QED  BY <2>7, <2>8, <2>12, <3>1 DEF Ascending, Each
  <2>15. OnDisk(r) = LinesOf(kept) \union ToSet(x)
    <3> HIDE DEF x
    <3>1. <<x>> \in Seq(Seq(Nat))
      BY <2>3
    <3>2. LinesIn(Each(kept) \o <<x>>) = LinesIn(Each(kept)) \union LinesIn(<<x>>)
      BY <2>13, <3>1, LinesInConcat
    <3>3. LinesIn(<<x>>) = ToSet(x)
      BY <2>3, LinesInOne
    <3> QED  BY <2>13, <3>2, <3>3
  <2>16. Ascending(Written(r))
    <3> HIDE DEF x
    <3>1. <<x>> \in Seq(Seq(Nat)) /\ Ascending(<<x>>) /\ LinesIn(<<x>>) = ToSet(x)
      BY <2>3, <2>12, AscendingOne, LinesInOne
    <3>2. Before(LinesIn(Each(kept)), ToSet(x))
      BY <2>9, <2>12, <2>13 DEF Before
    <3>3. Ascending(Each(kept) \o <<x>>) <=>
             Ascending(Each(kept)) /\ Ascending(<<x>>) /\ Before(LinesIn(Each(kept)), LinesIn(<<x>>))
      BY <2>13, <3>1, AscendingConcat
    <3> QED  BY <2>13, <2>14, <3>1, <3>2, <3>3
  <2>17. LinesOf(l.closed) \intersect ToSet(x) = {}
    <3>1. ToSet(x) \subseteq Nat
      BY <2>3 DEF ToSet
    <3> QED  BY <2>10, <2>12, <3>1 DEF Before
  <2>18. OnDisk(r) \subseteq OnDisk(l) /\ r.lost = l.lost \union (OnDisk(l) \ OnDisk(r))
    BY <2>5, <2>9, <2>12, <2>15, <2>17
  <2>19. \A i \in DOMAIN kept : kept[i].name <= l.lastRoll
    BY <2>7, <2>8 DEF LogOK
  <2>20. \A i, j \in DOMAIN kept :
            i < j /\ kept[i].name # Base /\ kept[j].name # Base => kept[i].name < kept[j].name
    BY <2>7, <2>8 DEF LogOK
  <2>21. t # Base => \A i \in DOMAIN kept : kept[i].name < t
    <3> SUFFICES ASSUME t # Base, NEW i \in DOMAIN kept, ~ (kept[i].name < t)
                 PROVE  FALSE
      OBVIOUS
    <3>1. kept[i].name = t /\ l.closed[f[i]].name = t
      BY <1>1, <2>3, <2>7, <2>8, <2>19
    <3>2. old # {} /\ n \in DOMAIN l.closed /\ l.closed[n].name = t /\ f[i] # n
      BY <2>2, <2>7, <2>8, <3>1 DEF old
    <3>3. f[i] < n \/ n < f[i]
      BY <2>3, <2>8, <3>2
    <3> QED  BY <2>8, <3>1, <3>2, <3>3 DEF LogOK
  <2> QED  BY <2>5, <2>6, <2>11, <2>16, <2>18, <2>19, <2>20, <2>21 DEF r
<1> QED  BY <1>2, <1>3

(* A second's period begins with a second.                                 *)
LEMMA PeriodIsNat == ASSUME NEW t \in Nat PROVE PeriodOf(t) \in Nat
<1>1. t % RollPerSeconds \in 0..(RollPerSeconds - 1) /\ t % RollPerSeconds <= t
  BY PeriodAssumption
<1> QED  BY <1>1 DEF PeriodOf

(* A log of one empty file.                                                *)
LEMMA NewLogOK ==
    ASSUME NEW t \in Nat
    PROVE  LET l == NewLog(t)
           IN  /\ LogOK(l, t)
               /\ l.closed = <<>> /\ l.open.lines = <<>> /\ l.lost = {}
<1>1. NewLog(t) \in Logs
  BY PeriodIsNat DEF NewLog, Logs, Files, NewFile, Base
<1> QED  BY <1>1 DEF NewLog, LogOK, NewFile, Base

(* A log in which nothing has been written holds no lines.                 *)
LEMMA EmptyLog ==
    ASSUME NEW l \in Logs, l.closed = <<>>, l.open.lines = <<>>
    PROVE  Written(l) = <<<<>>>> /\ OnDisk(l) = {} /\ Ascending(Written(l))
<1>1. Each(l.closed) = <<>>
  BY DEF Each
<1>2. Written(l) = <<<<>>>>
  <2> DEFINE z == <<<<>>>>
  <2>1. <<>> \o z = z
    OBVIOUS
  <2>2. Written(l) = Each(l.closed) \o <<l.open.lines>>
    BY WrittenSplit
  <2>3. <<l.open.lines>> = z
    OBVIOUS
  <2> HIDE DEF z
  <2> QED  BY <1>1, <2>1, <2>2, <2>3 DEF z
<1>3. LinesIn(<<<<>>>>) = {}
  BY DEF LinesIn, ToSet
<1>4. Ascending(<<<<>>>>)
  BY DEF Ascending
<1> QED  BY <1>2, <1>3, <1>4, WrittenSplit

(* rollFile loses no line but those the rename replaces, and keeps order.  *)
LEMMA RollFileKeeps ==
    ASSUME NEW t \in Nat, NEW l, LogOK(l, t), Ascending(Written(l))
    PROVE  LET r == RollFile(l, t)
           IN  /\ LogOK(r, t)
               /\ Ascending(Written(r))
               /\ OnDisk(r) \subseteq OnDisk(l)
               /\ r.lost = l.lost \union (OnDisk(l) \ OnDisk(r))
<1> DEFINE q == Rename(l, t)
           r == RollFile(l, t)
<1>1. /\ q \in Logs
      /\ q.open.lines = l.open.lines /\ q.lastRoll = l.lastRoll
      /\ Ascending(Written(q))
      /\ OnDisk(q) \subseteq OnDisk(l)
      /\ q.lost = l.lost \union (OnDisk(l) \ OnDisk(q))
      /\ \A i \in DOMAIN q.closed : q.closed[i].name <= q.lastRoll
      /\ q.open.name # Base =>
            q.open.name <= t /\ \A i \in DOMAIN q.closed : q.closed[i].name < q.open.name
      /\ \A i, j \in DOMAIN q.closed :
            i < j /\ q.closed[i].name # Base /\ q.closed[j].name # Base
                => q.closed[i].name < q.closed[j].name
  BY RenameKeeps
<1>2. l.lastRoll <= t /\ l.lastRoll \in Nat
  BY LogFields DEF LogOK
<1>3. r = IF t > q.lastRoll
          THEN [q EXCEPT !.closed = Append(q.closed, q.open),
                         !.open = NewFile, !.written = 0,
                         !.lastRoll = t, !.startOfPeriod = PeriodOf(t)]
          ELSE q
  BY DEF RollFile
<1> HIDE DEF q, r
<1>4. CASE ~ (t > q.lastRoll)
  <2>1. r = q /\ q.lastRoll = t
    BY <1>1, <1>2, <1>3, <1>4
  <2> QED  BY <1>1, <2>1 DEF LogOK, r
<1>5. CASE t > q.lastRoll
  <2>1. /\ r.closed = Append(q.closed, q.open) /\ r.open = NewFile
        /\ r.lastRoll = t /\ r.lost = q.lost
    BY <1>1, <1>3, <1>5 DEF Logs
  <2>2. NewFile \in Files /\ NewFile.name = Base /\ NewFile.lines = <<>>
    BY DEF NewFile, Files, Base
  <2>3. q.closed \in Seq(Files) /\ q.open \in Files
    BY <1>1 DEF Logs
  <2>4. Append(q.closed, q.open) \in Seq(Files)
    <3> HIDE DEF Files
    <3> QED  BY <2>3
  <2>5. r \in Logs
    BY <1>1, <1>3, <1>5, <2>2, <2>4, PeriodIsNat DEF Logs
  <2>6. /\ DOMAIN r.closed = 1..(Len(q.closed) + 1) /\ Len(q.closed) \in Nat
        /\ DOMAIN q.closed = 1..Len(q.closed)
        /\ r.closed[Len(q.closed) + 1] = q.open
        /\ \A i \in DOMAIN q.closed : r.closed[i] = q.closed[i]
    <3> HIDE DEF Files
    <3> QED  BY <2>1, <2>3
  <2>7. \A i \in DOMAIN r.closed : i \in DOMAIN q.closed \/ (i = Len(q.closed) + 1)
    BY <2>6
  <2>8. \A i \in DOMAIN q.closed : q.closed[i].name \in Nat
    BY <1>1, LogFields
  <2>9. q.open.name \in Nat /\ q.lastRoll \in Nat
    BY <1>1, LogFields
  <2>10. \A i \in DOMAIN r.closed : r.closed[i].name <= t
    <3>1. q.open.name <= t
      BY <1>1, <2>9 DEF Base
    <3> QED  BY <1>1, <1>5, <2>6, <2>7, <2>8, <2>9, <3>1, SMTT(30)
  <2>11. \A i, j \in DOMAIN r.closed :
            i < j /\ r.closed[i].name # Base /\ r.closed[j].name # Base
                => r.closed[i].name < r.closed[j].name
    <3> SUFFICES ASSUME NEW i \in DOMAIN r.closed, NEW j \in DOMAIN r.closed,
                        i < j, r.closed[i].name # Base, r.closed[j].name # Base
                 PROVE  r.closed[i].name < r.closed[j].name
      OBVIOUS
    <3>1. i \in DOMAIN q.closed
      BY <2>6
    <3>2. CASE j \in DOMAIN q.closed
      BY <1>1, <2>6, <3>1, <3>2
    <3>3. CASE j = Len(q.closed) + 1
      BY <1>1, <2>6, <3>1, <3>3
    <3> QED  BY <2>7, <3>2, <3>3
  <2>12. LogOK(r, t)
    BY <2>1, <2>2, <2>5, <2>10, <2>11 DEF LogOK
  <2>13. Each(r.closed) = Written(q)
    BY <2>1 DEF Each, Written, AllFiles
  <2> DEFINE z == <<<<>>>>
  <2>14. /\ Written(r) = Written(q) \o z /\ Written(q) \in Seq(Seq(Nat))
         /\ OnDisk(r) = LinesIn(Written(r)) /\ OnDisk(q) = LinesIn(Written(q))
    BY <1>1, <2>1, <2>2, <2>5, <2>13, WrittenSplit
  <2>15. z \in Seq(Seq(Nat)) /\ LinesIn(z) = {} /\ Ascending(z)
    BY DEF LinesIn, ToSet, Ascending
  <2> HIDE DEF z
  <2>16. OnDisk(r) = OnDisk(q)
    <3>1. LinesIn(Written(q) \o z) = LinesIn(Written(q)) \union LinesIn(z)
      BY <2>14, <2>15, LinesInConcat
    <3> QED  BY <2>14, <2>15, <3>1
  <2>17. Ascending(Written(r))
    BY <1>1, <2>14, <2>15, AscendingConcat DEF Before
  <2> QED  BY <1>1, <2>1, <2>12, <2>16, <2>17 DEF r
<1> QED  BY <1>4, <1>5

(* append_unlocked of lines that come after all lines on disk.             *)
LEMMA AppendUnlockedKeeps ==
    ASSUME NEW t \in Nat, NEW l, LogOK(l, t), Ascending(Written(l)),
           NEW lines \in Seq(Nat), NEW size \in Nat, Increasing(lines),
           Before(OnDisk(l), ToSet(lines))
    PROVE  LET r == AppendUnlocked(l, lines, size, t)
           IN  /\ LogOK(r, t)
               /\ Ascending(Written(r))
               /\ OnDisk(r) \subseteq OnDisk(l) \union ToSet(lines)
               /\ r.lost = l.lost \union ((OnDisk(l) \union ToSet(lines)) \ OnDisk(r))
<1> DEFINE a == AppendFile(l, lines, size)
           checked == [a EXCEPT !.count = 0]
           counted == [a EXCEPT !.count = a.count + 1]
           r == AppendUnlocked(l, lines, size, t)
<1>1. /\ LogOK(a, t) /\ Ascending(Written(a))
      /\ OnDisk(a) = OnDisk(l) \union ToSet(lines) /\ a.lost = l.lost
  BY AppendFileKeeps
<1>2. a.written \in Nat /\ a.count \in Nat /\ a \in Logs
  BY <1>1, LogFields DEF LogOK
<1>3. \/ a.written > RollSize /\ r = RollFile(a, t)
      \/ r = counted \/ r = checked \/ r = RollFile(checked, t)
  BY <1>2, RollAssumption DEF AppendUnlocked
<1> HIDE DEF a
<1>4. \A b \in {checked, counted} :
         /\ LogOK(b, t) /\ Written(b) = Written(a) /\ OnDisk(b) = OnDisk(a) /\ b.lost = a.lost
  <2> SUFFICES ASSUME NEW b \in {checked, counted}
               PROVE  /\ LogOK(b, t) /\ Written(b) = Written(a) /\ OnDisk(b) = OnDisk(a)
                      /\ b.lost = a.lost
    OBVIOUS
  <2>1. /\ b \in Logs /\ b.open = a.open /\ b.closed = a.closed /\ b.lost = a.lost
        /\ b.lastRoll = a.lastRoll
    <3>1. CASE b = checked
      BY <1>2, <3>1 DEF Logs
    <3>2. CASE b = counted
      <4>1. a.count + 1 \in Nat
        BY <1>2
      <4> QED  BY <1>2, <3>2, <4>1 DEF Logs
    <3> QED  BY <3>1, <3>2
  <2> QED  BY <1>1, <2>1 DEF LogOK, Written, OnDisk, AllFiles
<1> HIDE DEF checked, counted, r
<1>5. CASE r = RollFile(a, t)
  BY <1>1, <1>5, RollFileKeeps DEF r
<1>6. CASE r \in {checked, counted}
  BY <1>1, <1>4, <1>6 DEF r
<1>7. CASE r = RollFile(checked, t)
  <2>1. Ascending(Written(checked)) /\ LogOK(checked, t)
    BY <1>1, <1>4
  <2>2. /\ LogOK(r, t) /\ Ascending(Written(r)) /\ OnDisk(r) \subseteq OnDisk(checked)
        /\ r.lost = checked.lost \union (OnDisk(checked) \ OnDisk(r))
    BY <1>7, <2>1, RollFileKeeps
  <2> QED  BY <1>1, <1>4, <2>2 DEF r
<1> QED  BY <1>3, <1>5, <1>6, <1>7

-----------------------------------------------------------------------------
(* Ascending(Chunks), by the places a line can be in: written, to be       *)
(* written, filed, current.                                                *)
Pieces(w, u, b, c) ==
    /\ Ascending(w) /\ Ascending(u) /\ Ascending(b) /\ Increasing(c)
    /\ Before(LinesIn(w), LinesIn(u))
    /\ Before(LinesIn(w) \union LinesIn(u), LinesIn(b))
    /\ Before(LinesIn(w) \union LinesIn(u) \union LinesIn(b), ToSet(c))

Held == OnDisk(log) \union LinesIn(Unwritten) \union LinesIn(buffers) \union ToSet(current)

(* Every line is in one place or was given up, and the places ascend.      *)
OrderInv ==
    /\ Pieces(Written(log), Unwritten, buffers, current)
    /\ Held \union dropped \union log.lost = 1..appended
    /\ Held \intersect (dropped \union log.lost) = {}

IInv == TypeOK /\ RoundInv /\ LogInv /\ OrderInv

(* Four runs of chunks, one after another.                                 *)
LEMMA FourChunks ==
    ASSUME NEW w \in Seq(Seq(Nat)), NEW u \in Seq(Seq(Nat)), NEW b \in Seq(Seq(Nat)),
           NEW c \in Seq(Nat), Pieces(w, u, b, c)
    PROVE  /\ Ascending(w \o u \o b \o <<c>>)
           /\ LinesIn(w \o u \o b \o <<c>>)
                = LinesIn(w) \union LinesIn(u) \union LinesIn(b) \union ToSet(c)
<1> DEFINE E == Seq(Nat)
           d == <<c>>
<1>1. d \in Seq(Seq(Nat)) /\ LinesIn(d) = ToSet(c) /\ Ascending(d)
  BY AscendingOne, LinesInOne DEF Pieces
<1> HIDE DEF d
<1>2. w \o u \in Seq(Seq(Nat)) /\ w \o u \o b \in Seq(Seq(Nat))
  <2> w \in Seq(E) /\ u \in Seq(E) /\ b \in Seq(E)
    OBVIOUS
  <2> HIDE DEF E
  <2>1. w \o u \in Seq(E)
    OBVIOUS
  <2>2. w \o u \o b \in Seq(E)
    BY <2>1
  <2> QED  BY <2>1, <2>2 DEF E
<1>3. LinesIn(w \o u) = LinesIn(w) \union LinesIn(u) /\ Ascending(w \o u)
  BY LinesInConcat, AscendingConcat DEF Pieces
<1>4. LinesIn(w \o u \o b) = LinesIn(w \o u) \union LinesIn(b) /\ Ascending(w \o u \o b)
  BY <1>2, <1>3, LinesInConcat, AscendingConcat DEF Pieces
<1>5. LinesIn(w \o u \o b \o d) = LinesIn(w \o u \o b) \union ToSet(c)
  <2> DEFINE v == w \o u \o b
  <2>1. v \in Seq(Seq(Nat))
    BY <1>2
  <2> HIDE DEF v
  <2>2. LinesIn(v \o d) = LinesIn(v) \union LinesIn(d)
    BY <1>1, <2>1, LinesInConcat
  <2> QED  BY <1>1, <2>2 DEF v
<1>6. Ascending(w \o u \o b \o d)
  <2>1. Before(LinesIn(w \o u \o b), LinesIn(d))
    BY <1>1, <1>3, <1>4 DEF Pieces
  <2> QED  BY <1>1, <1>2, <1>4, <2>1, AscendingConcat
<1> QED  BY <1>3, <1>4, <1>5, <1>6 DEF d

(* The buffers still to be written.                                        *)
LEMMA UnwrittenType ==
    ASSUME TypeOK
    PROVE  Unwritten \in Seq(Seq(Nat))
<1> DEFINE E == Seq(Nat)
<1>1. toWrite \in Seq(E) /\ wrote \in 0..Len(toWrite)
  BY DEF TypeOK
<1> HIDE DEF E
<1>2. SubSeq(toWrite, wrote + 1, Len(toWrite)) \in Seq(E)
  BY <1>1
<1>3. <<>> \in Seq(E)
  OBVIOUS
<1> QED  BY <1>2, <1>3 DEF Unwritten, E

(* The invariant gives the properties the runs check.                      *)
LEMMA InvImplies == IInv => SparesReturn /\ LinesInOrder
<1> SUFFICES ASSUME IInv PROVE SparesReturn /\ LinesInOrder
  OBVIOUS
<1>1. TypeOK /\ log \in Logs /\ buffers \in Seq(Seq(Nat)) /\ current \in Seq(Nat)
  BY DEF IInv, TypeOK
<1>2. SparesReturn
  <2>1. toWrite # <<>> => Len(toWrite) >= 1
    BY <1>1 DEF TypeOK
  <2> QED  BY <1>1, <2>1 DEF IInv, SparesReturn, RoundInv, TypeOK
<1>3. Ascending(Chunks) /\ LinesIn(Chunks) = Held
  <2> DEFINE w == Written(log)
             u == Unwritten
  <2>1. w \in Seq(Seq(Nat)) /\ OnDisk(log) = LinesIn(w) /\ u \in Seq(Seq(Nat))
    BY <1>1, WrittenSplit, UnwrittenType
  <2>2. Pieces(w, u, buffers, current)
    BY DEF IInv, OrderInv
  <2>3. Chunks = w \o u \o buffers \o <<current>>
    BY DEF Chunks
  <2>4. Held = LinesIn(w) \union LinesIn(u) \union LinesIn(buffers) \union ToSet(current)
    BY <2>1 DEF Held
  <2> HIDE DEF w, u
  <2> QED  BY <1>1, <2>1, <2>2, <2>3, <2>4, FourChunks
<1>4. \A i, j \in DOMAIN AllFiles(log) :
         i < j /\ AllFiles(log)[i].name # Base /\ AllFiles(log)[j].name # Base
             => AllFiles(log)[i].name < AllFiles(log)[j].name
  <2> SUFFICES ASSUME NEW i \in DOMAIN AllFiles(log), NEW j \in DOMAIN AllFiles(log), i < j,
                      AllFiles(log)[i].name # Base, AllFiles(log)[j].name # Base
               PROVE  AllFiles(log)[i].name < AllFiles(log)[j].name
    OBVIOUS
  <2> DEFINE n == Len(log.closed)
  <2>1. /\ DOMAIN AllFiles(log) = 1..(n + 1) /\ n \in Nat /\ DOMAIN log.closed = 1..n
        /\ AllFiles(log)[n + 1] = log.open
        /\ \A k \in 1..n : AllFiles(log)[k] = log.closed[k]
    <3>1. log.closed \in Seq(Files) /\ log.open \in Files
      BY <1>1 DEF Logs
    <3> HIDE DEF Files
    <3> QED  BY <3>1 DEF AllFiles
  <2> HIDE DEF n
  <2>2. i \in 1..n /\ (j \in 1..n \/ j = n + 1)
    BY <2>1
  <2> QED  BY <2>1, <2>2 DEF IInv, LogInv, LogOK
<1> QED  BY <1>2, <1>3, <1>4 DEF IInv, OrderInv, LinesInOrder

(* Initially.                                                              *)
LEMMA InitInv == Init => IInv
<1> SUFFICES ASSUME Init PROVE IInv
  OBVIOUS
<1>1. LogOK(log, now) /\ log.closed = <<>> /\ log.open.lines = <<>> /\ log.lost = {} /\ log \in Logs
  BY NewLogOK DEF Init, LogOK
<1>2. TypeOK
  <2>1. <<>> \in Seq(Seq(Nat)) /\ <<>> \in Seq(Nat) /\ 0 \in 0..Len(<<>>)
    OBVIOUS
  <2> QED  BY <1>1, <2>1 DEF Init, TypeOK
<1>3. RoundInv /\ LogInv
  BY <1>1 DEF Init, RoundInv, LogInv
<1>4. OnDisk(log) = {} /\ Ascending(Written(log)) /\ LinesIn(Written(log)) = {}
  BY <1>1, EmptyLog, WrittenSplit
<1>5. Unwritten = <<>> /\ LinesIn(<<>>) = {} /\ ToSet(<<>>) = {} /\ Ascending(<<>>) /\ Increasing(<<>>)
  BY DEF Init, Unwritten, LinesIn, ToSet, Ascending, Increasing
<1>6. 1..appended = {}
  BY DEF Init
<1>7. OrderInv
  BY <1>1, <1>4, <1>5, <1>6 DEF Init, OrderInv, Pieces, Held, Before
<1> QED  BY <1>2, <1>3, <1>7 DEF IInv

-----------------------------------------------------------------------------
Writing == {"cut", "write", "refill"}

Owners == {"created", "starting", "started", "stopping", "joining", "stopped"}

PCs == {"unstarted", "begin", "test", "lock", "wait", "swap", "cut", "write", "refill", "done"}

(* A step that moves no line: the owner's steps, the thread's outside a    *)
(* round, and the clock's.                                                 *)
LEMMA QuietKeeps ==
    ASSUME IInv, UNCHANGED <<front, back, appended>>,
           now' \in Nat, now <= now', running' \in BOOLEAN, owner' \in Owners, pc' \in PCs,
           pc' = pc \/ (pc \notin Writing /\ pc' \notin Writing),
           pc' \in {"unstarted", "begin"} => pc \in {"unstarted", "begin"},
           owner' = "created" => pc' = "unstarted"
    PROVE  IInv'
<1>1. TypeOK'
  BY DEF IInv, TypeOK, front, back, Owners, PCs
<1>2. RoundInv'
  BY DEF IInv, RoundInv, front, back, Writing
<1>3. LogInv'
  <2>1. log \in Logs /\ log.lastRoll \in Nat /\ now \in Nat /\ log' = log
    BY LogFields DEF IInv, TypeOK, back
  <2> QED  BY <2>1 DEF IInv, LogInv, LogOK
<1>4. OrderInv'
  <2>1. Unwritten' = Unwritten
    BY DEF Unwritten, back, Writing
  <2> QED  BY <2>1 DEF IInv, OrderInv, Held, front, back
<1> QED  BY <1>1, <1>2, <1>3, <1>4 DEF IInv

(* The steps of start, stop and the clock.                                 *)
LEMMA OwnerSteps ==
    ASSUME IInv, Start \/ LatchWait \/ StopFlag \/ StopNotify \/ Join \/ Tick \/ Finished
                 \/ UNCHANGED vars
    PROVE  IInv'
<1>1. now \in Nat /\ running \in BOOLEAN /\ owner \in Owners /\ pc \in PCs
      /\ (owner = "created" => pc = "unstarted")
  BY DEF IInv, TypeOK, RoundInv, Owners, PCs
<1>2. CASE Start
  BY <1>1, <1>2, QuietKeeps DEF Start, Owners, PCs, Writing
<1>3. CASE LatchWait
  BY <1>1, <1>3, QuietKeeps DEF LatchWait, Owners
<1>4. CASE StopFlag
  <2>1. running' \in BOOLEAN
    BY <1>4 DEF StopFlag
  <2> QED  BY <1>1, <1>4, <2>1, QuietKeeps DEF StopFlag, Owners
<1>5. CASE StopNotify
  BY <1>1, <1>5, QuietKeeps DEF StopNotify, Notify, Owners, PCs, Writing
<1>6. CASE Join
  BY <1>1, <1>6, QuietKeeps DEF Join, Owners
<1>7. CASE Tick
  BY <1>1, <1>7, QuietKeeps DEF Tick
<1>8. CASE Finished \/ UNCHANGED vars
  BY <1>1, <1>8, QuietKeeps DEF Finished, vars
<1> QED  BY <1>2, <1>3, <1>4, <1>5, <1>6, <1>7, <1>8

(* The thread's steps outside a round.                                     *)
LEMMA WaitSteps ==
    ASSUME IInv, TestRunning \/ WaitForSeconds \/ WaitEnds
    PROVE  IInv'
<1>1. now \in Nat /\ running \in BOOLEAN /\ owner \in Owners /\ pc \in PCs
      /\ (owner = "created" => pc = "unstarted")
  BY DEF IInv, TypeOK, RoundInv, Owners, PCs
<1>2. CASE TestRunning
  BY <1>1, <1>2, QuietKeeps DEF TestRunning, PCs, Writing
<1>3. CASE WaitForSeconds
  BY <1>1, <1>3, QuietKeeps DEF WaitForSeconds, PCs, Writing
<1>4. CASE WaitEnds
  BY <1>1, <1>4, QuietKeeps DEF WaitEnds, PCs, Writing
<1> QED  BY <1>2, <1>3, <1>4

(* threadFunc opens a log file in place of an empty one.                   *)
LEMMA RunInThreadKeeps == ASSUME IInv, RunInThread PROVE IInv'
<1>1. /\ pc = "begin" /\ pc' = "test" /\ log' = NewLog(now) /\ now' = now /\ now \in Nat
      /\ UNCHANGED <<front, running, new1, new2, toWrite, wrote, dropped, appended, owner>>
      /\ log \in Logs
  BY DEF IInv, TypeOK, RunInThread
<1>2. LogOK(log', now) /\ log'.closed = <<>> /\ log'.open.lines = <<>> /\ log'.lost = {} /\ log' \in Logs
  BY <1>1, NewLogOK DEF LogOK
<1>3. log.closed = <<>> /\ log.open.lines = <<>> /\ log.lost = {}
  BY <1>1 DEF IInv, LogInv
<1>4. TypeOK'
  BY <1>1, <1>2 DEF IInv, TypeOK, front
<1>5. RoundInv' /\ LogInv'
  BY <1>1, <1>2 DEF IInv, RoundInv, LogInv, front
<1>6. Written(log') = Written(log) /\ OnDisk(log') = OnDisk(log)
  BY <1>1, <1>2, <1>3, EmptyLog
<1>7. Unwritten' = Unwritten
  BY <1>1 DEF Unwritten
<1>8. OrderInv'
  BY <1>1, <1>2, <1>3, <1>6, <1>7 DEF IInv, OrderInv, Held, front
<1> QED  BY <1>4, <1>5, <1>8 DEF IInv

(* The end of a round: what was written makes the spare buffers.           *)
LEMMA RefillKeeps == ASSUME IInv, Refill PROVE IInv'
<1>1. /\ pc = "refill" /\ pc' = "test" /\ toWrite' = <<>>
      /\ new1' = (new1 \/ Len(toWrite) >= 1)
      /\ new2' = (new2 \/ Len(toWrite) >= (IF new1 THEN 1 ELSE 2))
      /\ UNCHANGED <<front, running, wrote, log, dropped, appended, owner, now>>
  BY DEF Refill
<1>2. ~new1 /\ toWrite # <<>> /\ (new2 \/ Len(toWrite) >= 2) /\ wrote = 0 /\ owner # "created"
  BY <1>1 DEF IInv, RoundInv
<1>3. toWrite \in Seq(Seq(Nat)) /\ Len(toWrite) >= 1
  BY <1>2 DEF IInv, TypeOK
<1>4. new1' = TRUE /\ new2' = TRUE
  BY <1>1, <1>2, <1>3
<1>5. TypeOK'
  <2>1. <<>> \in Seq(Seq(Nat)) /\ 0 \in 0..Len(<<>>)
    OBVIOUS
  <2> QED  BY <1>1, <1>2, <1>4, <2>1 DEF IInv, TypeOK, front
<1>6. RoundInv' /\ LogInv'
  BY <1>1, <1>2, <1>4 DEF IInv, RoundInv, LogInv, front
<1>7. Unwritten' = Unwritten
  BY <1>1 DEF Unwritten
<1>8. OrderInv'
  BY <1>1, <1>7 DEF IInv, OrderInv, Held, front
<1> QED  BY <1>5, <1>6, <1>8 DEF IInv

(* The last of some chunks, filed.                                         *)
LEMMA AppendChunk ==
    ASSUME NEW b \in Seq(Seq(Nat)), NEW c \in Seq(Nat),
           Ascending(b), Increasing(c), Before(LinesIn(b), ToSet(c))
    PROVE  /\ Append(b, c) \in Seq(Seq(Nat)) /\ Len(Append(b, c)) = Len(b) + 1
           /\ Ascending(Append(b, c))
           /\ LinesIn(Append(b, c)) = LinesIn(b) \union ToSet(c)
<1> DEFINE d == <<c>>
           E == Seq(Nat)
<1>1. d \in Seq(Seq(Nat)) /\ LinesIn(d) = ToSet(c) /\ Ascending(d)
  BY AscendingOne, LinesInOne
<1>2. Append(b, c) = b \o d /\ Append(b, c) \in Seq(Seq(Nat)) /\ Len(Append(b, c)) = Len(b) + 1
  <2> b \in Seq(E) /\ c \in E
    OBVIOUS
  <2> HIDE DEF E
  <2>1. Append(b, c) = b \o <<c>> /\ Append(b, c) \in Seq(E) /\ Len(Append(b, c)) = Len(b) + 1
    OBVIOUS
  <2> QED  BY <2>1 DEF E
<1> HIDE DEF d
<1>3. LinesIn(b \o d) = LinesIn(b) \union LinesIn(d)
  BY <1>1, LinesInConcat
<1>4. Ascending(b \o d)
  BY <1>1, AscendingConcat
<1> QED  BY <1>1, <1>2, <1>3, <1>4

(* A whole sequence is its own subsequence.                                *)
LEMMA SubSeqWhole ==
    ASSUME NEW s \in Seq(Seq(Nat))
    PROVE  SubSeq(s, 1, Len(s)) = s
<1> DEFINE E == Seq(Nat)
<1>1. s \in Seq(E)
  OBVIOUS
<1> HIDE DEF E
<1> QED  BY <1>1

(* No line.                                                                *)
LEMMA NoLines ==
    /\ LinesIn(<<>>) = {} /\ ToSet(<<>>) = {}
    /\ Ascending(<<>>) /\ Increasing(<<>>)
BY DEF LinesIn, ToSet, Ascending, Increasing

(* The swap: what was filed and the current buffer are to be written.      *)
LEMMA SwapKeeps == ASSUME IInv, SwapBuffers PROVE IInv'
<1> DEFINE w == Written(log)
<1>1. /\ pc \in {"swap", "lock"} /\ pc' = "cut" /\ (pc = "swap" \/ buffers # <<>>)
      /\ toWrite' = Append(buffers, current) /\ buffers' = <<>> /\ current' = <<>>
      /\ new1' = FALSE /\ next' = TRUE /\ new2' = (new2 /\ next)
      /\ UNCHANGED <<running, wrote, log, dropped, appended, owner, now>>
  BY DEF SwapBuffers, HoldsLock
<1>2. /\ buffers \in Seq(Seq(Nat)) /\ current \in Seq(Nat) /\ next \in BOOLEAN /\ new2 \in BOOLEAN
      /\ log \in Logs
  BY DEF IInv, TypeOK
<1>3. new2 /\ wrote = 0 /\ (~next => buffers # <<>>) /\ owner # "created"
  BY <1>1 DEF IInv, RoundInv
<1>4. Unwritten = <<>>
  BY <1>1 DEF Unwritten
<1>5. Pieces(w, <<>>, buffers, current)
  BY <1>4 DEF IInv, OrderInv
<1> HIDE DEF w
<1>6. /\ toWrite' \in Seq(Seq(Nat)) /\ Len(toWrite') = Len(buffers) + 1
      /\ Ascending(toWrite') /\ LinesIn(toWrite') = LinesIn(buffers) \union ToSet(current)
  <2>1. Ascending(buffers) /\ Increasing(current) /\ Before(LinesIn(buffers), ToSet(current))
    BY <1>5 DEF Pieces, Before
  <2> QED  BY <1>1, <1>2, <2>1, AppendChunk
<1>7. Unwritten' = toWrite'
  BY <1>1, <1>3, <1>6, SubSeqWhole DEF Unwritten
<1>8. Len(buffers) \in Nat /\ (buffers # <<>> => Len(buffers) >= 1)
  BY <1>2
<1>9. toWrite' # <<>> /\ (new2' \/ Len(toWrite') >= 2)
  <2>1. toWrite' # <<>> /\ (buffers # <<>> => Len(toWrite') >= 2)
    BY <1>6, <1>8
  <2>2. CASE next
    BY <1>1, <1>3, <2>1, <2>2
  <2>3. CASE ~next
    BY <1>3, <2>1, <2>3
  <2> QED  BY <2>2, <2>3
<1>10. TypeOK'
  <2>1. <<>> \in Seq(Seq(Nat)) /\ <<>> \in Seq(Nat) /\ 0 \in 0..Len(toWrite')
    BY <1>6, <1>8
  <2> QED  BY <1>1, <1>2, <1>3, <1>6, <2>1 DEF IInv, TypeOK
<1>11. RoundInv' /\ LogInv'
  BY <1>1, <1>3, <1>9 DEF IInv, RoundInv, LogInv
<1>12. Pieces(w, toWrite', <<>>, <<>>)
  BY <1>5, <1>6, NoLines DEF Pieces, Before
<1>13. Held' = Held
  BY <1>1, <1>4, <1>6, <1>7, NoLines DEF Held
<1>14. OrderInv'
  BY <1>1, <1>7, <1>12, <1>13 DEF IInv, OrderInv, w
<1> QED  BY <1>10, <1>11, <1>14 DEF IInv

(* A prefix of the buffers to be written is in order and holds none but    *)
(* their lines.                                                            *)
LEMMA PrefixKeeps ==
    ASSUME NEW s \in Seq(Seq(Nat)), NEW n \in Nat, n <= Len(s)
    PROVE  LET k == SubSeq(s, 1, n)
           IN  /\ k \in Seq(Seq(Nat)) /\ Len(k) = n
               /\ LinesIn(k) \subseteq LinesIn(s)
               /\ Ascending(s) => Ascending(k)
<1> DEFINE E == Seq(Nat)
           k == SubSeq(s, 1, n)
<1>1. s \in Seq(E)
  OBVIOUS
<1> HIDE DEF E
<1>2. k \in Seq(E) /\ Len(k) = n /\ \A i \in 1..n : k[i] = s[i] /\ i \in DOMAIN s
  BY <1>1
<1>3. DOMAIN k = 1..n
  BY <1>2
<1> HIDE DEF k
<1>4. LinesIn(k) \subseteq LinesIn(s)
  BY <1>2, <1>3 DEF LinesIn
<1>5. Ascending(s) => Ascending(k)
  BY <1>2, <1>3 DEF Ascending
<1> QED  BY <1>2, <1>4, <1>5 DEF k, E

(* What is kept of a round, and what follows for it.                       *)
LEMMA KeptPrefix ==
    ASSUME TypeOK
    PROVE  /\ Kept \in Seq(Seq(Nat)) /\ LinesIn(Kept) \subseteq LinesIn(toWrite)
           /\ Ascending(toWrite) => Ascending(Kept)
           /\ Kept = toWrite \/ Len(Kept) = 2
<1>1. toWrite \in Seq(Seq(Nat)) /\ Len(toWrite) \in Nat
  BY DEF TypeOK
<1>2. CASE Len(toWrite) > KeepLimit
  <2>1. 2 <= Len(toWrite) /\ Kept = SubSeq(toWrite, 1, 2)
    BY <1>1, <1>2, KeepAssumption DEF Kept
  <2> QED  BY <1>1, <2>1, PrefixKeeps
<1>3. CASE ~ (Len(toWrite) > KeepLimit)
  BY <1>1, <1>3 DEF Kept
<1> QED  BY <1>2, <1>3

(* An overlong round is cut: its lines from the third buffer on are        *)
(* dropped and a message is written.                                       *)
LEMMA CutKeeps == ASSUME IInv, CutRound PROVE IInv'
<1> DEFINE w == Written(log)
<1>1. /\ pc = "cut" /\ pc' = "write" /\ toWrite' = Kept
      /\ dropped' = dropped \union (LinesIn(toWrite) \ LinesIn(Kept))
      /\ log' = IF Kept = toWrite THEN log ELSE AppendUnlocked(log, <<>>, 1, now)
      /\ UNCHANGED <<front, running, new1, new2, wrote, appended, owner, now>>
  BY DEF CutRound
<1>2. /\ TypeOK /\ toWrite \in Seq(Seq(Nat)) /\ log \in Logs /\ now \in Nat /\ wrote = 0
      /\ ~new1 /\ toWrite # <<>> /\ (new2 \/ Len(toWrite) >= 2) /\ owner # "created"
      /\ LogOK(log, now) /\ dropped \in SUBSET Nat
  BY <1>1 DEF IInv, TypeOK, RoundInv, LogInv
<1>3. /\ Kept \in Seq(Seq(Nat)) /\ LinesIn(Kept) \subseteq LinesIn(toWrite)
      /\ Ascending(toWrite) => Ascending(Kept)
      /\ Kept = toWrite \/ Len(Kept) = 2
  BY <1>2, KeptPrefix
<1>4. Unwritten = toWrite /\ Unwritten' = Kept
  BY <1>1, <1>2, <1>3, SubSeqWhole DEF Unwritten
<1>5. Pieces(w, toWrite, buffers, current)
  BY <1>4 DEF IInv, OrderInv
<1>6. /\ LogOK(log', now) /\ Ascending(Written(log')) /\ OnDisk(log') \subseteq OnDisk(log)
      /\ log'.lost = log.lost \union (OnDisk(log) \ OnDisk(log'))
  <2>1. CASE Kept = toWrite
    BY <1>1, <1>2, <1>5, <2>1 DEF Pieces
  <2>2. CASE Kept # toWrite
    <3> DEFINE r == AppendUnlocked(log, <<>>, 1, now)
    <3>1. /\ LogOK(r, now) /\ Ascending(Written(r))
          /\ OnDisk(r) \subseteq OnDisk(log) \union ToSet(<<>>)
          /\ r.lost = log.lost \union ((OnDisk(log) \union ToSet(<<>>)) \ OnDisk(r))
      <4>1. <<>> \in Seq(Nat) /\ Before(OnDisk(log), ToSet(<<>>)) /\ Ascending(Written(log))
        BY <1>5, NoLines DEF Before, Pieces
      <4> QED  BY <1>2, <4>1, NoLines, AppendUnlockedKeeps
    <3>2. log' = r
      BY <1>1, <2>2
    <3> HIDE DEF r
    <3> QED  BY <3>1, <3>2, NoLines
  <2> QED  BY <2>1, <2>2
<1>7. LinesIn(w) = OnDisk(log) /\ LinesIn(Written(log')) = OnDisk(log') /\ log' \in Logs
  BY <1>2, <1>6, WrittenSplit DEF LogOK
<1>8. Pieces(Written(log'), Kept, buffers, current)
  BY <1>3, <1>5, <1>6, <1>7 DEF Pieces, Before
<1>9. LinesIn(toWrite) \intersect LinesIn(w) = {} /\ LinesIn(toWrite) \subseteq Held
  <2>1. LinesIn(toWrite) \subseteq Nat
    <3>1. \A i \in DOMAIN toWrite : toWrite[i] \in Seq(Nat)
      BY <1>2
    <3> QED  BY <3>1 DEF LinesIn, ToSet
  <2> QED  BY <1>4, <1>5, <2>1 DEF Pieces, Before, Held
<1>10. /\ Before(LinesIn(toWrite), LinesIn(buffers)) /\ Before(LinesIn(w), LinesIn(buffers))
       /\ Before(LinesIn(toWrite), ToSet(current)) /\ Before(LinesIn(w), ToSet(current))
  BY <1>5 DEF Pieces, Before
<1>11. Held = OnDisk(log) \union LinesIn(toWrite) \union LinesIn(buffers) \union ToSet(current)
  BY <1>4 DEF Held
<1>12. Held' = OnDisk(log') \union LinesIn(Kept) \union LinesIn(buffers) \union ToSet(current)
  BY <1>1, <1>4 DEF Held, front
<1>13. \A n \in LinesIn(toWrite) \union LinesIn(w) : n \notin LinesIn(buffers) \union ToSet(current)
  <2>1. Held \subseteq Nat
    BY DEF IInv, OrderInv, TypeOK
  <2> QED  BY <1>7, <1>10, <1>11, <2>1 DEF Before
<1>14. OrderInv'
  <2>1. Held \union dropped \union log.lost = 1..appended
        /\ Held \intersect (dropped \union log.lost) = {}
    BY DEF IInv, OrderInv
  <2>2. Held' \union dropped' \union log'.lost = Held \union dropped \union log.lost
    BY <1>1, <1>3, <1>6, <1>11, <1>12
  <2>3. Held' \intersect (dropped' \union log'.lost) = {}
    BY <1>1, <1>3, <1>6, <1>7, <1>9, <1>11, <1>12, <1>13, <2>1
  <2>4. (1..appended)' = 1..appended
    BY <1>1
  <2> QED  BY <1>1, <1>4, <1>8, <2>1, <2>2, <2>3, <2>4 DEF OrderInv, front
<1>15. TypeOK'
  <2>1. dropped' \in SUBSET Nat
    <3>1. Held \subseteq Nat
      BY DEF IInv, OrderInv, TypeOK
    <3> QED  BY <1>1, <1>2, <1>9, <3>1
  <2>2. 0 \in 0..Len(Kept)
    BY <1>3
  <2> QED  BY <1>1, <1>2, <1>3, <1>7, <2>1, <2>2 DEF TypeOK, front
<1>16. RoundInv'
  <2>1. Kept # <<>> /\ (new2 \/ Len(Kept) >= 2)
    <3>1. CASE Kept = toWrite
      BY <1>2, <3>1
    <3>2. CASE Len(Kept) = 2
      <4>1. Len(Kept) >= 2 /\ Kept # <<>>
        BY <3>2
      <4> QED  BY <4>1
    <3> QED  BY <1>3, <3>1, <3>2
  <2> QED  BY <1>1, <1>2, <2>1 DEF IInv, RoundInv, front
<1>17. LogInv'
  BY <1>1, <1>6 DEF LogInv
<1> QED  BY <1>14, <1>15, <1>16, <1>17 DEF IInv

(* The first of the buffers still to be written.                           *)
LEMMA UnwrittenHead ==
    ASSUME NEW s \in Seq(Seq(Nat)), NEW n \in Nat, n < Len(s)
    PROVE  LET u == SubSeq(s, n + 1, Len(s))
               v == SubSeq(s, n + 2, Len(s))
           IN  /\ v \in Seq(Seq(Nat)) /\ s[n + 1] \in Seq(Nat)
               /\ u = <<s[n + 1]>> \o v
<1> DEFINE E == Seq(Nat)
           x == s[n + 1]
           u == SubSeq(s, n + 1, Len(s))
           v == SubSeq(s, n + 2, Len(s))
           m == Len(s) - n
<1>1. s \in Seq(E) /\ x \in E /\ m \in Nat /\ m >= 1
  OBVIOUS
<1> HIDE DEF E
<1>2. u \in Seq(E) /\ Len(u) = m /\ \A i \in 1..m : u[i] = s[n + i]
  BY <1>1
<1>3. v \in Seq(E) /\ Len(v) = m - 1 /\ \A i \in 1..(m - 1) : v[i] = s[n + 1 + i]
  BY <1>1
<1>4. u[1] = x
  BY <1>1, <1>2
<1> HIDE DEF u, v, x, m
<1>5. \A i \in 1..(m - 1) : u[i + 1] = v[i]
  <2> SUFFICES ASSUME NEW i \in 1..(m - 1) PROVE u[i + 1] = v[i]
    OBVIOUS
  <2>1. i + 1 \in 1..m /\ n + (i + 1) = n + 1 + i
    BY <1>1
  <2> QED  BY <1>2, <1>3, <2>1
<1>6. /\ <<x>> \o v \in Seq(E) /\ Len(<<x>> \o v) = m /\ (<<x>> \o v)[1] = x
      /\ \A i \in 2..m : (<<x>> \o v)[i] = v[i - 1]
  BY <1>1, <1>3
<1>7. \A i \in 1..m : u[i] = (<<x>> \o v)[i]
  <2> SUFFICES ASSUME NEW i \in 1..m PROVE u[i] = (<<x>> \o v)[i]
    OBVIOUS
  <2>1. CASE i = 1
    BY <1>4, <1>6, <2>1
  <2>2. CASE i \in 2..m
    <3>1. i - 1 \in 1..(m - 1) /\ (i - 1) + 1 = i
      BY <1>1, <2>2
    <3> QED  BY <1>5, <1>6, <2>2, <3>1
  <2>3. i = 1 \/ i \in 2..m
    BY <1>1
  <2> QED  BY <2>1, <2>2, <2>3
<1> DEFINE z == <<x>> \o v
<1>8. z \in Seq(E) /\ Len(z) = m /\ \A i \in 1..m : u[i] = z[i]
  BY <1>6, <1>7
<1> HIDE DEF z
<1>9. u = z
  BY <1>2, <1>8
<1> QED  BY <1>1, <1>3, <1>9 DEF E, u, v, x, z

(* One buffer of the round is written to the log.                          *)
LEMMA WriteKeeps == ASSUME IInv, WriteBuffer PROVE IInv'
<1> DEFINE x == toWrite[wrote + 1]
           v == SubSeq(toWrite, wrote + 2, Len(toWrite))
           w == Written(log)
<1>1. /\ pc = "write" /\ pc' = "write" /\ wrote < Len(toWrite) /\ wrote' = wrote + 1
      /\ log' = AppendUnlocked(log, x, Len(x), now)
      /\ UNCHANGED <<front, running, new1, new2, toWrite, dropped, appended, owner, now>>
  BY DEF WriteBuffer
<1>2. /\ toWrite \in Seq(Seq(Nat)) /\ log \in Logs /\ now \in Nat /\ wrote \in Nat
      /\ Len(toWrite) \in Nat /\ LogOK(log, now)
  BY DEF IInv, TypeOK, LogInv
<1>3. v \in Seq(Seq(Nat)) /\ x \in Seq(Nat) /\ Unwritten = <<x>> \o v
  BY <1>1, <1>2, UnwrittenHead DEF Unwritten
<1>4. Unwritten' = v
  <2>1. (wrote + 1) + 1 = wrote + 2
    BY <1>2
  <2> QED  BY <1>1, <2>1 DEF Unwritten
<1>5. Pieces(w, <<x>> \o v, buffers, current)
  BY <1>3 DEF IInv, OrderInv
<1>6. LinesIn(w) = OnDisk(log)
  BY <1>2, WrittenSplit
<1> HIDE DEF x, v, w
<1>7. /\ LinesIn(<<x>> \o v) = ToSet(x) \union LinesIn(v)
      /\ Ascending(v) /\ Increasing(x) /\ Before(ToSet(x), LinesIn(v))
  <2> DEFINE d == <<x>>
  <2>1. d \in Seq(Seq(Nat)) /\ LinesIn(d) = ToSet(x) /\ (Ascending(d) <=> Increasing(x))
    BY <1>3, AscendingOne, LinesInOne
  <2>2. Ascending(d \o v)
    BY <1>5 DEF Pieces
  <2> HIDE DEF d
  <2>3. LinesIn(d \o v) = LinesIn(d) \union LinesIn(v)
    BY <1>3, <2>1, LinesInConcat
  <2>4. Ascending(d) /\ Ascending(v) /\ Before(LinesIn(d), LinesIn(v))
    BY <1>3, <2>1, <2>2, AscendingConcat
  <2> QED  BY <2>1, <2>3, <2>4 DEF d
<1>8. /\ LogOK(log', now) /\ Ascending(Written(log'))
      /\ OnDisk(log') \subseteq OnDisk(log) \union ToSet(x)
      /\ log'.lost = log.lost \union ((OnDisk(log) \union ToSet(x)) \ OnDisk(log'))
  <2>1. Before(OnDisk(log), ToSet(x)) /\ Ascending(Written(log)) /\ Len(x) \in Nat
    BY <1>3, <1>5, <1>6, <1>7 DEF Pieces, Before, w
  <2> QED  BY <1>1, <1>2, <1>3, <1>7, <2>1, AppendUnlockedKeeps
<1>9. LinesIn(Written(log')) = OnDisk(log') /\ log' \in Logs
  BY <1>8, WrittenSplit DEF LogOK
<1>10. Pieces(Written(log'), v, buffers, current)
  BY <1>5, <1>6, <1>7, <1>8, <1>9 DEF Pieces, Before
<1>11. Held = OnDisk(log) \union ToSet(x) \union LinesIn(v) \union LinesIn(buffers) \union ToSet(current)
  BY <1>3, <1>7 DEF Held
<1>12. Held' = OnDisk(log') \union LinesIn(v) \union LinesIn(buffers) \union ToSet(current)
  BY <1>1, <1>4 DEF Held, front
<1>13. \A n \in OnDisk(log) \union ToSet(x) :
          n \notin LinesIn(v) \union LinesIn(buffers) \union ToSet(current)
  <2>1. Held \subseteq Nat
    BY DEF IInv, OrderInv, TypeOK
  <2>2. Before(OnDisk(log) \union ToSet(x), LinesIn(v) \union LinesIn(buffers) \union ToSet(current))
    BY <1>5, <1>6, <1>7 DEF Pieces, Before
  <2> QED  BY <1>11, <2>1, <2>2 DEF Before
<1>14. OrderInv'
  <2>1. Held \union dropped \union log.lost = 1..appended
        /\ Held \intersect (dropped \union log.lost) = {}
    BY DEF IInv, OrderInv
  <2>2. Held' \union dropped \union log'.lost = Held \union dropped \union log.lost
    BY <1>8, <1>11, <1>12
  <2>3. Held' \intersect (dropped \union log'.lost) = {}
    BY <1>8, <1>11, <1>12, <1>13, <2>1
  <2> QED  BY <1>1, <1>4, <1>10, <2>1, <2>2, <2>3 DEF OrderInv, front
<1>15. TypeOK'
  <2>1. wrote' \in 0..Len(toWrite)
    BY <1>1, <1>2
  <2> QED  BY <1>1, <1>9, <2>1 DEF IInv, TypeOK, front
<1>16. RoundInv' /\ LogInv'
  BY <1>1, <1>8 DEF IInv, RoundInv, LogInv, front
<1> QED  BY <1>14, <1>15, <1>16 DEF IInv

(* All buffers are written; two of them are kept.                          *)
LEMMA EndWritingKeeps == ASSUME IInv, EndWriting PROVE IInv'
<1>1. /\ pc = "write" /\ pc' = "refill" /\ wrote = Len(toWrite) /\ wrote' = 0
      /\ toWrite' = IF Len(toWrite) > 2 THEN SubSeq(toWrite, 1, 2) ELSE toWrite
      /\ UNCHANGED <<front, running, new1, new2, log, dropped, appended, owner, now>>
  BY DEF EndWriting
<1>2. /\ toWrite \in Seq(Seq(Nat)) /\ Len(toWrite) \in Nat
      /\ ~new1 /\ toWrite # <<>> /\ (new2 \/ Len(toWrite) >= 2) /\ owner # "created"
  BY <1>1 DEF IInv, TypeOK, RoundInv
<1>3. toWrite' \in Seq(Seq(Nat)) /\ toWrite' # <<>> /\ (new2 \/ Len(toWrite') >= 2)
  <2>1. CASE Len(toWrite) > 2
    <3>1. toWrite' \in Seq(Seq(Nat)) /\ Len(toWrite') = 2
      BY <1>1, <1>2, <2>1, PrefixKeeps
    <3>2. Len(toWrite') >= 2
      BY <3>1
    <3>3. toWrite' # <<>>
      <4>1. Len(<<>>) = 0 /\ 0 # 2
        OBVIOUS
      <4> QED  BY <3>1, <4>1
    <3> QED  BY <3>1, <3>2, <3>3
  <2>2. CASE ~ (Len(toWrite) > 2)
    BY <1>1, <1>2, <2>2
  <2> QED  BY <2>1, <2>2
<1>4. Unwritten = <<>> /\ Unwritten' = <<>>
  <2> DEFINE E == Seq(Nat)
             n == Len(toWrite)
  <2>1. toWrite \in Seq(E) /\ n \in Nat
    BY <1>2
  <2> HIDE DEF E
  <2>2. SubSeq(toWrite, n + 1, n) = <<>>
    BY <2>1
  <2> QED  BY <1>1, <2>2 DEF Unwritten
<1>5. TypeOK'
  <2>1. 0 \in 0..Len(toWrite')
    BY <1>3
  <2> QED  BY <1>1, <1>3, <2>1 DEF IInv, TypeOK, front
<1>6. RoundInv' /\ LogInv'
  BY <1>1, <1>2, <1>3 DEF IInv, RoundInv, LogInv, front
<1>7. OrderInv'
  BY <1>1, <1>4 DEF IInv, OrderInv, Held, front
<1> QED  BY <1>5, <1>6, <1>7 DEF IInv

(* append: the new line comes after all others.                            *)
LEMMA AppendLineKeeps == ASSUME IInv, AppendLine PROVE IInv'
<1> DEFINE n == appended + 1
           w == Written(log)
           u == Unwritten
<1>1. /\ appended' = n /\ UNCHANGED <<running, back, owner, now>>
      /\ \/ /\ current' = Append(current, n)
            /\ UNCHANGED <<next, buffers, pc>>
         \/ /\ buffers' = Append(buffers, current) /\ next' = FALSE
            /\ current' = <<n>>
            /\ pc' = IF pc = "wait" THEN "swap" ELSE pc
  BY DEF AppendLine, Notify
<1>2. /\ appended \in Nat /\ n \in Nat /\ current \in Seq(Nat) /\ buffers \in Seq(Seq(Nat))
      /\ log \in Logs /\ pc \in PCs
  BY DEF IInv, TypeOK, PCs
<1>3. Unwritten' = u
  BY <1>1 DEF Unwritten, back
<1>4. log' = log /\ dropped' = dropped
  BY <1>1 DEF back
<1>5. LinesIn(w) = OnDisk(log)
  BY <1>2, WrittenSplit
<1>6. Pieces(w, u, buffers, current)
      /\ Held = LinesIn(w) \union LinesIn(u) \union LinesIn(buffers) \union ToSet(current)
      /\ Held \union dropped \union log.lost = 1..appended
      /\ Held \intersect (dropped \union log.lost) = {}
  BY <1>5 DEF IInv, OrderInv, Held
<1>7. Held' = LinesIn(w) \union LinesIn(u) \union LinesIn(buffers') \union ToSet(current')
  BY <1>3, <1>4, <1>5 DEF Held
<1> HIDE DEF w, u
<1>8. ToSet(<<n>>) = {n} /\ Increasing(<<n>>) /\ <<n>> \in Seq(Nat)
  BY <1>2 DEF ToSet, Increasing
<1>9. \A m \in Held \union dropped \union log.lost : m \in Nat /\ m < n
  BY <1>2, <1>6
<1>10. 1..n = (1..appended) \union {n}
  BY <1>2
<1>11. CASE current' = Append(current, n) /\ UNCHANGED <<next, buffers, pc>>
  <2>1. Append(current, n) = current \o <<n>> /\ Append(current, n) \in Seq(Nat)
    BY <1>2
  <2>2. ToSet(current') = ToSet(current) \union {n}
    BY <1>2, <1>8, <1>11, <2>1, ToSetConcat
  <2>3. Increasing(current')
    <3>1. Increasing(current) /\ Before(ToSet(current), ToSet(<<n>>))
      BY <1>6, <1>8, <1>9 DEF Pieces, Before
    <3> QED  BY <1>2, <1>8, <1>11, <2>1, <3>1, IncreasingConcat
  <2>4. Pieces(w, u, buffers', current')
    BY <1>6, <1>9, <1>11, <2>2, <2>3 DEF Pieces, Before
  <2>5. Held' = Held \union {n}
    BY <1>6, <1>7, <1>11, <2>2
  <2>6. OrderInv'
    BY <1>1, <1>3, <1>4, <1>6, <1>9, <1>10, <2>4, <2>5 DEF OrderInv, w
  <2>7. TypeOK'
    BY <1>1, <1>2, <1>11, <2>1 DEF IInv, TypeOK, back
  <2>8. RoundInv' /\ LogInv'
    BY <1>1, <1>11 DEF IInv, RoundInv, LogInv, back
  <2> QED  BY <2>6, <2>7, <2>8 DEF IInv
<1>12. CASE /\ buffers' = Append(buffers, current) /\ next' = FALSE
            /\ current' = <<n>>
            /\ pc' = IF pc = "wait" THEN "swap" ELSE pc
  <2>1. Ascending(buffers) /\ Increasing(current) /\ Before(LinesIn(buffers), ToSet(current))
    BY <1>6 DEF Pieces, Before
  <2>2. /\ buffers' \in Seq(Seq(Nat)) /\ Len(buffers') = Len(buffers) + 1
        /\ Ascending(buffers') /\ LinesIn(buffers') = LinesIn(buffers) \union ToSet(current)
    BY <1>2, <1>12, <2>1, AppendChunk
  <2>3. buffers' # <<>>
    BY <1>2, <2>2
  <2>4. Pieces(w, u, buffers', current')
    <3>1. /\ LinesIn(buffers') = LinesIn(buffers) \union ToSet(current)
          /\ Ascending(buffers') /\ ToSet(current') = {n} /\ Increasing(current')
      BY <1>8, <1>12, <2>2
    <3>2. \A m \in LinesIn(w) \union LinesIn(u) \union LinesIn(buffers') : m < n
      BY <1>6, <1>9, <3>1
    <3>3. /\ Ascending(w) /\ Ascending(u) /\ Before(LinesIn(w), LinesIn(u))
          /\ Before(LinesIn(w) \union LinesIn(u), LinesIn(buffers'))
      BY <1>6, <3>1 DEF Pieces, Before
    <3>4. Before(LinesIn(w) \union LinesIn(u) \union LinesIn(buffers'), ToSet(current'))
      BY <3>1, <3>2 DEF Before
    <3> QED  BY <3>1, <3>3, <3>4 DEF Pieces
  <2>5. Held' = Held \union {n}
    BY <1>6, <1>7, <1>8, <1>12, <2>2
  <2>6. OrderInv'
    BY <1>1, <1>3, <1>4, <1>6, <1>9, <1>10, <2>4, <2>5 DEF OrderInv, w
  <2>7. TypeOK'
    BY <1>1, <1>2, <1>8, <1>12, <2>2 DEF IInv, TypeOK, back, PCs
  <2>8. RoundInv' /\ LogInv'
    BY <1>1, <1>12, <2>3 DEF IInv, RoundInv, LogInv, back
  <2> QED  BY <2>6, <2>7, <2>8 DEF IInv
<1> QED  BY <1>1, <1>11, <1>12

-----------------------------------------------------------------------------
(* The inductive invariant of append, the logging thread's rounds, start   *)
(* and stop, and of the log files they write.                              *)
THEOREM Invariance == Spec => []IInv
<1>1. Init => IInv
  BY InitInv
<1>2. IInv /\ [Next]_vars => IInv'
  BY AppendLineKeeps, OwnerSteps, WaitSteps, RunInThreadKeeps, SwapKeeps, CutKeeps,
     WriteKeeps, EndWritingKeeps, RefillKeeps
     DEF Next, BackStep
<1> QED  BY <1>1, <1>2, PTL DEF Spec

(* The asserts of threadFunc hold: both spare buffers are there at the top *)
(* of every round, whatever append took and however long the round was.    *)
THEOREM SparesReturnHolds == Spec => []SparesReturn
BY Invariance, InvImplies, PTL

(* No interleaving of append, rounds, rolls and stop loses, repeats or     *)
(* reorders a line, but for those dropped or replaced as the source says.  *)
THEOREM LinesInOrderHolds == Spec => []LinesInOrder
BY Invariance, InvImplies, PTL
=============================================================================
