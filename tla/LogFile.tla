------------------------------ MODULE LogFile -------------------------------
(***************************************************************************)
(* networker::LogFile over AppendFile: lines go to the end of the open     *)
(* file; when that has grown too large, or a day is over, it is renamed    *)
(* after the present second and a new one is opened.  A file is the        *)
(* sequence of its lines (a line is a number); its name is the second it   *)
(* was renamed in, or Base for <day>.<host>.log.  Writes do not fail, and  *)
(* what stdio buffers counts as written.                                   *)
(***************************************************************************)
EXTENDS Naturals, Sequences, SequencesExt

CONSTANTS RollSize,       \* rollSize_, in lines
          CheckEveryN,    \* checkEveryN_
          RollPerSeconds  \* kRollPerSeconds_: the length of a day

ASSUME RollAssumption == RollSize \in Nat /\ CheckEveryN \in Nat
ASSUME PeriodAssumption == RollPerSeconds \in Nat \ {0}

Base == 0

Files == [name : Nat, lines : Seq(Nat)]

(* file_ with its name and writtenBytes_, the files closed before, in this *)
(* order, the lines of files another was renamed to, and the counters.     *)
Logs == [open : Files, written : Nat, closed : Seq(Files), lost : SUBSET Nat,
         count : Nat, startOfPeriod : Nat, lastRoll : Nat]

PeriodOf(now) == now - (now % RollPerSeconds)

NewFile == [name |-> Base, lines |-> <<>>]

(* The constructor, with its rollFile(): a file is opened at once.         *)
NewLog(now) ==
    [open |-> NewFile, written |-> 0, closed |-> <<>>, lost |-> {},
     count |-> 0, startOfPeriod |-> PeriodOf(now), lastRoll |-> now]

LinesOf(files) == UNION {ToSet(files[i].lines) : i \in DOMAIN files}

(* rename(2) in getLogFileName: the name it looks for is that of today's   *)
(* file; the file that has the new name already, if there is one, is       *)
(* replaced.                                                               *)
Rename(log, now) ==
    IF log.open.name = Base /\ log.startOfPeriod = PeriodOf(now)
    THEN LET old == {i \in DOMAIN log.closed : log.closed[i].name = now}
             kept == IF old = {} THEN log.closed
                     ELSE RemoveAt(log.closed, CHOOSE i \in old : TRUE)
         IN  [log EXCEPT !.open.name = now, !.closed = kept,
                         !.lost = log.lost \union (LinesOf(log.closed) \ LinesOf(kept))]
    ELSE log

(* rollFile(true): the rename is done whether or not a file is opened.     *)
RollFile(log, now) ==
    LET r == Rename(log, now)
    IN  IF now > r.lastRoll
        THEN [r EXCEPT !.closed = Append(r.closed, r.open),
                       !.open = NewFile, !.written = 0,
                       !.lastRoll = now, !.startOfPeriod = PeriodOf(now)]
        ELSE r

(* AppendFile::append of these lines, size of them (or a message's).       *)
AppendFile(log, lines, size) ==
    [log EXCEPT !.open.lines = log.open.lines \o lines,
                !.written = log.written + size]

(* append_unlocked.                                                        *)
AppendUnlocked(log, lines, size, now) ==
    LET a == AppendFile(log, lines, size)
        checked == [a EXCEPT !.count = 0]
    IN  CASE a.written > RollSize -> RollFile(a, now)
          [] a.written <= RollSize /\ a.count + 1 < CheckEveryN ->
                [a EXCEPT !.count = a.count + 1]
          [] a.written <= RollSize /\ a.count + 1 >= CheckEveryN ->
                IF PeriodOf(now) # a.startOfPeriod THEN RollFile(checked, now) ELSE checked

(* All files, in the order they were opened in, and the lines of each.     *)
AllFiles(log) == Append(log.closed, log.open)
Written(log) == [i \in DOMAIN AllFiles(log) |-> AllFiles(log)[i].lines]

OnDisk(log) == LinesOf(AllFiles(log))
=============================================================================
