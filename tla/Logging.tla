------------------------------- MODULE Logging ------------------------------
(***************************************************************************)
(* networker::Logger and LogStream: a log statement of a thread takes the  *)
(* time, streams its pieces into a buffer of fixed size and outputs the    *)
(* line in its destructor.  The text of the time is cached by each thread  *)
(* for the second it was taken in.  The contents of a line are abstracted  *)
(* to their length and the newline; its time is kept.  setTimeZone is not  *)
(* called while a thread is inside formatTime.                             *)
(***************************************************************************)
EXTENDS TimeZone, SequencesExt

CONSTANTS Threads,      \* threads that log
          Instants,     \* the seconds the clock shows, in their order
          Files,        \* zone files that setTimeZone may be given
          Offsets,      \* offsets of fixed zones, in seconds east of UTC
          Levels,       \* levels that setLogLevel may be given
          Pieces,       \* what a statement may stream
          MaxPieces     \* bound: pieces of one statement

(* Bounds of what is looked at of the operators alone.                     *)
CONSTANTS Bits,             \* bits of the integers converted
          FirstYear,        \* years whose days are counted
          LastYear,
          UtcSeconds,       \* instants converted to UTC
          LocalSeconds      \* instants converted to the zones of Files

kSmallBuffer == 4000
kMaxNumericSize == 32
kMaxDigits == 20    \* characters of the longest integer, 64 bits wide

-----------------------------------------------------------------------------
(* Integers are converted from the last digit to the first.                *)
digits == <<9, 8, 7, 6, 5, 4, 3, 2, 1, 0, 1, 2, 3, 4, 5, 6, 7, 8, 9>>

(* Variant: the table begins at its zero.                                  *)
ZeroOnly(lsd) == lsd % 10

(* zero[lsd], with lsd negative for a negative number.                     *)
Zero(lsd) == digits[10 + lsd]

Backwards[i \in Int] ==
    <<Zero(Remainder(i, 10))>>
        \o IF Quotient(i, 10) = 0 THEN <<>> ELSE Backwards[Quotient(i, 10)]

Convert(value) == [minus |-> value < 0, text |-> Reverse(Backwards[value])]

BackwardsHex[i \in Nat] ==
    <<i % 16>> \o IF i \div 16 = 0 THEN <<>> ELSE BackwardsHex[i \div 16]

ConvertHex(value) == Reverse(BackwardsHex[value])

-----------------------------------------------------------------------------
(* The buffer of a statement, by its length.  A string is appended whole   *)
(* or not at all.                                                          *)
Avail(n) == kSmallBuffer - n

(* Variant: the last byte of the buffer is used.                           *)
AppendFull(n, len) == IF Avail(n) >= len THEN n + len ELSE n

AppendBytes(n, len) == IF Avail(n) > len THEN n + len ELSE n

(* formatInteger, the pointers and the floating point numbers: the room    *)
(* needed is that of the longest number.                                   *)
FormatNumber(n, len) == IF Avail(n) >= kMaxNumericSize THEN n + len ELSE n

String(len) == [number |-> FALSE, len |-> len]
Number(len) == [number |-> TRUE, len |-> len]
StreamTo(n, piece) ==
    IF piece.number THEN FormatNumber(n, piece.len) ELSE AppendBytes(n, piece.len)
StreamAll(n, pieces) ==
    LET after[k \in 0..Len(pieces)] ==
            IF k = 0 THEN n ELSE StreamTo(after[k - 1], pieces[k])
    IN  after[Len(pieces)]

(* What can be streamed: no number is longer than formatInteger and Fmt    *)
(* leave room for, with its terminator.                                    *)
Streamable == {p \in [number : BOOLEAN, len : Nat] : p.number => p.len < kMaxNumericSize}

ASSUME LoggingAssumption ==
    /\ Instants # <<>> /\ Instants \in Seq(Nat \ {0})
    /\ \A i, j \in 1..Len(Instants) : i < j => Instants[i] < Instants[j]
    /\ \A f \in Files : WellFormed(f)
    /\ Offsets \subseteq Int /\ Levels \subseteq 0..5
    /\ Pieces \subseteq Streamable /\ MaxPieces \in Nat
    /\ FirstYear \in Nat /\ LastYear \in Nat
    /\ UtcSeconds \subseteq Int /\ LocalSeconds \subseteq Int
    /\ \A t \in UtcSeconds :
          t \div kSecondsPerDay + kJulianDayOf1970_01_01 >= FirstDay

-----------------------------------------------------------------------------
(* The macros: their level, whether they stream the function's name and    *)
(* whether they stream errno.                                              *)
TRACE == 0
DEBUG == 1
INFO == 2
WARN == 3
ERROR == 4
FATAL == 5
LogLevel == TRACE..FATAL

Macro(level, func, sys) == [level |-> level, func |-> func, sys |-> sys]
Macros == {Macro(TRACE, TRUE, FALSE), Macro(DEBUG, TRUE, FALSE),
           Macro(INFO, FALSE, FALSE), Macro(WARN, FALSE, FALSE),
           Macro(ERROR, FALSE, FALSE), Macro(FATAL, FALSE, FALSE),
           Macro(ERROR, FALSE, TRUE), Macro(FATAL, FALSE, TRUE)}

(* Lengths of what a line is made of besides its pieces.                   *)
TidStringLength == 5
FuncLength == 4
StrerrorLength == 18
BasenameLength == 10

None == [zone |-> "none"]
Zone(data) == [zone |-> "set", data |-> data]
Zones == {None} \union {Zone(FixedZone(o)) : o \in Offsets}
                \union {Zone(ReadTimeZoneFile(f)) : f \in Files}

VARIABLES
    status,     \* the process: "running", "aborted" or "undefined"
    clock,      \* the place of the clock in Instants
    zone,       \* g_logTimeZone
    since,      \* the values zone has had in this second
    logLevel,   \* g_logLevel
    lastSecond, \* t_lastSecond of each thread
    time,       \* t_time of each thread
    stmt        \* the last statement of each thread and its line

globals == <<clock, zone, since, logLevel>>
logVars == <<status, globals, lastSecond, time, stmt>>

Times == [day : Int, hour : 0..23, min : 0..59, sec : 0..59]
NoTime == Gmtime(0)
Phases == {"idle", "open", "output"}
Idle == [phase |-> "idle", fatal |-> FALSE, len |-> 0, ended |-> FALSE, pieces |-> 0,
         second |-> 0, text |-> NoTime, utc |-> TRUE, zones |-> {None}]

TypeOK ==
    /\ status \in {"running", "aborted", "undefined"}
    /\ clock \in 1..Len(Instants)
    /\ zone \in Zones /\ since \subseteq Zones
    /\ logLevel \in LogLevel
    /\ \A t \in Threads :
          /\ lastSecond[t] \in Int /\ time[t] \in Times
          /\ stmt[t].phase \in Phases /\ stmt[t].pieces \in 0..MaxPieces

(* initLogLevel looks at the environment.                                  *)
LogInit ==
    /\ status = "running" /\ clock = 1
    /\ zone = None /\ since = {None}
    /\ logLevel \in {TRACE, DEBUG, INFO}
    /\ lastSecond = [t \in Threads |-> 0]
    /\ time = [t \in Threads |-> NoTime]
    /\ stmt = [t \in Threads |-> Idle]

Running == status = "running"
now == Instants[clock]

Tick ==
    /\ Running /\ clock < Len(Instants)
    /\ clock' = clock + 1
    /\ since' = {zone}
    /\ UNCHANGED <<status, zone, logLevel, lastSecond, time, stmt>>

SetTimeZone(z) ==
    /\ Running
    /\ zone' = z
    /\ since' = since \union {z}
    /\ UNCHANGED <<status, clock, logLevel, lastSecond, time, stmt>>

SetLogLevel(level) ==
    /\ Running
    /\ logLevel' = level
    /\ UNCHANGED <<status, clock, zone, since, lastSecond, time, stmt>>

(* toLocalTime takes the front of localtimes_, also when there is none.    *)
Usable(z) == z # None => z.data.localtimes # <<>>
TextIn(z, second) == IF z = None THEN Gmtime(second) ELSE ToLocalTime(z.data, second).tm

(* Variant: the text is made again with the minute.                        *)
SameMinute(t) == now \div 60 = lastSecond[t] \div 60

SameSecond(t) == now = lastSecond[t]

(* The constructor of Logger, for a macro that passes its test: formatTime *)
(* and the head of the line.                                               *)
LineHead(macro, utc, errnum) ==
    <<String(17), String(IF utc THEN 9 ELSE 8),
      String(TidStringLength), String(1), String(6)>>
    \o (IF macro.sys /\ errnum # 0
        THEN <<String(StrerrorLength), String(8), Number(Len(Convert(errnum).text)),
               String(2)>>
        ELSE <<>>)
    \o (IF macro.func THEN <<String(FuncLength), String(1)>> ELSE <<>>)

Begin(t, macro, errnum) ==
    /\ Running /\ stmt[t].phase # "open"
    /\ macro.level <= INFO => logLevel <= macro.level
    /\ ~macro.sys => errnum = 0
    /\ SameSecond(t) \/ Usable(zone)
    /\ time' = IF SameSecond(t) THEN time
                               ELSE [time EXCEPT ![t] = TextIn(zone, now)]
    /\ lastSecond' = [lastSecond EXCEPT ![t] = now]
    /\ stmt' = [stmt EXCEPT ![t] =
          [phase |-> "open", fatal |-> macro.level = FATAL,
           len |-> StreamAll(0, LineHead(macro, zone = None, errnum)),
           ended |-> FALSE, pieces |-> 0,
           second |-> now, text |-> time'[t], utc |-> zone = None, zones |-> since]]
    /\ UNCHANGED <<status, globals>>

(* The zone came from a file that could not be read.                       *)
BeginUndefined(t, macro) ==
    /\ Running /\ stmt[t].phase # "open"
    /\ macro.level <= INFO => logLevel <= macro.level
    /\ ~SameSecond(t) /\ ~Usable(zone)
    /\ status' = "undefined"
    /\ UNCHANGED <<globals, lastSecond, time, stmt>>

Stream(t, piece) ==
    /\ Running /\ stmt[t].phase = "open" /\ stmt[t].pieces < MaxPieces
    /\ stmt' = [stmt EXCEPT ![t].len = StreamTo(@, piece), ![t].pieces = @ + 1]
    /\ UNCHANGED <<status, globals, lastSecond, time>>

(* ~Logger: finish, output, and for a fatal one the end of the process.    *)
LineFoot(lineNumber) ==
    <<String(3), String(BasenameLength), String(1), Number(Len(Convert(lineNumber).text))>>

Finish(t, lineNumber) ==
    /\ Running /\ stmt[t].phase = "open"
    /\ LET n == StreamAll(stmt[t].len, LineFoot(lineNumber))
       IN  stmt' = [stmt EXCEPT ![t].phase = "output", ![t].len = AppendBytes(n, 1),
                                ![t].ended = AppendBytes(n, 1) # n]
    /\ status' = IF stmt[t].fatal THEN "aborted" ELSE status
    /\ UNCHANGED <<globals, lastSecond, time>>

LogNext ==
    \/ Tick
    \/ \E z \in Zones : SetTimeZone(z)
    \/ \E l \in Levels : SetLogLevel(l)
    \/ \E t \in Threads :
          \/ \E m \in Macros : BeginUndefined(t, m) \/ \E e \in {0, 11} : Begin(t, m, e)
          \/ \E p \in Pieces : Stream(t, p)
          \/ Finish(t, 164)

LogSpec == LogInit /\ [][LogNext]_logVars

-----------------------------------------------------------------------------
(* The time of a line is that of its own second, in a zone that was set    *)
(* during that second: the cached text is neither of another second nor of *)
(* a zone left before it, and the Z is there when that zone is UTC.  Only  *)
(* the change of zones within a second shows.                              *)
StampRight ==
    /\ TypeOK
    /\ \A t \in Threads : LET s == stmt[t] IN
          /\ \E z \in s.zones : Usable(z) /\ s.text = TextIn(z, s.second)
          /\ \E z \in s.zones : s.utc <=> z = None

(* A line never fills its buffer to the last byte, so that numbers, which  *)
(* are written in place with their terminator, fit; and a line loses its   *)
(* newline only when it has all the bytes a line may have.                 *)
LineBounded ==
    \A t \in Threads :
        /\ stmt[t].len < kSmallBuffer
        /\ stmt[t].phase = "output" /\ ~stmt[t].ended => stmt[t].len = kSmallBuffer - 1

(* What follows is about the operators alone: it is looked at once, in the *)
(* state of a process that has logged nothing.                             *)
AtStart == clock = 1 /\ zone = None /\ logLevel = TRACE
           /\ \A t \in Threads : stmt[t] = Idle

(* convert and convertHex write the number: its digits have its value, the *)
(* smallest of a width with the digits of negative remainders included,    *)
(* without leading zeros.                                                  *)
ValueOf(text, base) ==
    LET prefix[k \in 0..Len(text)] ==
            IF k = 0 THEN 0 ELSE base * prefix[k - 1] + text[k]
    IN  prefix[Len(text)]
Canonical(text) == Len(text) > 1 => text[1] # 0
ConvertsRight(v) ==
    LET c == Convert(v)
    IN  /\ ValueOf(c.text, 10) = IF c.minus THEN -v ELSE v
        /\ Canonical(c.text)
        /\ v >= 0 => ValueOf(ConvertHex(v), 16) = v /\ Canonical(ConvertHex(v))

(* They do so for every integer of a width, signed or not.                 *)
ConvertRight ==
    AtStart => \A v \in -(2 ^ (Bits - 1))..(2 ^ Bits - 1) : ConvertsRight(v)

(* getJulianDayNumber and getYearMonthDay agree with the calendar day by   *)
(* day, and toUtcTime with gmtime(3), before 1970 too.                     *)
CalendarRight == AtStart => DaysRight(FirstYear, LastYear) /\ UtcRight(UtcSeconds)

(* fromUtcTime is timegm(3), as TimeZone.h says: from the UTC time of an   *)
(* instant it finds back to the instant.                                   *)
FromUtcIsTimegm ==
    AtStart => \A t \in UtcSeconds : FromUtcTime(ToUtcTime(t, FALSE)) = t

(* toLocalTime applies the offset in force and fromLocalTime finds back to *)
(* the instant, also from the hour that comes twice, in every zone whose   *)
(* changes are those of daylight saving time.                              *)
LocalTimeRight ==
    AtStart => \A f \in Files : Regular(f) => LocalRight(f, LocalSeconds)
=============================================================================
