------------------------------ MODULE TimeZone ------------------------------
(***************************************************************************)
(* networker::TimeZone: the offsets of a zone and its changes, read from a *)
(* zone file or given as a constant, and the conversions between instants, *)
(* local times and UTC.  An instant is in seconds since the epoch.  The    *)
(* struct tm that gmtime_r(3) and timegm(3) share with this code stands as *)
(* the number of its day and its time of day.                              *)
(***************************************************************************)
EXTENDS Calendar, Sequences, FiniteSetsExt

kSecondsPerDay == 24 * 60 * 60

Localtime(offset, dst) == [gmtOffset |-> offset, isDst |-> dst]

(* What can be read of a zone file: its transition times, for each the     *)
(* type of local time that begins, from 0 on, the types, and how many of   *)
(* the types were read before the end of the file or a bad head.           *)
ZoneFile(trans, idx, types, read) ==
    [trans |-> trans, idx |-> idx, types |-> types, read |-> read]

(* A file as tzfile(5) describes it; its reader relies on the indices.     *)
WellFormed(file) ==
    /\ file.trans \in Seq(Int) /\ file.idx \in Seq(Nat)
    /\ file.types \in Seq([gmtOffset : Int, isDst : BOOLEAN])
    /\ file.read \in 0..Len(file.types)
    /\ Len(file.idx) = Len(file.trans)
    /\ \A i \in 1..Len(file.idx) : file.idx[i] < Len(file.types)

(* Variant: the local time of a transition is that before it.              *)
ReadTimeZoneFileOld(file) ==
    [localtimes |-> file.types,
     transitions |-> [i \in 1..Len(file.trans) |->
        [gmttime |-> file.trans[i],
         localtime |-> file.trans[i] +
                       file.types[IF i = 1 THEN 1 ELSE file.idx[i - 1] + 1].gmtOffset,
         localtimeIdx |-> file.idx[i]]]]

(* readTimeZoneFile: it never reports a failure; what was read before one  *)
(* stays.                                                                  *)
ReadTimeZoneFile(file) ==
    [localtimes |-> SubSeq(file.types, 1, file.read),
     transitions |->
        IF file.read < Len(file.types) THEN <<>>
        ELSE [i \in 1..Len(file.trans) |->
                [gmttime |-> file.trans[i],
                 localtime |-> file.trans[i] + file.types[file.idx[i] + 1].gmtOffset,
                 localtimeIdx |-> file.idx[i]]]]

(* TimeZone(eastOfUtc, name).                                              *)
FixedZone(eastOfUtc) ==
    [localtimes |-> <<Localtime(eastOfUtc, FALSE)>>, transitions |-> <<>>]

(* findLocaltime, comparing by "gmttime" or by "localtime".                *)
FindLocaltime(data, sentry, by) ==
    LET trans == data.transitions
        n == Len(trans)
        lowerBound == Min({i \in 1..n : trans[i][by] >= sentry} \union {n + 1})
        at == IF lowerBound <= n /\ trans[lowerBound][by] = sentry
              THEN lowerBound ELSE lowerBound - 1
    IN  IF n = 0 \/ sentry < trans[1][by] THEN data.localtimes[1]
        ELSE data.localtimes[trans[at].localtimeIdx + 1]

Gmtime(s) == [day |-> s \div kSecondsPerDay,
              hour |-> (s % kSecondsPerDay) \div 3600,
              min |-> (s % 3600) \div 60, sec |-> s % 60]
Timegm(tm) == tm.day * kSecondsPerDay + tm.hour * 3600 + tm.min * 60 + tm.sec

ToLocalTime(data, seconds) ==
    LET local == FindLocaltime(data, seconds, "gmttime")
    IN  [tm |-> Gmtime(seconds + local.gmtOffset), isDst |-> local.isDst]

(* fromLocalTime: a local time that comes twice is the earlier one when it *)
(* says that it is daylight saving time.                                   *)
FromLocalTime(data, local) ==
    LET seconds == Timegm(local.tm)
        found == FindLocaltime(data, seconds, "localtime")
        try == ToLocalTime(data, seconds - found.gmtOffset)
        twice == /\ local.isDst /\ ~try.isDst
                 /\ try.tm.hour = local.tm.hour /\ try.tm.min = local.tm.min
    IN  (IF twice THEN seconds - 3600 ELSE seconds) - found.gmtOffset

-----------------------------------------------------------------------------
(* Integer division of C++ rounds toward zero.                             *)
Quotient(a, b) == IF a >= 0 THEN a \div b ELSE -((-a) \div b)
Remainder(a, b) == a - b * Quotient(a, b)

FillHMS(seconds) ==
    LET minutes == seconds \div 60
    IN  [sec |-> seconds % 60, min |-> minutes % 60, hour |-> minutes \div 60]

(* toUtcTime; the day of the year is 0 unless it is asked for.             *)
ToUtcTime(secondsSinceEpoch, yday) ==
    LET seconds == Remainder(secondsSinceEpoch, kSecondsPerDay)
        before == seconds < 0
        j == Quotient(secondsSinceEpoch, kSecondsPerDay) - (IF before THEN 1 ELSE 0)
             + kJulianDayOf1970_01_01
        date == YearMonthDay(j)
    IN  [date |-> date,
         time |-> FillHMS(IF before THEN seconds + kSecondsPerDay ELSE seconds),
         wday |-> WeekDay(j),
         yday |-> IF yday THEN j - JulianDayNumber(date.year, 1, 1) ELSE 0]

(* fromUtcTime; a minute is taken for 50 seconds.                          *)
FromUtcTime(utc) ==
    LET days == JulianDayNumber(utc.date.year, utc.date.month, utc.date.day)
                - kJulianDayOf1970_01_01
    IN  days * kSecondsPerDay
        + utc.time.hour * 3600 + utc.time.min * 50 + utc.time.sec

-----------------------------------------------------------------------------
(* The offset in force at an instant, from the zone file: that of the last *)
(* transition, or of the first type before any.                            *)
InForce(file, seconds) ==
    LET past == {i \in 1..Len(file.trans) : file.trans[i] <= seconds}
    IN  IF past = {} THEN file.types[1] ELSE file.types[file.idx[Max(past)] + 1]

(* The type of local time from a transition on, or before all of them; and *)
(* a file read to its end whose clocks, more than an hour and the change   *)
(* apart, go forward, or one hour back at the end of daylight saving time. *)
TypeFrom(file, i) == file.types[IF i = 0 THEN 1 ELSE file.idx[i] + 1]
Regular(file) ==
    /\ file.types # <<>> /\ file.read = Len(file.types)
    /\ \A i \in 1..(Len(file.trans) - 1) :
          /\ file.trans[i] + 3600 < file.trans[i + 1]
          /\ file.trans[i] + TypeFrom(file, i).gmtOffset
                < file.trans[i + 1] + TypeFrom(file, i + 1).gmtOffset
    /\ \A i \in 1..Len(file.trans) :
          LET before == TypeFrom(file, i - 1)
              after == TypeFrom(file, i)
          IN  \/ before.gmtOffset <= after.gmtOffset
              \/ /\ before.gmtOffset = after.gmtOffset + 3600
                 /\ before.isDst /\ ~after.isDst

(* toLocalTime applies the offset in force, and fromLocalTime finds back   *)
(* to the instant, also from the hour that comes twice.                    *)
LocalRight(file, instants) ==
    LET data == ReadTimeZoneFile(file) IN
    \A t \in instants :
        LET local == ToLocalTime(data, t)
        IN  /\ Timegm(local.tm) = t + InForce(file, t).gmtOffset
            /\ FromLocalTime(data, local) = t

(* toUtcTime is gmtime(3), before 1970 too.  The day of the year, when it *)
(* is asked for, is 0 on January 1 and one more than the day before on     *)
(* every other day.                                                        *)
UtcRight(instants) ==
    \A t \in instants :
        LET utc == ToUtcTime(t, TRUE)
            j == JulianDayNumber(utc.date.year, utc.date.month, utc.date.day)
        IN  /\ [day |-> j - kJulianDayOf1970_01_01, hour |-> utc.time.hour,
                min |-> utc.time.min, sec |-> utc.time.sec] = Gmtime(t)
            /\ utc.wday = (Gmtime(t).day + 4) % 7
            /\ utc.yday = IF utc.date = Month(utc.date.year, 1, 1) THEN 0
                          ELSE ToUtcTime(t - kSecondsPerDay, TRUE).yday + 1
            /\ ToUtcTime(t, FALSE) = [utc EXCEPT !.yday = 0]
=============================================================================
