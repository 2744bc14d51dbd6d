----------------------------- MODULE MCLogging ------------------------------
(* Logging on the two sides of an end of daylight saving time and at a     *)
(* file that cannot be read; the operators over every day of six hundred   *)
(* years, the days around 1970, and every quarter of an hour of the days   *)
(* around the changes of the zone.                                         *)
EXTENDS Logging

(* Two changes of a year and the first of the next, five hours west.       *)
NewYork == ZoneFile(<<8640000, 21621600, 40176000>>, <<1, 0, 1>>,
                    <<Localtime(-18000, FALSE), Localtime(-14400, TRUE)>>, 2)
Unreadable == ZoneFile(<<>>, <<>>, <<Localtime(0, FALSE)>>, 0)

MCInstants == <<21621599, 21621600, 21621659>>
MCFiles == {NewYork, Unreadable}
MCPieces == {String(3947), Number(kMaxDigits)}
MCUtcSeconds == {d * kSecondsPerDay + s :
                    d \in -800..800, s \in {0, 59, 60, 3599, 45296, 86399}}
MCLocalSeconds == {t * 900 + 1 :
                      t \in 9400..9800 \union 23900..24150 \union 44500..44700}
=============================================================================
