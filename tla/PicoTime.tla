------------------------------ MODULE PicoTime ------------------------------
(***************************************************************************)
(* The clock, pico_time (hhg-driver/platform/pico/pico-time.cpp), on the   *)
(* RTC of the RP2040, which is external.                                   *)
(*                                                                         *)
(* set_timestamp hands the RTC the members of struct tm as they are: the   *)
(* month is 0 to 11, where the RTC counts 1 to 12.  The RTC refuses month 0, *)
(* and ends every month by the length of the one before; its other dates   *)
(* are read back by the same shift.                                        *)
(*                                                                         *)
(* Time is counted in hours since the 1st of January of FirstYear, in UTC. *)
(***************************************************************************)
EXTENDS Integers, FiniteSetsExt

CONSTANTS
    SetTimes,   \* bound: the times the clock is set to
    MaxElapsed, \* bound: how long it runs after it was set
    Timezone    \* the configured time zone, in hours

Hours == 0 .. 24 * 365

ASSUME PicoTimeAssumption ==
    /\ SetTimes \subseteq Hours
    /\ MaxElapsed \in Nat
    /\ Timezone \in -12 .. 14

VARIABLES
    rtc,     \* what the RTC counts
    rtc_now, \* the true time
    set_at   \* history: the time of the last set, with its fate

timeVars == <<rtc, rtc_now, set_at>>

NotRunning == [year |-> 0, month |-> 0, day |-> 0, hour |-> 0]
NeverSet == [time |-> 0, kept |-> FALSE]

-----------------------------------------------------------------------------
(* The calendar, of mktime and gmtime (external).  A month is counted from  *)
(* January of FirstYear, and a date is normalised.                          *)

FirstYear == 124    \* 2024, a leap year that begins with a Monday

MonthLength(year, mon) ==
    CASE mon = 1 -> IF year % 4 = 0 THEN 29 ELSE 28
      [] mon \in {3, 5, 8, 10} -> 30
      [] OTHER -> 31

MonthDays(k) == MonthLength(FirstYear + (k \div 12), k % 12)

\* The days before a month.
MonthStart[k \in 0 .. 24] == IF k = 0 THEN 0 ELSE MonthStart[k - 1] + MonthDays(k - 1)

Mktime(year, mon, day, hour) ==
    24 * (MonthStart[12 * (year - FirstYear) + mon] + day - 1) + hour

MonthOf(t) == CHOOSE k \in 0 .. 23 : MonthStart[k] <= (t \div 24) /\ (t \div 24) < MonthStart[k + 1]

Gmtime(t) ==
    [year |-> FirstYear + (MonthOf(t) \div 12), mon |-> (MonthOf(t) % 12),
     mday |-> (t \div 24) - MonthStart[MonthOf(t)] + 1, hour |-> t % 24,
     wday |-> ((t \div 24) + 1) % 7]

-----------------------------------------------------------------------------
(* The RTC. *)

\* rtc_set_datetime: a date it does not take leaves it as it was.
RtcTakes(date) == date.month \in 1 .. 12 /\ date.day \in 1 .. 31

\* An hour later: a day at the end of its month, or behind it, is followed by
\* the first of the next.
RtcNext(date) ==
    CASE date.hour < 23 -> [date EXCEPT !.hour = @ + 1]
      [] date.hour = 23 /\ date.day < MonthLength(date.year, date.month - 1) ->
            [date EXCEPT !.hour = 0, !.day = @ + 1]
      [] OTHER -> [year |-> IF date.month = 12 THEN date.year + 1 ELSE date.year,
                   month |-> (date.month % 12) + 1, day |-> 1, hour |-> 0]

-----------------------------------------------------------------------------
(* pico_time. *)

\* Mutated: the month is shifted where it is written, not where it is read.
RtcDateShifted(t) ==
    LET ts == Gmtime(t)
    IN [year |-> ts.year, month |-> ts.mon + 1, day |-> ts.mday, hour |-> ts.hour]

RtcDate(t) ==
    LET ts == Gmtime(t)
    IN [year |-> ts.year, month |-> ts.mon, day |-> ts.mday, hour |-> ts.hour]

\* set_timestamp answers OK whether the RTC took the date or not.
SetTimestamp(t) ==
    /\ rtc' = IF RtcTakes(RtcDate(t)) THEN RtcDate(t) ELSE rtc
    /\ rtc_now' = t
    /\ set_at' = [time |-> t, kept |-> RtcTakes(RtcDate(t))]

\* get_timestamp(0, false): an RTC that does not run is before every date.
Timestamp ==
    IF rtc = NotRunning THEN -1 ELSE Mktime(rtc.year, rtc.month, rtc.day, rtc.hour)

(* is_dst: from the last Sunday on or before the 31st of March, at 2, to that *)
(* of October, at 3.                                                          *)
LastSunday(year, mon) ==
    Max({d \in 1 .. 31 : Gmtime(Mktime(year, mon, d, 0)).wday = 0})

IsDst(t) ==
    LET year == Gmtime(t).year
    IN /\ Mktime(year, 2, LastSunday(year, 2), 2) <= t
       /\ t < Mktime(year, 9, LastSunday(year, 9), 3)

\* get_date_time(timezone, daylight_saving_time), as the time mktime makes of it.
DateTime(timezone, daylight_saving_time) ==
    Timestamp + timezone + IF daylight_saving_time /\ IsDst(Timestamp) THEN 1 ELSE 0

-----------------------------------------------------------------------------
TimeInit == rtc = NotRunning /\ rtc_now = 0 /\ set_at = NeverSet

TimeTick ==
    /\ rtc_now < set_at.time + MaxElapsed
    /\ rtc_now' = rtc_now + 1
    /\ rtc' = IF rtc = NotRunning THEN rtc ELSE RtcNext(rtc)
    /\ UNCHANGED set_at

\* Bound: it is set again at once, or not at all.
SetClock ==
    /\ rtc_now = set_at.time
    /\ \E t \in SetTimes : SetTimestamp(t)

TimeNext == TimeTick \/ SetClock

TimeSpec == TimeInit /\ [][TimeNext]_timeVars

-----------------------------------------------------------------------------
(* Properties. *)

\* The rule of summer time, by the weekday of the date itself.
SummerTime(ts) ==
    \/ ts.mon \in 3 .. 8
    \/ ts.mon = 2 /\ ts.mday - ts.wday >= 25 /\ (ts.wday = 0 => ts.hour >= 2)
    \/ ts.mon = 9 /\ (ts.mday - ts.wday < 25 \/ (ts.wday = 0 /\ ts.hour < 3))

(* A time the RTC has taken is read back, and counted on exactly until the   *)
(* day on which the month, or the shorter one before it, ends; from then on  *)
(* with three days of error at most.  In local time the hour of summer time  *)
(* is added from the last Sunday of March to that of October                 *)
(* (pico-time.cpp:46-85, 125-186).                                           *)
ClockReads ==
    /\ set_at.kept =>
          /\ rtc_now = set_at.time => Timestamp = rtc_now
          /\ LET set == Gmtime(set_at.time)
                 now == Gmtime(rtc_now)
             IN now.mon = set.mon /\ now.mday <= MonthLength(set.year, set.mon - 1) =>
                    Timestamp = rtc_now
          /\ Timestamp - rtc_now \in -72 .. 72
    /\ rtc # NotRunning =>
          DateTime(Timezone, TRUE) = Timestamp + Timezone
                                     + IF SummerTime(Gmtime(Timestamp)) THEN 1 ELSE 0

(* "Set RTC" answers OK (app-parser-commands.cpp:73-95): the clock then has  *)
(* the time it was given.                                                    *)
SetIsRead == set_at # NeverSet /\ rtc_now = set_at.time => Timestamp = rtc_now
=============================================================================
