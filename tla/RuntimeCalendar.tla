--------------------------- MODULE RuntimeCalendar ---------------------------
(***************************************************************************)
(* The calendar of dotnet.native.js: localtime and the conversions of      *)
(* strftime that count days and weeks.  A behaviour is one call of each    *)
(* for one day.  Digits, names and the time of day are left out.           *)
(***************************************************************************)
EXTENDS Integers, Sequences, FiniteSets

CONSTANTS Year      \* the years, all from 1900 on

\* What they are.
ConstantsOK == Year \subseteq Nat /\ \A year \in Year : year >= 1900

VARIABLES tm,       \* struct tm, without the time of day
          fields    \* what the conversions give

vars == <<tm, fields>>

NoTime == [tm_year |-> 0, tm_mon |-> 0, tm_mday |-> 0, tm_wday |-> 0, tm_yday |-> 0]
NoFields == [j |-> 0, U |-> 0, W |-> 0, V |-> 0, G |-> 0]

TypeOK ==
    /\ tm.tm_year \in {0} \union {y - 1900 : y \in Year} /\ tm.tm_mon \in 0 .. 11
    /\ tm.tm_wday \in 0 .. 6 /\ tm.tm_yday \in 0 .. 365
    /\ fields.V \in 0 .. 53 /\ fields.U \in 0 .. 53 /\ fields.W \in 0 .. 53

Init == tm = NoTime /\ fields = NoFields

-----------------------------------------------------------------------------
(* Date of JavaScript, by the days since the first of January of year 1.   *)

isLeapYear(year) == year % 4 = 0 /\ (year % 100 # 0 \/ year % 400 = 0)

MONTH_DAYS_REGULAR == <<31, 28, 31, 30, 31, 30, 31, 31, 30, 31, 30, 31>>
MONTH_DAYS_LEAP == <<31, 29, 31, 30, 31, 30, 31, 31, 30, 31, 30, 31>>
MonthDays(year) == IF isLeapYear(year) THEN MONTH_DAYS_LEAP ELSE MONTH_DAYS_REGULAR

MONTH_DAYS_REGULAR_CUMULATIVE == <<0, 31, 59, 90, 120, 151, 181, 212, 243, 273, 304, 334>>
MONTH_DAYS_LEAP_CUMULATIVE == <<0, 31, 60, 91, 121, 152, 182, 213, 244, 274, 305, 335>>

\* Months count from 0, days of the month from 1.
Date(year, month, day) == [year |-> year, month |-> month, day |-> day]

NewYear(year) ==
    365 * (year - 1) + (year - 1) \div 4 - (year - 1) \div 100 + (year - 1) \div 400

ydayFromDate(d) ==
    (IF isLeapYear(d.year) THEN MONTH_DAYS_LEAP_CUMULATIVE
     ELSE MONTH_DAYS_REGULAR_CUMULATIVE)[d.month + 1] + d.day - 1

\* Sunday is 0; the first day of year 1 was a Monday.
getDay(d) == (NewYear(d.year) + ydayFromDate(d) + 1) % 7

-----------------------------------------------------------------------------
(* The conversions.                                                        *)

\* One turn of the loop of addDays leaves a month, as long as the days go beyond
\* it.
leaveMonth(s) ==
    LET left == MonthDays(s.at.year)[s.at.month + 1] - s.at.day IN
    IF s.days <= left THEN s
    ELSE [days |-> s.days - (left + 1),
          at |-> IF s.at.month < 11 THEN Date(s.at.year, s.at.month + 1, 1)
                 ELSE Date(s.at.year + 1, 0, 1)]

\* The days are those of less than a year, for which twelve turns are enough.
addDays(d, days) ==
    LET turn[k \in 0 .. 12] ==
            IF k = 0 THEN [days |-> days, at |-> d] ELSE leaveMonth(turn[k - 1])
    IN [turn[12].at EXCEPT !.day = @ + turn[12].days]

\* compareByDay(a, b) <= 0.
NotAfter(a, b) ==
    \/ a.year < b.year
    \/ a.year = b.year /\ (a.month < b.month \/ (a.month = b.month /\ a.day <= b.day))

\* The Monday of the week of the fourth of January.
getFirstWeekStartDate(janFourth) ==
    CASE getDay(janFourth) = 0 -> Date(janFourth.year - 1, 11, 29)
      [] getDay(janFourth) \in 1 .. 4 -> Date(janFourth.year, 0, 5 - getDay(janFourth))
      [] getDay(janFourth) = 5 -> Date(janFourth.year - 1, 11, 31)
      [] getDay(janFourth) = 6 -> Date(janFourth.year - 1, 11, 30)

\* %G.
getWeekBasedYear(t) ==
    LET thisDate == addDays(Date(t.tm_year + 1900, 0, 1), t.tm_yday)
        year == thisDate.year
        Started(y) == NotAfter(getFirstWeekStartDate(Date(y, 0, 4)), thisDate)
    IN CASE Started(year) /\ Started(year + 1)  -> year + 1
         [] Started(year) /\ ~Started(year + 1) -> year
         [] OTHER -> year - 1

\* %j.
DayOfYear(t) ==
    LET days == MonthDays(t.tm_year + 1900)
        sum[i \in 0 .. 12] == IF i = 0 THEN 0 ELSE sum[i - 1] + days[i]
    IN t.tm_mday + sum[t.tm_mon]

\* %U and %W.
WeekFromSunday(t) == (t.tm_yday + 7 - t.tm_wday) \div 7
WeekFromMonday(t) == (t.tm_yday + 7 - ((t.tm_wday + 6) % 7)) \div 7

\* A mutant: a leap year that ends on a Friday is forgotten.
LongBeforeThursday(t) ==
    LET dec31 == (t.tm_wday + 7 - t.tm_yday - 1) % 7 IN dec31 = 4

\* Whether the year before, which ends in this week, has 53 weeks.
LongBefore(t) ==
    LET dec31 == (t.tm_wday + 7 - t.tm_yday - 1) % 7 IN
    dec31 = 4 \/ (dec31 = 5 /\ isLeapYear((t.tm_year % 400) - 1))

\* Whether this year has 53 weeks.
LongYear(t) ==
    LET jan1 == (t.tm_wday + 371 - t.tm_yday) % 7 IN
    jan1 = 4 \/ (jan1 = 3 /\ isLeapYear(t.tm_year))

\* %V.
WeekOfYear(t) ==
    LET week == WeekFromMonday(t)
                + IF (t.tm_wday + 371 - t.tm_yday - 2) % 7 <= 2 THEN 1 ELSE 0
    IN CASE week = 0 -> IF LongBefore(t) THEN 53 ELSE 52
         [] week = 53 -> IF LongYear(t) THEN 53 ELSE 1
         [] OTHER -> week

-----------------------------------------------------------------------------
(* The calls.                                                              *)

localtime(d) ==
    /\ tm = NoTime
    /\ tm' = [tm_year |-> d.year - 1900, tm_mon |-> d.month, tm_mday |-> d.day,
              tm_wday |-> getDay(d), tm_yday |-> ydayFromDate(d)]
    /\ UNCHANGED fields

strftime ==
    /\ tm # NoTime /\ fields = NoFields
    /\ fields' = [j |-> DayOfYear(tm), U |-> WeekFromSunday(tm), W |-> WeekFromMonday(tm),
                  V |-> WeekOfYear(tm), G |-> getWeekBasedYear(tm)]
    /\ UNCHANGED tm

Next ==
    \/ \E y \in Year, month \in 0 .. 11 : \E day \in 1 .. MonthDays(y)[month + 1] :
            localtime(Date(y, month, day))
    \/ strftime

Spec == Init /\ [][Next]_vars

-----------------------------------------------------------------------------

\* The days of the year up to this one that are the weekday w.
Count(w) == Cardinality({i \in 0 .. tm.tm_yday : (tm.tm_wday + 371 - tm.tm_yday + i) % 7 = w})

\* The Thursday of this week, and the year it is in.
Today == NewYear(tm.tm_year + 1900) + tm.tm_yday
Thursday == Today - (Today % 7) + 3
YearOf(n) ==
    CHOOSE y \in tm.tm_year + 1899 .. tm.tm_year + 1901 : NewYear(y) <= n /\ n < NewYear(y + 1)

\* Every day of the calendar has the week and the year that ISO 8601 gives it,
\* those of its Thursday, and the week counts of strftime are the Sundays and
\* the Mondays so far, over leap years, centuries and both ends of a year
\* (%V and %G find week and year by rules of their own).
CalendarExact ==
    fields # NoFields =>
        /\ fields.j = tm.tm_yday + 1 /\ YearOf(Today) = tm.tm_year + 1900
        /\ fields.U = Count(0) /\ fields.W = Count(1)
        /\ fields.G = YearOf(Thursday)
        /\ fields.V = (Thursday - NewYear(YearOf(Thursday))) \div 7 + 1
=============================================================================
