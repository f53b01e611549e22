-------------------------------- MODULE Date --------------------------------
(***************************************************************************)
(* base/Date.cpp and the UTC half of base/TimeZone.cpp: Julian day numbers *)
(* of the Gregorian calendar, and seconds since 1970 against broken-down   *)
(* time.  A calendar that goes from day to day by the rules for months and *)
(* leap years is the reference.                                            *)
(***************************************************************************)
EXTENDS Integers, FiniteSets

CONSTANTS
    FirstYears,         \* years whose 1 January the calendar starts at
    YearsEach,          \* bound: years it goes from there
    ClockTimes          \* seconds of the day that are converted

VARIABLES
    today,              \* the calendar: year, month, day
    dayCount,           \* days since the beginning of 1900
    yearDay             \* days since 1 January

calendarVars == <<today, dayCount, yearDay>>

ASSUME DateAssumption ==
    /\ FirstYears \subseteq 1900..2500
    /\ YearsEach \in Nat \ {0}
    /\ ClockTimes \subseteq Nat /\ \A s \in ClockTimes : s < 86400

-----------------------------------------------------------------------------

getJulianDayNumber(year, month, day) ==
    LET a == (14 - month) \div 12
        y == year + 4800 - a
        m == month + 12 * a - 3
    IN  day + (153 * m + 2) \div 5 + y * 365 + y \div 4 - y \div 100 + y \div 400 - 32045

(* Mutant: the last quotient of the day's month is rounded otherwise. *)
getYearMonthDayRounded(julianDayNumber) ==
    LET a == julianDayNumber + 32044
        b == (4 * a + 3) \div 146097
        c == a - (b * 146097) \div 4
        d == (4 * c + 3) \div 1461
        e == c - (1461 * d) \div 4
        m == (5 * e) \div 153
    IN  [day |-> e - (153 * m + 2) \div 5 + 1,
         month |-> m + 3 - 12 * (m \div 10),
         year |-> b * 100 + d - 4800 + m \div 10]

getYearMonthDay(julianDayNumber) ==
    LET a == julianDayNumber + 32044
        b == (4 * a + 3) \div 146097
        c == a - (b * 146097) \div 4
        d == (4 * c + 3) \div 1461
        e == c - (1461 * d) \div 4
        m == (5 * e + 2) \div 153
    IN  [day |-> e - (153 * m + 2) \div 5 + 1,
         month |-> m + 3 - 12 * (m \div 10),
         year |-> b * 100 + d - 4800 + m \div 10]

kJulianDayOf1970_01_01 == getJulianDayNumber(1970, 1, 1)
kSecondsPerDay == 24 * 60 * 60

(* 0 is Sunday. *)
weekDay(julianDayNumber) == (julianDayNumber + 1) % 7

fillHMS(seconds) ==
    LET minutes == seconds \div 60
    IN  [sec |-> seconds % 60, min |-> minutes % 60, hour |-> minutes \div 60]

(* C's % and / round towards zero; the code corrects a negative remainder. *)
toUtcTime(secondsSinceEpoch) ==
    LET up == secondsSinceEpoch >= 0
        magnitude == IF up THEN secondsSinceEpoch ELSE -secondsSinceEpoch
        sign == IF up THEN 1 ELSE -1
        remainder == sign * (magnitude % kSecondsPerDay)
        quotient == sign * (magnitude \div kSecondsPerDay)
        seconds == IF remainder < 0 THEN remainder + kSecondsPerDay ELSE remainder
        days == IF remainder < 0 THEN quotient - 1 ELSE quotient
        date == days + kJulianDayOf1970_01_01
        ymd == getYearMonthDay(date)
    IN  [hms |-> fillHMS(seconds), ymd |-> ymd, wday |-> weekDay(date),
         yday |-> date - getJulianDayNumber(ymd.year, 1, 1)]

fromUtcTime(year, month, day, hour, minute, seconds) ==
    LET days == getJulianDayNumber(year, month, day) - kJulianDayOf1970_01_01
    IN  days * kSecondsPerDay + hour * 3600 + minute * 60 + seconds

-----------------------------------------------------------------------------
(* The calendar. *)
Leap(y) == y % 4 = 0 /\ (y % 100 # 0 \/ y % 400 = 0)

DaysIn(y, m) ==
    IF m = 2 THEN (IF Leap(y) THEN 29 ELSE 28)
    ELSE IF m \in {4, 6, 9, 11} THEN 30 ELSE 31

DaysBefore(y) == 365 * (y - 1900) + Cardinality({x \in 1900..(y - 1) : Leap(x)})

CalendarInit ==
    \E y \in FirstYears :
        /\ today = [year |-> y, month |-> 1, day |-> 1]
        /\ dayCount = DaysBefore(y)
        /\ yearDay = 0

NextDay ==
    /\ today.day < DaysIn(today.year, today.month)
    /\ today' = [today EXCEPT !.day = @ + 1]
    /\ yearDay' = yearDay + 1
    /\ dayCount' = dayCount + 1

NextMonth ==
    /\ today.day = DaysIn(today.year, today.month)
    /\ today.month < 12
    /\ today' = [today EXCEPT !.day = 1, !.month = @ + 1]
    /\ yearDay' = yearDay + 1
    /\ dayCount' = dayCount + 1

NewYear ==
    /\ today.day = DaysIn(today.year, today.month)
    /\ today.month = 12
    /\ \E y \in FirstYears : today.year + 1 \in (y + 1)..(y + YearsEach - 1)
    /\ today' = [year |-> today.year + 1, month |-> 1, day |-> 1]
    /\ yearDay' = 0
    /\ dayCount' = dayCount + 1

CalendarNext == NextDay \/ NextMonth \/ NewYear

CalendarSpec == CalendarInit /\ [][CalendarNext]_calendarVars

-----------------------------------------------------------------------------
(* 1 January 1900 is day 2415021 and a Monday. *)
JulianDay == 2415021 + dayCount

(* Its seconds since the epoch fit in 32 bits. *)
InRange == today.year \in 1902..2037

(***************************************************************************)
(* Every day of the calendar has the day number that counting gives it.    *)
(***************************************************************************)
JulianDayRight == getJulianDayNumber(today.year, today.month, today.day) = JulianDay

(***************************************************************************)
(* getYearMonthDay() finds the date of every day number again.             *)
(***************************************************************************)
DateRight == getYearMonthDay(JulianDay) = today

(* The days of the week follow one another across months and years. *)
WeekDayRight == weekDay(JulianDay) = (dayCount + 1) % 7

(***************************************************************************)
(* fromUtcTime() counts the seconds from 1970, also backwards, and         *)
(* toUtcTime() undoes it, with the day of the week and of the year right.  *)
(***************************************************************************)
UtcRoundTrip ==
    InRange => \A s \in ClockTimes :
        LET hms == fillHMS(s)
            time == fromUtcTime(today.year, today.month, today.day, hms.hour, hms.min, hms.sec)
        IN  /\ time = (dayCount - DaysBefore(1970)) * kSecondsPerDay + s
            /\ toUtcTime(time) = [hms |-> hms, ymd |-> today,
                                  wday |-> (dayCount + 1) % 7, yday |-> yearDay]

(***************************************************************************)
(* The quotients of Date.cpp and TimeZone.cpp compute the calendar: day    *)
(* numbers, dates, days of the week and UTC times are those that counting  *)
(* days gives, also before 1970.                                           *)
(***************************************************************************)
CalendarRight ==
    /\ JulianDayRight
    /\ DateRight
    /\ WeekDayRight
    /\ UtcRoundTrip
=============================================================================
